----------------------------- MODULE UpkeepProofs -----------------------------
(***************************************************************************)
(* Theorems about the stored data outside of requests: the deletion of     *)
(* users over the foreign keys of all the models, whatever tables and rows *)
(* there are; the pipeline's repository of results; and the schema under   *)
(* whatever upgrades and downgrades of the 57 revisions.                   *)
(***************************************************************************)
EXTENDS MCUpkeep, FiniteSetTheorems, SequenceTheorems, WellFoundedInduction, TLAPS

(* Induction over the naturals, for a set that holds 0 and the successors  *)
(* of what it holds.                                                       *)
LEMMA LeastNat ==
    ASSUME NEW T, T \subseteq Nat, T # {}
    PROVE  \E x \in T : \A y \in T : x <= y
<1>1. PICK x \in T : \A y \in T : ~(<<y, x>> \in OpToRel(<, Nat))
  BY WFMin, NatLessThanWellFounded
<1>2. \A y \in T : ~(y < x)
  BY <1>1 DEF OpToRel
<1> QED
  BY <1>2

LEMMA NatInd ==
    ASSUME NEW T, 0 \in T, \A n \in Nat : n \in T => n + 1 \in T
    PROVE  Nat \subseteq T
<1> SUFFICES ASSUME Nat \ T # {} PROVE FALSE
  OBVIOUS
<1>1. PICK x \in Nat \ T : \A y \in Nat \ T : x <= y
  BY LeastNat
<1>2. x # 0 /\ x - 1 \in Nat
  BY <1>1
<1>3. x - 1 \in T
  BY <1>1, <1>2
<1> QED
  BY <1>1, <1>2, <1>3

-----------------------------------------------------------------------------
(* Deletions.  The tables whose rows can go when a user does, and what     *)
(* their keys, and all keys to them, do.                                   *)
UsersOwn == {"users", "refresh_tokens", "user_credentials", "device_trust", "webauthn_challenges",
             "notifications", "notification_preferences", "notification_analytics", "notification_logs",
             "reminders", "conversations", "conversation_messages"}

OfUsers(t, k) ==
    k.to \in UsersOwn =>
        /\ k.onDelete = "cascade" => t \in UsersOwn \ {"users"}
        /\ k.onDelete \notin {"no action", "restrict"}
        /\ k.onDelete = "set null" /\ ~k.nullable =>
              t = "automation_rules" /\ k.column = "created_by" /\ k.to = "users"

(* No column that SET NULL may clear has another key that minds.           *)
Clearable == {"created_by", "executed_by", "triggered_by", "parent_id"}
Clears(t, k) ==
    /\ k.onDelete \in {"cascade", "no action", "restrict", "set null"}
    /\ k.onDelete = "set null" => k.column \in Clearable
    /\ k.column \in Clearable => k.nullable \/ t = "automation_rules"
    /\ k.onDelete = "set null" /\ t = "automation_rules" => ~k.nullable

KeyOK(t, k) == OfUsers(t, k) /\ Clears(t, k)
KeysOK(m) == \A k \in m.keys : KeyOK(m.table, k)

LEMMA Kinds ==
    /\ \A t, c, u : c \notin Clearable /\ u \notin UsersOwn => KeyOK(t, Cascade(c, u))
    /\ \A t, c, u : c \notin Clearable /\ t \in UsersOwn \ {"users"} => KeyOK(t, Cascade(c, u))
    /\ \A t, c, u : c \notin Clearable /\ u \notin UsersOwn =>
          KeyOK(t, [Cascade(c, u) EXCEPT !.nullable = TRUE])
    /\ \A t, c, u : c \notin Clearable /\ u \notin UsersOwn => KeyOK(t, NoAction(c, u))
    /\ \A t, c, u : c \notin Clearable /\ u \notin UsersOwn => KeyOK(t, RestrictDelete(c, u))
    /\ \A t, c, u : c \in Clearable /\ t # "automation_rules" => KeyOK(t, SetNull(c, u))
    /\ KeyOK("automation_rules", SetNullOfNotNull("created_by", "users"))
BY DEF KeyOK, OfUsers, Clears, Clearable,
       Cascade, Key, NoAction, RestrictDelete, SetNull, SetNullOfNotNull

LEMMA ModelKeys == \A t, ks : KeysOK(Model(t, ks)) <=> \A k \in ks : KeyOK(t, k)
BY DEF KeysOK, Model

LEMMA Own ==
  /\ "refresh_tokens" \in UsersOwn \ {"users"}
  /\ "user_credentials" \in UsersOwn \ {"users"}
  /\ "device_trust" \in UsersOwn \ {"users"}
  /\ "webauthn_challenges" \in UsersOwn \ {"users"}
  /\ "notifications" \in UsersOwn \ {"users"}
  /\ "notification_preferences" \in UsersOwn \ {"users"}
  /\ "notification_analytics" \in UsersOwn \ {"users"}
  /\ "notification_logs" \in UsersOwn \ {"users"}
  /\ "reminders" \in UsersOwn \ {"users"}
  /\ "conversations" \in UsersOwn \ {"users"}
  /\ "conversation_messages" \in UsersOwn \ {"users"}
BY DEF UsersOwn

LEMMA Outside ==
  /\ "ai_conversations" \notin UsersOwn
  /\ "automation_rules" \notin UsersOwn
  /\ "campaigns" \notin UsersOwn
  /\ "chat_sessions" \notin UsersOwn
  /\ "customers" \notin UsersOwn
  /\ "identity_departments" \notin UsersOwn
  /\ "identity_organizations" \notin UsersOwn
  /\ "identity_permissions" \notin UsersOwn
  /\ "identity_roles" \notin UsersOwn
  /\ "identity_tenants" \notin UsersOwn
  /\ "identity_users" \notin UsersOwn
  /\ "opportunities" \notin UsersOwn
  /\ "organizations" \notin UsersOwn
  /\ "permissions" \notin UsersOwn
  /\ "pipelines" \notin UsersOwn
  /\ "reports" \notin UsersOwn
  /\ "roles" \notin UsersOwn
  /\ "tenants" \notin UsersOwn
  /\ "tickets" \notin UsersOwn
  /\ "webhooks" \notin UsersOwn
  /\ "workflow_definitions" \notin UsersOwn
  /\ "workflows" \notin UsersOwn
BY DEF UsersOwn

LEMMA Columns ==
  /\ "campaign_id" \notin Clearable
  /\ "conversation_id" \notin Clearable
  /\ "customer_id" \notin Clearable
  /\ "definition_id" \notin Clearable
  /\ "notification_id" \notin Clearable
  /\ "opportunity_id" \notin Clearable
  /\ "organization_id" \notin Clearable
  /\ "permission_id" \notin Clearable
  /\ "pipeline_id" \notin Clearable
  /\ "report_id" \notin Clearable
  /\ "role_id" \notin Clearable
  /\ "rule_id" \notin Clearable
  /\ "session_id" \notin Clearable
  /\ "tenant_id" \notin Clearable
  /\ "ticket_id" \notin Clearable
  /\ "user_id" \notin Clearable
  /\ "webhook_id" \notin Clearable
  /\ "workflow_id" \notin Clearable
  /\ "created_by" \in Clearable
  /\ "executed_by" \in Clearable
  /\ "triggered_by" \in Clearable
  /\ "parent_id" \in Clearable
BY DEF Clearable

(* Model by model: a row goes with a user only where it is the user's own, *)
(* and only the author of an automation rule holds a user back.            *)
LEMMA AllKeysOK == \A m \in Models : KeysOK(m)
<1> USE ModelKeys, Kinds, Own, Outside, Columns DEF OfTenant, OfUser, OfIdentityTenant,
           OfCustomer, OfCampaign, OfOpportunity, OfTicket, OfNotification, OfWorkflow
<1>1. KeysOK(TenantModel) BY DEF TenantModel
<1>2. KeysOK(UserModel) BY DEF UserModel
<1>3. KeysOK(OrganizationModel) BY DEF OrganizationModel
<1>4. KeysOK(DepartmentModel) BY DEF DepartmentModel
<1>5. KeysOK(RoleModel) BY DEF RoleModel
<1>6. KeysOK(PermissionModel) BY DEF PermissionModel
<1>7. KeysOK(RolePermissionModel) BY DEF RolePermissionModel
<1>8. KeysOK(UserRoleModel) BY DEF UserRoleModel
<1>9. KeysOK(IdentityTenantModel) BY DEF IdentityTenantModel
<1>10. KeysOK(IdentityOrganizationModel) BY DEF IdentityOrganizationModel
<1>11. KeysOK(IdentityDepartmentModel) BY DEF IdentityDepartmentModel
<1>12. KeysOK(IdentityUserModel) BY DEF IdentityUserModel
<1>13. KeysOK(IdentityRoleModel) BY DEF IdentityRoleModel
<1>14. KeysOK(IdentityPermissionModel) BY DEF IdentityPermissionModel
<1>15. KeysOK(IdentityRolePermissionModel) BY DEF IdentityRolePermissionModel
<1>16. KeysOK(IdentityUserRoleModel) BY DEF IdentityUserRoleModel
<1>17. KeysOK(RefreshTokenModel) BY DEF RefreshTokenModel
<1>18. KeysOK(UserCredentialModel) BY DEF UserCredentialModel
<1>19. KeysOK(DeviceTrustModel) BY DEF DeviceTrustModel
<1>20. KeysOK(WebAuthnChallengeModel) BY DEF WebAuthnChallengeModel
<1>21. KeysOK(ApiClientModel) BY DEF ApiClientModel
<1>22. KeysOK(CustomerModel) BY DEF CustomerModel
<1>23. KeysOK(CustomerEnrichmentModel) BY DEF CustomerEnrichmentModel
<1>24. KeysOK(ChurnPredictionModel) BY DEF ChurnPredictionModel
<1>25. KeysOK(EngagementEventModel) BY DEF EngagementEventModel
<1>26. KeysOK(RoutingRuleModel) BY DEF RoutingRuleModel
<1>27. KeysOK(ActivityModel) BY DEF ActivityModel
<1>28. KeysOK(TaskModel) BY DEF TaskModel
<1>29. KeysOK(ImportJobModel) BY DEF ImportJobModel
<1>30. KeysOK(ExportJobModel) BY DEF ExportJobModel
<1>31. KeysOK(CampaignModel) BY DEF CampaignModel
<1>32. KeysOK(CampaignEventModel) BY DEF CampaignEventModel
<1>33. KeysOK(TriggerModel) BY DEF TriggerModel
<1>34. KeysOK(PipelineModel) BY DEF PipelineModel
<1>35. KeysOK(PipelineStageModel) BY DEF PipelineStageModel
<1>36. KeysOK(OpportunityModel) BY DEF OpportunityModel
<1>37. KeysOK(OpportunityActivityModel) BY DEF OpportunityActivityModel
<1>38. KeysOK(RecommendationModel) BY DEF RecommendationModel
<1>39. KeysOK(RiskSignalModel) BY DEF RiskSignalModel
<1>40. KeysOK(TicketModel) BY DEF TicketModel
<1>41. KeysOK(TicketReplyModel) BY DEF TicketReplyModel
<1>42. KeysOK(TicketCategorizationModel) BY DEF TicketCategorizationModel
<1>43. KeysOK(CategorizationFeedbackModel) BY DEF CategorizationFeedbackModel
<1>44. KeysOK(NotificationModel) BY DEF NotificationModel
<1>45. KeysOK(NotificationAnalytics) BY DEF NotificationAnalytics
<1>46. KeysOK(NotificationLogModel) BY DEF NotificationLogModel
<1>47. KeysOK(NotificationPreferenceModel) BY DEF NotificationPreferenceModel
<1>48. KeysOK(NotificationTemplateModel) BY DEF NotificationTemplateModel
<1>49. KeysOK(SmartNotificationModel) BY DEF SmartNotificationModel
<1>50. KeysOK(ReminderModel) BY DEF ReminderModel
<1>51. KeysOK(AutomationRuleModel) BY DEF AutomationRuleModel
<1>52. KeysOK(AutomationLogModel) BY DEF AutomationLogModel
<1>53. KeysOK(WebhookModel) BY DEF WebhookModel
<1>54. KeysOK(WebhookDeliveryModel) BY DEF WebhookDeliveryModel
<1>55. KeysOK(WorkflowModel) BY DEF WorkflowModel
<1>56. KeysOK(WorkflowExecutionModel) BY DEF WorkflowExecutionModel
<1>57. KeysOK(WorkflowNodeModel) BY DEF WorkflowNodeModel
<1>58. KeysOK(WorkflowDefinitionModel) BY DEF WorkflowDefinitionModel
<1>59. KeysOK(WorkflowInstanceModel) BY DEF WorkflowInstanceModel
<1>60. KeysOK(AgentTaskModel) BY DEF AgentTaskModel
<1>61. KeysOK(AIConversationModel) BY DEF AIConversationModel
<1>62. KeysOK(AIMessageModel) BY DEF AIMessageModel
<1>63. KeysOK(ChatSessionModel) BY DEF ChatSessionModel
<1>64. KeysOK(ChatMessageModel) BY DEF ChatMessageModel
<1>65. KeysOK(ConversationModel) BY DEF ConversationModel
<1>66. KeysOK(ConversationMessageModel) BY DEF ConversationMessageModel
<1>67. KeysOK(DashboardModel) BY DEF DashboardModel
<1>68. KeysOK(ReportModel) BY DEF ReportModel
<1>69. KeysOK(ChartDataModel) BY DEF ChartDataModel
<1>70. KeysOK(ReportDefinitionModel) BY DEF ReportDefinitionModel
<1>71. KeysOK(ReportScheduleModel) BY DEF ReportScheduleModel
<1> QED
  BY ONLY <1>1, <1>2, <1>3, <1>4, <1>5, <1>6, <1>7, <1>8, <1>9, <1>10, <1>11, <1>12,
          <1>13, <1>14, <1>15, <1>16, <1>17, <1>18, <1>19, <1>20, <1>21, <1>22, <1>23,
          <1>24, <1>25, <1>26, <1>27, <1>28, <1>29, <1>30, <1>31, <1>32, <1>33, <1>34,
          <1>35, <1>36, <1>37, <1>38, <1>39, <1>40, <1>41, <1>42, <1>43, <1>44, <1>45,
          <1>46, <1>47, <1>48, <1>49, <1>50, <1>51, <1>52, <1>53, <1>54, <1>55, <1>56,
          <1>57, <1>58, <1>59, <1>60, <1>61, <1>62, <1>63, <1>64, <1>65, <1>66, <1>67,
          <1>68, <1>69, <1>70, <1>71 DEF Models

LEMMA FollowedOK ==
    \A t \in Stored : \A k \in Followed[t] : k.to \in Stored /\ KeyOK(t, k)
<1> TAKE t \in Stored
<1> TAKE k \in Followed[t]
<1>1. /\ k \in UNION {m.keys : m \in {n \in Models : n.table = t}}
      /\ k.to \in Stored
  BY DEF Followed
<1>2. PICK m \in Models : m.table = t /\ k \in m.keys
  BY <1>1
<1>3. KeysOK(m)
  BY AllKeysOK
<1> QED
  BY <1>1, <1>2, <1>3 DEF KeysOK

-----------------------------------------------------------------------------
(* What goes with a row: wave after wave, until nothing more refers.       *)
Grown(S) == S \cup {RowOf(r) : r \in {s \in rows : Refers(s, S, "cascade")}}
Waves(x, w, m) == w = [n \in 0 .. m |-> IF n = 0 THEN {x} ELSE Grown(w[n - 1])]

LEMMA WavesExist ==
    ASSUME NEW x
    PROVE  \A m \in Nat : \E w : Waves(x, w, m)
<1> DEFINE T == {m \in Nat : \E w : Waves(x, w, m)}
<1>1. 0 \in T
  <2> DEFINE w == [n \in 0 .. 0 |-> {x}]
  <2>1. w = [n \in 0 .. 0 |-> IF n = 0 THEN {x} ELSE Grown(w[n - 1])]
    OBVIOUS
  <2>2. Waves(x, w, 0)
    BY <2>1 DEF Waves
  <2> QED
    BY <2>2
<1>2. ASSUME NEW m \in Nat, m \in T PROVE m + 1 \in T
  <2>1. PICK w : Waves(x, w, m)
    BY <1>2
  <2> DEFINE v == [n \in 0 .. m + 1 |-> IF n = m + 1 THEN Grown(w[m]) ELSE w[n]]
  <2>2. \A n \in 0 .. m : v[n] = w[n]
    OBVIOUS
  <2>3. \A n \in 0 .. m : w[n] = IF n = 0 THEN {x} ELSE Grown(w[n - 1])
    BY <2>1 DEF Waves
  <2>4. ASSUME NEW n \in 0 .. m + 1
        PROVE  v[n] = IF n = 0 THEN {x} ELSE Grown(v[n - 1])
    <3>1. CASE n = m + 1
      <4>1. v[n - 1] = w[m] /\ n # 0
        BY <3>1, <2>2, m \in 0 .. m
      <4> QED
        BY <3>1, <4>1
    <3>2. CASE n = 0
      <4>1. 0 \in 0 .. m
        OBVIOUS
      <4> QED
        BY <3>2, <4>1, <2>2, <2>3
    <3>3. CASE n \in 1 .. m
      <4>1. v[n - 1] = w[n - 1] /\ n \in 0 .. m /\ n # 0 /\ v[n] = w[n]
        BY <3>3, <2>2
      <4> QED
        BY <4>1, <2>3
    <3> QED
      BY <3>1, <3>2, <3>3
  <2>5. v = [n \in 0 .. m + 1 |-> v[n]]
    OBVIOUS
  <2> HIDE DEF v
  <2>6. v = [n \in 0 .. m + 1 |-> IF n = 0 THEN {x} ELSE Grown(v[n - 1])]
    BY <2>4, <2>5
  <2> QED
    BY <2>6 DEF Waves
<1>3. Nat \subseteq T
  <2> HIDE DEF T
  <2> QED
    BY <1>1, <1>2, NatInd
<1> QED
  BY <1>3

LEMMA GoesInWaves ==
    ASSUME NEW x
    PROVE  \E w : /\ Goes(x) = w[MaxRows]
                  /\ w[0] = {x}
                  /\ \A n \in 0 .. MaxRows - 1 : w[n + 1] = Grown(w[n])
<1> DEFINE W(w) == w = [n \in 0 .. MaxRows |->
                IF n = 0 THEN {x}
                ELSE w[n - 1] \cup
                     {RowOf(r) : r \in {s \in rows : Refers(s, w[n - 1], "cascade")}}]
           w == CHOOSE v : W(v)
<1>1. \E v : W(v)
  <2>1. PICK v : Waves(x, v, MaxRows)
    BY WavesExist, DeletionsAssumption
  <2>2. W(v)
    BY <2>1 DEF Waves, Grown
  <2> QED
    BY <2>2
<1>2. W(w)
  <2> HIDE DEF W
  <2> QED
    BY <1>1
<1>3. Goes(x) = w[MaxRows]
  BY DEF Goes
<1> HIDE DEF w
<1>4. w[0] = {x}
  BY <1>2, DeletionsAssumption
<1>5. \A n \in 0 .. MaxRows - 1 : w[n + 1] = Grown(w[n])
  <2> TAKE n \in 0 .. MaxRows - 1
  <2>1. n + 1 \in 0 .. MaxRows /\ n + 1 # 0 /\ (n + 1) - 1 = n
    BY DeletionsAssumption
  <2> QED
    BY <1>2, <2>1 DEF Grown
<1> QED
  BY <1>3, <1>4, <1>5

(* Nothing that refers to a row that goes, with CASCADE, stays.            *)
LEMMA GoesIsClosed ==
    ASSUME NEW x \in Present, IsFiniteSet(rows), Cardinality(rows) <= MaxRows
    PROVE  Goes(x) \subseteq Present /\ x \in Goes(x) /\ Grown(Goes(x)) = Goes(x)
<1>1. PICK w : /\ Goes(x) = w[MaxRows]
               /\ w[0] = {x}
               /\ \A n \in 0 .. MaxRows - 1 : w[n + 1] = Grown(w[n])
  BY GoesInWaves
<1>2. IsFiniteSet(Present) /\ Cardinality(Present) <= MaxRows
  <2> DEFINE g == [r \in rows |-> RowOf(r)]
  <2>1. g \in Surjection(rows, Present)
    BY DEF Surjection, Present
  <2>2. IsFiniteSet(Present) /\ Cardinality(Present) <= Cardinality(rows)
    <3> HIDE DEF g
    <3> QED
      BY <2>1, FS_Surjection
  <2>3. Cardinality(Present) \in Nat /\ Cardinality(rows) \in Nat
    BY <2>2, FS_CardinalityType
  <2> QED
    BY <2>2, <2>3, DeletionsAssumption
<1> DEFINE T == {n \in Nat : n <= MaxRows =>
                   /\ x \in w[n] /\ w[n] \subseteq Present
                   /\ Cardinality(w[n]) >= n + 1 \/ Grown(w[n]) = w[n]}
<1>3. 0 \in T
  BY <1>1, FS_Singleton
<1>4. ASSUME NEW n \in Nat, n \in T PROVE n + 1 \in T
  <2> SUFFICES ASSUME n + 1 <= MaxRows
               PROVE  /\ x \in w[n + 1] /\ w[n + 1] \subseteq Present
                      /\ Cardinality(w[n + 1]) >= (n + 1) + 1 \/ Grown(w[n + 1]) = w[n + 1]
    OBVIOUS
  <2>1. w[n + 1] = Grown(w[n])
    BY <1>1, DeletionsAssumption
  <2>2. /\ x \in w[n] /\ w[n] \subseteq Present
        /\ Cardinality(w[n]) >= n + 1 \/ Grown(w[n]) = w[n]
    BY <1>4, DeletionsAssumption
  <2>3. w[n] \subseteq w[n + 1] /\ w[n + 1] \subseteq Present
    BY <2>1, <2>2 DEF Grown, Present
  <2>4. CASE Grown(w[n]) = w[n]
    BY <2>1, <2>2, <2>3, <2>4
  <2>5. CASE Grown(w[n]) # w[n]
    <3>1. IsFiniteSet(w[n + 1]) /\ IsFiniteSet(w[n])
      BY <2>3, <2>2, <1>2, FS_Subset
    <3>2. /\ Cardinality(w[n]) <= Cardinality(w[n + 1])
          /\ Cardinality(w[n + 1]) = Cardinality(w[n]) => w[n + 1] = w[n]
      BY <3>1, <2>3, FS_Subset
    <3>3. Cardinality(w[n]) \in Nat /\ Cardinality(w[n + 1]) \in Nat
      BY <3>1, FS_CardinalityType
    <3>4. Cardinality(w[n]) >= n + 1 /\ Cardinality(w[n + 1]) # Cardinality(w[n])
      BY <2>1, <2>2, <2>5, <3>2
    <3> QED
      BY <3>2, <3>3, <3>4, <2>2, <2>3
  <2> QED
    BY <2>4, <2>5
<1>5. MaxRows \in T
  <2> HIDE DEF T
  <2>1. Nat \subseteq T
    BY <1>3, <1>4, NatInd
  <2> QED
    BY <2>1, DeletionsAssumption
<1>6. /\ x \in Goes(x) /\ Goes(x) \subseteq Present
      /\ Cardinality(Goes(x)) >= MaxRows + 1 \/ Grown(Goes(x)) = Goes(x)
  BY <1>5, <1>1, DeletionsAssumption
<1>7. Cardinality(Goes(x)) \in Nat /\ Cardinality(Goes(x)) <= Cardinality(Present)
      /\ Cardinality(Present) \in Nat
  BY <1>6, <1>2, FS_Subset, FS_CardinalityType
<1> QED
  BY <1>2, <1>6, <1>7, DeletionsAssumption

-----------------------------------------------------------------------------
(* The inductive invariant: the rows are no more than the bound, have the  *)
(* columns of their keys, and every key finds its row.                     *)
Shaped(r) ==
    /\ r = [table |-> r.table, id |-> r.id, refs |-> r.refs]
    /\ DOMAIN r.refs = {k.column : k \in Followed[r.table]}

RowsInv ==
    /\ RowsTypeOK
    /\ IsFiniteSet(rows) /\ Cardinality(rows) <= MaxRows
    /\ \A r \in rows : Shaped(r)

(* With a user go rows of the user's own tables, and no other user.        *)
OwnOf(x, S) == \A y \in S : y[1] \in UsersOwn /\ (y[1] = "users" => y = x)

LEMMA NullIsNoRow == Null[1] \notin UsersOwn /\ Null # <<>> /\ \A r : RowOf(r)[1] = r.table
BY DEF Null, Row, UsersOwn, RowOf

LEMMA ReferredIsOwn ==
    ASSUME RowsInv, NEW x, NEW S, OwnOf(x, S), NEW r \in rows, NEW k \in Followed[r.table],
           r.refs[k.column] \in S
    PROVE  k.to \in UsersOwn /\ r.refs[k.column][1] = k.to
<1>1. Holds(r.refs, k)
  BY DEF RowsInv, RowsTypeOK
<1>2. r.refs[k.column][1] \in UsersOwn
  BY DEF OwnOf
<1>3. r.refs[k.column] # Null
  BY <1>2, NullIsNoRow
<1> QED
  BY <1>1, <1>2, <1>3 DEF Holds

LEMMA OwnStaysOwn ==
    ASSUME RowsInv, NEW x, NEW S, OwnOf(x, S)
    PROVE  OwnOf(x, Grown(S))
<1> SUFFICES ASSUME NEW r \in rows, Refers(r, S, "cascade")
             PROVE  RowOf(r)[1] \in UsersOwn \ {"users"}
  BY DEF OwnOf, Grown
<1>1. PICK k \in Followed[r.table] : k.onDelete = "cascade" /\ r.refs[k.column] \in S
  BY DEF Refers
<1>2. k.to \in UsersOwn
  BY <1>1, ReferredIsOwn
<1>3. r.table \in Stored
  BY DEF RowsInv, RowsTypeOK
<1>4. KeyOK(r.table, k)
  BY <1>3, FollowedOK
<1> QED
  BY <1>1, <1>2, <1>4, NullIsNoRow DEF KeyOK, OfUsers

LEMMA OnlyOwnGoes ==
    ASSUME RowsInv, NEW x, x[1] = "users"
    PROVE  OwnOf(x, Goes(x))
<1>1. PICK w : /\ Goes(x) = w[MaxRows]
               /\ w[0] = {x}
               /\ \A n \in 0 .. MaxRows - 1 : w[n + 1] = Grown(w[n])
  BY GoesInWaves
<1> DEFINE T == {n \in Nat : n <= MaxRows => OwnOf(x, w[n])}
<1>2. 0 \in T
  BY <1>1 DEF OwnOf, UsersOwn
<1>3. ASSUME NEW n \in Nat, n \in T PROVE n + 1 \in T
  <2> SUFFICES ASSUME n + 1 <= MaxRows PROVE OwnOf(x, w[n + 1])
    OBVIOUS
  <2>1. OwnOf(x, w[n])
    BY <1>3, DeletionsAssumption
  <2>2. w[n + 1] = Grown(w[n])
    BY <1>1, DeletionsAssumption
  <2> QED
    BY <2>1, <2>2, OwnStaysOwn
<1>4. MaxRows \in T
  <2> HIDE DEF T
  <2>1. Nat \subseteq T
    BY <1>2, <1>3, NatInd
  <2> QED
    BY <2>1, DeletionsAssumption
<1> QED
  BY <1>1, <1>4, DeletionsAssumption

LEMMA RulesAlone == RowsInv => OnlyRulesHoldUsers
<1> SUFFICES ASSUME RowsInv, NEW x \in Present, x[1] = "users", Refused(x)
             PROVE  \E r \in rows : r.table = "automation_rules" /\ r.refs["created_by"] = x
  BY DEF OnlyRulesHoldUsers
<1> DEFINE gone == Goes(x)
<1>1. OwnOf(x, gone)
  BY OnlyOwnGoes
<1> DEFINE Holding(r, k) ==
                /\ r.refs[k.column] \in gone
                /\ \/ k.onDelete \in {"no action", "restrict"}
                   \/ k.onDelete = "set null" /\ ~k.nullable
<1>a. PICK r \in rows : \E k \in Followed[r.table] : Holding(r, k)
  BY DEF Refused, Refers
<1>2. PICK k \in Followed[r.table] : Holding(r, k)
  BY <1>a
<1>3. k.to \in UsersOwn /\ r.refs[k.column][1] = k.to
  BY <1>1, <1>2, ReferredIsOwn
<1>4. KeyOK(r.table, k)
  BY FollowedOK DEF RowsInv, RowsTypeOK
<1>5. /\ r.table = "automation_rules" /\ k.column = "created_by" /\ k.to = "users"
  BY <1>2, <1>3, <1>4 DEF KeyOK, OfUsers
<1>6. r.refs[k.column] = x
  BY <1>1, <1>2, <1>3, <1>5 DEF OwnOf
<1> QED
  BY <1>5, <1>6

-----------------------------------------------------------------------------
Loses(r, col, gone) ==
    \E k \in Followed[r.table] :
        k.column = col /\ k.onDelete = "set null" /\ r.refs[col] \in gone

LEMMA ClearedKeepsName ==
    ASSUME NEW r, Shaped(r), NEW gone
    PROVE  /\ Cleared(r, gone).table = r.table /\ Cleared(r, gone).id = r.id
           /\ RowOf(Cleared(r, gone)) = RowOf(r)
           /\ Shaped(Cleared(r, gone))
           /\ \A col \in DOMAIN r.refs :
                 Cleared(r, gone).refs[col] = IF Loses(r, col, gone) THEN Null ELSE r.refs[col]
<1> DEFINE new == [c \in DOMAIN r.refs |-> IF Loses(r, c, gone) THEN Null ELSE r.refs[c]]
<1>1. Cleared(r, gone) = [r EXCEPT !.refs = new]
  BY Zenon DEF Cleared, Loses
<1>2. /\ DOMAIN new = DOMAIN r.refs
      /\ \A col \in DOMAIN r.refs : new[col] = IF Loses(r, col, gone) THEN Null ELSE r.refs[col]
  OBVIOUS
<1> HIDE DEF new
<1>3. \A v : [r EXCEPT !.refs = v] = [table |-> r.table, id |-> r.id, refs |-> v]
  BY DEF Shaped
<1>4. Cleared(r, gone) = [table |-> r.table, id |-> r.id, refs |-> new]
  BY <1>1, <1>3, Zenon
<1>5. /\ Cleared(r, gone).table = r.table /\ Cleared(r, gone).id = r.id
      /\ Cleared(r, gone).refs = new
  BY <1>4
<1> QED
  BY <1>4, <1>5, <1>2 DEF Shaped, RowOf

LEMMA OthersStay ==
    ASSUME RowsInv, NEW x, RemoveRow(x)
    PROVE  \A y \in Present : y \notin Goes(x) => y \in Present'
<1> SUFFICES ASSUME NEW r \in rows, RowOf(r) \notin Goes(x) PROVE RowOf(r) \in Present'
  BY DEF Present
<1>1. Shaped(r) /\ Cleared(r, Goes(x)) \in rows'
  BY DEF RowsInv, RemoveRow
<1>2. RowOf(Cleared(r, Goes(x))) = RowOf(r)
  BY <1>1, ClearedKeepsName
<1> QED
  BY <1>1, <1>2 DEF Present

LEMMA RemovalKeepsRows ==
    ASSUME RowsInv, NEW x, RemoveRow(x)
    PROVE  RowsInv'
<1> DEFINE gone == Goes(x)
           stay == {r \in rows : RowOf(r) \notin gone}
           g == [r \in stay |-> Cleared(r, gone)]
<1>1. /\ x \in Present /\ ~Refused(x)
      /\ rows' = {Cleared(r, gone) : r \in stay}
  BY DEF RemoveRow
<1>2. \A r \in rows : Shaped(r) /\ r.table \in Stored
  BY DEF RowsInv, RowsTypeOK
<1>3. gone \subseteq Present /\ Grown(gone) = gone
  BY <1>1, GoesIsClosed DEF RowsInv
<1>4. IsFiniteSet(rows') /\ Cardinality(rows') <= MaxRows
  <2>1. IsFiniteSet(stay) /\ Cardinality(stay) <= Cardinality(rows)
    BY FS_Subset DEF RowsInv
  <2>2. g \in Surjection(stay, rows')
    BY <1>1 DEF Surjection
  <2>3. IsFiniteSet(rows') /\ Cardinality(rows') <= Cardinality(stay)
    <3> HIDE DEF g, stay
    <3> QED
      BY <2>1, <2>2, FS_Surjection
  <2>4. Cardinality(rows) \in Nat /\ Cardinality(stay) \in Nat /\ Cardinality(rows') \in Nat
    BY <2>1, <2>3, FS_CardinalityType DEF RowsInv
  <2> QED
    BY <2>1, <2>3, <2>4, DeletionsAssumption DEF RowsInv
<1>5. \A y \in Present : y \notin gone => y \in Present'
  BY OthersStay
<1>6. ASSUME NEW s \in rows'
      PROVE  /\ Shaped(s) /\ s.table \in Stored /\ s.id \in RowIds
             /\ \A k \in Followed[s.table] : Holds(s.refs, k)'
  <2>1. PICK r \in rows : RowOf(r) \notin gone /\ s = Cleared(r, gone)
    BY <1>1
  <2>2. /\ s.table = r.table /\ s.id = r.id /\ Shaped(s)
        /\ \A col \in DOMAIN r.refs :
              s.refs[col] = IF Loses(r, col, gone) THEN Null ELSE r.refs[col]
    BY <2>1, <1>2, ClearedKeepsName
  <2>3. r.table \in Stored /\ r.id \in RowIds
    BY DEF RowsInv, RowsTypeOK
  <2>4. ASSUME NEW k \in Followed[r.table] PROVE Holds(s.refs, k)'
    <3>1. k.column \in DOMAIN r.refs
      BY <1>2 DEF Shaped
    <3>2. KeyOK(r.table, k) /\ Holds(r.refs, k)
      BY <2>3, FollowedOK DEF RowsInv, RowsTypeOK
    <3>3. CASE Loses(r, k.column, gone)
      <4>1. PICK j \in Followed[r.table] :
                   j.column = k.column /\ j.onDelete = "set null" /\ r.refs[k.column] \in gone
        BY <3>3 DEF Loses
      <4>2. j.nullable
        BY <4>1, <1>1, <2>1 DEF Refused
      <4>3. KeyOK(r.table, j)
        BY <2>3, FollowedOK
      <4>4. k.nullable
        BY <3>2, <4>1, <4>2, <4>3 DEF KeyOK, Clears
      <4>5. s.refs[k.column] = Null
        BY <2>2, <3>1, <3>3
      <4> QED
        BY <4>4, <4>5 DEF Holds
    <3>4. CASE ~Loses(r, k.column, gone)
      <4>1. s.refs[k.column] = r.refs[k.column]
        BY <2>2, <3>1, <3>4
      <4>2. r.refs[k.column] \notin gone
        <5> SUFFICES ASSUME r.refs[k.column] \in gone PROVE FALSE
          OBVIOUS
        <5>1. k.onDelete \in {"cascade", "no action", "restrict"}
          BY <3>2, <3>4 DEF KeyOK, Clears, Loses
        <5>2. k.onDelete # "cascade"
          BY <1>3, <2>1 DEF Refers, Grown
        <5>3. k.onDelete # "no action" /\ k.onDelete # "restrict"
          BY <1>1, <2>1 DEF Refused, Refers
        <5> QED
          BY <5>1, <5>2, <5>3
      <4>3. \/ r.refs[k.column] = Null /\ k.nullable
            \/ r.refs[k.column] \in Present' /\ r.refs[k.column][1] = k.to
        BY <3>2, <4>2, <1>5 DEF Holds
      <4> QED
        BY <4>1, <4>3 DEF Holds
    <3> QED
      BY <3>3, <3>4
  <2> QED
    BY <2>2, <2>3, <2>4
<1> HIDE DEF gone, stay, g
<1> QED
  BY <1>4, <1>6 DEF RowsInv, RowsTypeOK, Shaped

LEMMA InsertionKeepsRows ==
    ASSUME RowsInv, NEW t \in Stored, NEW i \in RowIds, Insert(t, i)
    PROVE  RowsInv'
<1>1. PICK refs \in [{k.column : k \in Followed[t]} -> Present \cup {Null}] :
          /\ \A k \in Followed[t] : Holds(refs, k)
          /\ rows' = rows \cup {[table |-> t, id |-> i, refs |-> refs]}
  BY DEF Insert
<1> DEFINE new == [table |-> t, id |-> i, refs |-> refs]
<1>2. IsFiniteSet(rows') /\ Cardinality(rows') <= MaxRows
  <2>1. Cardinality(rows) < MaxRows /\ IsFiniteSet(rows) /\ Cardinality(rows) \in Nat
    BY FS_CardinalityType DEF Insert, RowsInv
  <2> HIDE DEF new
  <2>2. /\ IsFiniteSet(rows \cup {new})
        /\ Cardinality(rows \cup {new}) = IF new \in rows THEN Cardinality(rows)
                                            ELSE Cardinality(rows) + 1
    BY <2>1, FS_AddElement
  <2>3. rows' = rows \cup {new}
    BY <1>1 DEF new
  <2> QED
    BY <2>1, <2>2, <2>3, DeletionsAssumption
<1>3. Present \subseteq Present'
  BY <1>1 DEF Present
<1>4. \A refs1, k : Holds(refs1, k) => Holds(refs1, k)'
  BY <1>3 DEF Holds
<1>5. Shaped(new) /\ new.table \in Stored /\ new.id \in RowIds
      /\ \A k \in Followed[new.table] : Holds(new.refs, k)'
  BY <1>1, <1>4 DEF Shaped
<1>6. \A r \in rows' : /\ Shaped(r) /\ r.table \in Stored /\ r.id \in RowIds
                       /\ \A k \in Followed[r.table] : Holds(r.refs, k)'
  <2> TAKE r \in rows'
  <2>1. CASE r \in rows
    <3>1. /\ Shaped(r) /\ r.table \in Stored /\ r.id \in RowIds
          /\ \A k \in Followed[r.table] : Holds(r.refs, k)
      BY <2>1 DEF RowsInv, RowsTypeOK
    <3> QED
      BY <3>1, <1>4
  <2> QED
    BY <1>1, <1>5, <2>1
<1> QED
  BY <1>2, <1>6 DEF RowsInv, RowsTypeOK, Shaped

LEMMA RowsInvInit == DeletionsInit => RowsInv
BY FS_EmptySet, DeletionsAssumption DEF DeletionsInit, RowsInv, RowsTypeOK

LEMMA RowsInvStep == RowsInv /\ [DeletionsNext]_rows => RowsInv'
<1> SUFFICES ASSUME RowsInv, [DeletionsNext]_rows PROVE RowsInv'
  OBVIOUS
<1>1. CASE UNCHANGED rows
  BY <1>1 DEF RowsInv, RowsTypeOK, Holds, Present, Shaped
<1>2. CASE \E i \in RowIds, t \in Stored : Insert(t, i)
  BY <1>2, InsertionKeepsRows
<1>3. CASE \E x : RemoveRow(x)
  BY <1>3, RemovalKeepsRows
<1> QED
  BY <1>1, <1>2, <1>3 DEF DeletionsNext, DeleteUser, DeleteWorkflow, DeleteRuleRow,
     DeleteCustomer, DeleteCampaign, DeleteNotification

LEMMA RecordsAreNotOwn == Records \cap UsersOwn = {}
BY DEF Records, UsersOwn

LEMMA RecordsStay ==
    ASSUME RowsInv, NEW i, DeleteUser(i)
    PROVE  \A r \in rows : r.table \in Records => RowOf(r) \in Present'
<1> DEFINE x == Row("users", i)
<1> SUFFICES ASSUME NEW r \in rows, r.table \in Records PROVE RowOf(r) \in Present'
  OBVIOUS
<1>1. RemoveRow(x) /\ x[1] = "users"
  BY DEF DeleteUser, Row
<1>2. RowOf(r)[1] \notin UsersOwn
  BY NullIsNoRow, RecordsAreNotOwn
<1>3. OwnOf(x, Goes(x))
  BY <1>1, OnlyOwnGoes
<1>4. RowOf(r) \notin Goes(x)
  BY <1>2, <1>3 DEF OwnOf
<1>5. RowOf(r) \in Present
  BY DEF Present
<1> QED
  BY <1>1, <1>4, <1>5, OthersStay

(* Whatever tables, ids and rows there are, every foreign key finds its    *)
(* row or is null where it may be, after every insertion and after every   *)
(* deletion with all its waves of CASCADE and SET NULL                     *)
(* (create_schema.py's tables, the delete_* of the services).              *)
THEOREM KeysAlwaysFindTheirRows == DeletionsSpec => []RowsTypeOK
<1>1. DeletionsSpec => []RowsInv
  BY RowsInvInit, RowsInvStep, PTL DEF DeletionsSpec
<1>2. RowsInv => RowsTypeOK
  BY DEF RowsInv
<1> QED
  BY <1>1, <1>2, PTL

(* A user whom the database refuses to delete is the author of a rule      *)
(* (user_service.delete_user, AutomationRuleModel.created_by).             *)
THEOREM OnlyRulesEverHoldUsers == DeletionsSpec => []OnlyRulesHoldUsers
<1>1. DeletionsSpec => []RowsInv
  BY RowsInvInit, RowsInvStep, PTL DEF DeletionsSpec
<1> QED
  BY <1>1, RulesAlone, PTL

(* Deleting a user takes no record of the business with it, over the keys  *)
(* of all the models and any number of rows between the two.               *)
THEOREM UsersLeaveTheRecords == DeletionsSpec => UserDeletionKeepsRecords
<1>1. DeletionsSpec => []RowsInv
  BY RowsInvInit, RowsInvStep, PTL DEF DeletionsSpec
<1>2. RowsInv => [\A i \in RowIds : DeleteUser(i) =>
                    \A r \in rows : r.table \in Records => RowOf(r) \in Present']_rows
  BY RecordsStay
<1> QED
  BY <1>1, <1>2, PTL DEF UserDeletionKeepsRecords

-----------------------------------------------------------------------------
(* The repository of results.  What a branch says of a file is what the    *)
(* last patch that touches the file says.                                  *)
Touches(branch, f) == \E i \in DOMAIN branch : f \in DOMAIN branch[i]
LastTouch(branch, f, i) ==
    /\ i \in DOMAIN branch /\ f \in DOMAIN branch[i]
    /\ \A j \in DOMAIN branch : j > i => f \notin DOMAIN branch[j]

(* Patches give files of the results versions that have been written.      *)
Patch == UNION {[S -> 1 .. version] : S \in SUBSET Results}
Copy == [kind : {"absent", "plain", "clone"}, base : 0 .. Len(remote), mine : Seq(Patch),
         tree : [Results -> Markers .. version], stopped : BOOLEAN]

MemoryTyped ==
    /\ remote \in Seq(Patch)
    /\ copies \in [Hosts -> Copy]
    /\ backups \in [Hosts -> Copy]
    /\ syncs \in [Syncs -> {"off", "found", "backed up", "cloned", "inside", "committed"}]
    /\ version \in 0 .. MaxVersion

Live(c) == c.kind = "clone" /\ ~c.stopped

(* The commits of a clone do not take back what they are based on, the     *)
(* files of one that is not in a stopped rebase are not older than what is *)
(* checked out, and only the others have conflict markers.                 *)
CopySound(c) ==
    /\ c.kind = "absent" => c = NoCopy
    /\ \A f \in Results :
        /\ c.kind = "clone" => TreeOf(CheckedOut(c))[f] >= TreeOf(SubSeq(remote, 1, c.base))[f]
        /\ Live(c) => c.tree[f] >= TreeOf(CheckedOut(c))[f]
        /\ c.kind = "plain" => c.tree[f] # Markers
        /\ c.tree[f] = Markers => Touches(remote, f)

(* What the merge of a backup puts together.                               *)
MergeSound(c, b) ==
    \A f \in Results :
        /\ c.kind = "plain" /\ Live(b) /\ c.tree[f] # Unwritten =>
              c.tree[f] >= TreeOf(CheckedOut(b))[f]
        /\ Live(c) /\ b.tree[f] = Markers => c.tree[f] # Unwritten

MemorySound ==
    \A h \in Hosts : \A c, b :
        /\ copies[h] = c => CopySound(c)
        /\ backups[h] = b => CopySound(b)
        /\ copies[h] = c /\ backups[h] = b => MergeSound(c, b)

MemoryInv == MemoryTyped /\ MemorySound

-----------------------------------------------------------------------------
LEMMA LastTouchExists ==
    ASSUME NEW P, NEW s \in Seq(P), NEW f, Touches(s, f)
    PROVE  \E i : LastTouch(s, f, i)
<1> DEFINE T == {n \in 0 .. Len(s) : Len(s) - n \in DOMAIN s /\ f \in DOMAIN s[Len(s) - n]}
<1>1. DOMAIN s = 1 .. Len(s) /\ Len(s) \in Nat
  OBVIOUS
<1>2. PICK k \in DOMAIN s : f \in DOMAIN s[k]
  BY DEF Touches
<1>3. Len(s) - k \in 0 .. Len(s) /\ Len(s) - (Len(s) - k) = k
  BY <1>1
<1>4. Len(s) - k \in T
  BY <1>2, <1>3
<1>5. PICK m \in T : \A n \in T : m <= n
  <2> HIDE DEF T
  <2>1. T \subseteq Nat
    BY <1>1 DEF T
  <2> QED
    BY <2>1, <1>4, LeastNat
<1> DEFINE i == Len(s) - m
<1>6. i \in DOMAIN s /\ f \in DOMAIN s[i]
  OBVIOUS
<1>7. ASSUME NEW j \in DOMAIN s, j > i, f \in DOMAIN s[j] PROVE FALSE
  <2>1. Len(s) - j \in 0 .. Len(s) /\ Len(s) - (Len(s) - j) = j
    BY <1>1
  <2>2. Len(s) - j \in T
    BY <1>7, <2>1
  <2> QED
    BY <1>1, <1>5, <1>7, <2>2
<1> QED
  BY <1>6, <1>7 DEF LastTouch

LEMMA TreeAt ==
    ASSUME NEW P, NEW s \in Seq(P), NEW f \in Results, NEW i, LastTouch(s, f, i)
    PROVE  TreeOf(s)[f] = s[i][f]
<1> DEFINE touching == {j \in DOMAIN s : f \in DOMAIN s[j]}
<1>1. DOMAIN s = 1 .. Len(s) /\ Len(s) \in Nat
  OBVIOUS
<1>2. i \in touching /\ \A j \in touching : i >= j
  BY <1>1 DEF LastTouch
<1>3. Max(touching) \in touching /\ \A j \in touching : Max(touching) >= j
  BY <1>2 DEF Max
<1>4. touching \subseteq Nat
  BY <1>1
<1>5. Max(touching) = i
  <2> DEFINE m == Max(touching)
  <2>1. m \in Nat /\ i \in Nat /\ m >= i /\ i >= m
    BY <1>2, <1>3, <1>4
  <2> HIDE DEF m
  <2>2. m = i
    BY <2>1
  <2> QED
    BY <2>2 DEF m
<1> QED
  BY <1>2, <1>5 DEF TreeOf

LEMMA TreeUntouched ==
    ASSUME NEW s, NEW f \in Results, ~Touches(s, f)
    PROVE  TreeOf(s)[f] = Unwritten
BY DEF TreeOf, Touches

(* Of two pieces of a branch, the second prevails where it says anything.  *)
LEMMA TreeOfConcat ==
    ASSUME NEW P, NEW s \in Seq(P), NEW t \in Seq(P), NEW f \in Results
    PROVE  /\ Touches(s \o t, f) <=> Touches(s, f) \/ Touches(t, f)
           /\ TreeOf(s \o t)[f] = IF Touches(t, f) THEN TreeOf(t)[f] ELSE TreeOf(s)[f]
<1> DEFINE st == s \o t
<1>1. /\ st \in Seq(P) /\ Len(st) = Len(s) + Len(t)
      /\ Len(s) \in Nat /\ Len(t) \in Nat
      /\ DOMAIN st = 1 .. Len(s) + Len(t) /\ DOMAIN s = 1 .. Len(s) /\ DOMAIN t = 1 .. Len(t)
      /\ \A i \in 1 .. Len(s) : st[i] = s[i]
      /\ \A i \in Len(s) + 1 .. Len(s) + Len(t) : st[i] = t[i - Len(s)]
  BY ConcatProperties
<1> HIDE DEF st
<1>2. \A i \in DOMAIN t : i + Len(s) \in DOMAIN st /\ st[i + Len(s)] = t[i]
  <2> TAKE i \in DOMAIN t
  <2>1. i + Len(s) \in Len(s) + 1 .. Len(s) + Len(t) /\ (i + Len(s)) - Len(s) = i
    BY <1>1
  <2> QED
    BY <1>1, <2>1
<1>a. \A i \in DOMAIN s : i \in DOMAIN st /\ st[i] = s[i]
  BY <1>1
<1>b. \A j \in DOMAIN st :
          \/ j \in DOMAIN s
          \/ j - Len(s) \in DOMAIN t /\ st[j] = t[j - Len(s)] /\ j = (j - Len(s)) + Len(s)
  BY <1>1
<1>3. Touches(st, f) <=> Touches(s, f) \/ Touches(t, f)
  <2>1. Touches(s, f) => Touches(st, f)
    BY <1>a DEF Touches
  <2>2. Touches(t, f) => Touches(st, f)
    BY <1>2 DEF Touches
  <2>3. Touches(st, f) => Touches(s, f) \/ Touches(t, f)
    BY <1>a, <1>b DEF Touches
  <2> QED
    BY <2>1, <2>2, <2>3
<1>4. CASE Touches(t, f)
  <2>1. PICK i : LastTouch(t, f, i)
    BY <1>4, LastTouchExists
  <2>2. LastTouch(st, f, i + Len(s))
    <3>1. i \in DOMAIN t /\ f \in DOMAIN t[i]
      BY <2>1 DEF LastTouch
    <3>2. ASSUME NEW j \in DOMAIN st, j > i + Len(s) PROVE f \notin DOMAIN st[j]
      <4>1. j \notin DOMAIN s /\ j - Len(s) > i
        BY <3>1, <3>2, <1>1
      <4> QED
        BY <4>1, <1>b, <2>1 DEF LastTouch
    <3> QED
      BY <3>1, <3>2, <1>2 DEF LastTouch
  <2>3. TreeOf(st)[f] = st[i + Len(s)][f] /\ TreeOf(t)[f] = t[i][f]
    BY <2>1, <2>2, <1>1, TreeAt
  <2> QED
    BY <2>1, <2>3, <1>1, <1>2, <1>3, <1>4 DEF LastTouch, st
<1>5. CASE ~Touches(t, f) /\ Touches(s, f)
  <2>1. PICK i : LastTouch(s, f, i)
    BY <1>5, LastTouchExists
  <2>2. LastTouch(st, f, i)
    <3>1. ASSUME NEW j \in DOMAIN st, j > i PROVE f \notin DOMAIN st[j]
      BY <2>1, <3>1, <1>a, <1>b, <1>5 DEF LastTouch, Touches
    <3> QED
      BY <2>1, <3>1, <1>a DEF LastTouch
  <2>3. TreeOf(st)[f] = st[i][f] /\ TreeOf(s)[f] = s[i][f]
    BY <2>1, <2>2, <1>1, TreeAt
  <2> QED
    BY <2>1, <2>3, <1>1, <1>3, <1>5 DEF LastTouch, st
<1>6. CASE ~Touches(t, f) /\ ~Touches(s, f)
  BY <1>6, <1>3, TreeUntouched DEF st
<1> QED
  BY <1>4, <1>5, <1>6

LEMMA TreeRange ==
    ASSUME version \in Nat, NEW s \in Seq(Patch), NEW f \in Results
    PROVE  /\ TreeOf(s)[f] \in 0 .. version
           /\ Touches(s, f) <=> TreeOf(s)[f] # Unwritten
<1>1. CASE Touches(s, f)
  <2>1. PICK i : LastTouch(s, f, i)
    BY <1>1, LastTouchExists
  <2>2. s[i] \in Patch /\ f \in DOMAIN s[i]
    BY <2>1 DEF LastTouch
  <2>3. s[i][f] \in 1 .. version
    BY <2>2 DEF Patch
  <2> QED
    BY <1>1, <2>1, <2>3, TreeAt DEF Unwritten
<1>2. CASE ~Touches(s, f)
  BY <1>2, TreeUntouched DEF Unwritten
<1> QED
  BY <1>1, <1>2

-----------------------------------------------------------------------------
LEMMA MemoryBasics ==
    ASSUME MemoryTyped
    PROVE  /\ remote \in Seq(Patch) /\ Len(remote) \in Nat /\ DOMAIN remote = 1 .. Len(remote)
           /\ version \in Nat /\ MaxVersion \in Nat
<1>1. remote \in Seq(Patch) /\ version \in 0 .. MaxVersion
  BY DEF MemoryTyped
<1> QED
  BY <1>1, LenProperties, SharedMemoryAssumption

LEMMA CopyFields ==
    ASSUME NEW c \in Copy
    PROVE  /\ c.kind \in {"absent", "plain", "clone"} /\ c.base \in 0 .. Len(remote)
           /\ c.mine \in Seq(Patch) /\ c.tree \in [Results -> Markers .. version]
           /\ c.stopped \in BOOLEAN
BY DEF Copy

LEMMA NewCopies ==
    ASSUME MemoryTyped
    PROVE  /\ NoCopy \in Copy /\ NoCopy.kind = "absent" /\ NoCopy.tree = Empty
           /\ Plain(Empty) \in Copy /\ Plain(Empty).kind = "plain" /\ Plain(Empty).tree = Empty
           /\ Clone \in Copy /\ Clone.kind = "clone" /\ Clone.base = Len(remote)
           /\ Clone.mine = <<>> /\ Clone.tree = TreeOf(remote) /\ ~Clone.stopped
<1>1. remote \in Seq(Patch) /\ version \in Nat /\ Len(remote) \in Nat
  BY MemoryBasics
<1>2. Empty \in [Results -> Markers .. version]
  BY <1>1 DEF Empty, Unwritten, Markers
<1>3. /\ NoCopy \in Copy /\ NoCopy.kind = "absent" /\ NoCopy.tree = Empty /\ NoCopy.base = 0
      /\ NoCopy.mine = <<>> /\ ~NoCopy.stopped
  BY <1>1, <1>2, EmptySeq DEF NoCopy, Copy
<1>4. TreeOf(remote) \in [Results -> Markers .. version]
  <2> DEFINE R == TreeOf(remote)
  <2>1. R = [f \in Results |-> R[f]]
    BY DEF TreeOf
  <2>2. \A f \in Results : R[f] \in Markers .. version
    BY <1>1, TreeRange DEF Markers
  <2> HIDE DEF R
  <2>3. R \in [Results -> Markers .. version]
    BY <2>1, <2>2
  <2> QED
    BY <2>3 DEF R
<1>5. Plain(Empty) \in Copy /\ Plain(Empty).kind = "plain" /\ Plain(Empty).tree = Empty
  BY <1>2, <1>3 DEF Plain, Copy
<1>6. /\ Clone \in Copy /\ Clone.kind = "clone" /\ Clone.base = Len(remote)
      /\ Clone.mine = <<>> /\ Clone.tree = TreeOf(remote) /\ ~Clone.stopped
  <2> DEFINE R == TreeOf(remote)
             n == NoCopy
             l == Len(remote)
             c == [n EXCEPT !.kind = "clone", !.base = l, !.tree = R]
  <2>1. n \in Copy /\ R \in [Results -> Markers .. version] /\ l \in 0 .. Len(remote)
        /\ n.mine = <<>> /\ ~n.stopped
    BY <1>1, <1>3, <1>4
  <2>2. Clone = c
    BY DEF Clone
  <2> HIDE DEF R, n, l
  <2>3. c \in Copy
    BY <2>1 DEF Copy
  <2>4. c.kind = "clone" /\ c.base = l /\ c.mine = <<>> /\ c.tree = R /\ ~c.stopped
    BY <2>1 DEF Copy
  <2> QED
    BY <2>2, <2>3, <2>4 DEF R, l
<1> QED
  BY <1>3, <1>5, <1>6

LEMMA BaseAndRest ==
    ASSUME MemoryTyped, NEW c \in Copy
    PROVE  LET base == SubSeq(remote, 1, c.base)
               rest == SubSeq(remote, c.base + 1, Len(remote))
           IN  /\ base \in Seq(Patch) /\ rest \in Seq(Patch) /\ CheckedOut(c) \in Seq(Patch)
               /\ remote = base \o rest
               /\ \A f : Touches(rest, f) <=> f \in Upstream(c)
<1> DEFINE base == SubSeq(remote, 1, c.base)
           rest == SubSeq(remote, c.base + 1, Len(remote))
<1>1. /\ remote \in Seq(Patch) /\ Len(remote) \in Nat /\ DOMAIN remote = 1 .. Len(remote)
      /\ c.base \in 0 .. Len(remote) /\ c.mine \in Seq(Patch)
  BY MemoryBasics, CopyFields
<1>2. base \in Seq(Patch) /\ Len(base) = c.base /\ \A i \in 1 .. c.base : base[i] = remote[i]
  BY <1>1, SubSeqProperties
<1>3. /\ rest \in Seq(Patch) /\ Len(rest) = Len(remote) - c.base
      /\ \A i \in 1 .. Len(remote) - c.base : rest[i] = remote[c.base + i]
  <2>1. \A i \in c.base + 1 .. Len(remote) : remote[i] \in Patch
    BY <1>1
  <2>2. /\ rest \in Seq(Patch)
        /\ Len(rest) = IF c.base + 1 <= Len(remote) THEN Len(remote) - (c.base + 1) + 1 ELSE 0
        /\ \A i \in 1 .. Len(remote) - (c.base + 1) + 1 : rest[i] = remote[c.base + 1 + i - 1]
    BY <1>1, <2>1, SubSeqProperties, SMTT(40)
  <2>3. \A i \in 1 .. Len(remote) - c.base : c.base + 1 + i - 1 = c.base + i
    BY <1>1
  <2> HIDE DEF rest
  <2>4. Len(remote) - (c.base + 1) + 1 = Len(remote) - c.base
    BY <1>1
  <2> QED
    BY <1>1, <2>2, <2>3, <2>4, SMTT(40)
<1>5. remote = base \o rest
  <2>1. /\ 1 \in 1 .. Len(remote) + 1 /\ c.base \in 1 - 1 .. Len(remote)
        /\ Len(remote) \in c.base .. Len(remote)
    BY <1>1
  <2>2. base \o rest = SubSeq(remote, 1, Len(remote))
    BY <1>1, <2>1, ConcatAdjacentSubSeq
  <2> QED
    BY <1>1, <2>2, SubSeqFull
<1> HIDE DEF base, rest
<1>6. CheckedOut(c) \in Seq(Patch)
  BY <1>1, <1>2, ConcatProperties DEF CheckedOut, base
<1>7. ASSUME NEW f PROVE Touches(rest, f) <=> f \in Upstream(c)
  <2>1. DOMAIN rest = 1 .. Len(remote) - c.base
    BY <1>3, <1>1
  <2>2. Touches(rest, f) => f \in Upstream(c)
    <3> SUFFICES ASSUME NEW i \in DOMAIN rest, f \in DOMAIN rest[i] PROVE f \in Upstream(c)
      BY DEF Touches
    <3>1. c.base + i \in c.base + 1 .. Len(remote) /\ rest[i] = remote[c.base + i]
      BY <2>1, <1>1, <1>3
    <3> QED
      BY <3>1 DEF Upstream
  <2>3. f \in Upstream(c) => Touches(rest, f)
    <3> SUFFICES ASSUME NEW i \in c.base + 1 .. Len(remote), f \in DOMAIN remote[i]
                 PROVE  Touches(rest, f)
      BY DEF Upstream
    <3>1. i - c.base \in DOMAIN rest /\ c.base + (i - c.base) = i
      BY <2>1, <1>1
    <3>2. rest[i - c.base] = remote[i]
      BY <3>1, <2>1, <1>3
    <3> QED
      BY <3>1, <3>2 DEF Touches
  <2> QED
    BY <2>2, <2>3
<1> QED
  BY <1>2, <1>3, <1>5, <1>6, <1>7 DEF base, rest

(* What the others have not touched is as it was at the base of a clone,   *)
(* and what a clone has checked out is its base with its commits on top.   *)
LEMMA Upstreams ==
    ASSUME MemoryTyped, NEW c \in Copy, NEW f \in Results
    PROVE  /\ f \in Upstream(c) => Touches(remote, f)
           /\ f \notin Upstream(c) =>
                 /\ TreeOf(remote)[f] = TreeOf(SubSeq(remote, 1, c.base))[f]
                 /\ Touches(remote, f) <=> Touches(SubSeq(remote, 1, c.base), f)
           /\ Touches(CheckedOut(c), f) <=>
                 Touches(SubSeq(remote, 1, c.base), f) \/ Touches(c.mine, f)
           /\ TreeOf(CheckedOut(c))[f] = IF Touches(c.mine, f) THEN TreeOf(c.mine)[f]
                                         ELSE TreeOf(SubSeq(remote, 1, c.base))[f]
<1> DEFINE base == SubSeq(remote, 1, c.base)
           rest == SubSeq(remote, c.base + 1, Len(remote))
<1>1. /\ base \in Seq(Patch) /\ rest \in Seq(Patch) /\ remote = base \o rest
      /\ Touches(rest, f) <=> f \in Upstream(c)
  BY BaseAndRest
<1>2. c.mine \in Seq(Patch)
  BY CopyFields
<1>3. /\ Touches(CheckedOut(c), f) <=> Touches(base, f) \/ Touches(c.mine, f)
      /\ TreeOf(CheckedOut(c))[f] = IF Touches(c.mine, f) THEN TreeOf(c.mine)[f]
                                    ELSE TreeOf(base)[f]
  <2> HIDE DEF base, rest
  <2>1. CheckedOut(c) = base \o c.mine
    BY DEF CheckedOut, base
  <2> QED
    BY <1>1, <1>2, <2>1, TreeOfConcat
<1> HIDE DEF base, rest
<1>4. /\ Touches(remote, f) <=> Touches(base, f) \/ Touches(rest, f)
      /\ TreeOf(remote)[f] = IF Touches(rest, f) THEN TreeOf(rest)[f] ELSE TreeOf(base)[f]
  BY <1>1, TreeOfConcat
<1> QED
  BY <1>1, <1>3, <1>4 DEF base

LEMMA CloneIsSound ==
    ASSUME MemoryTyped, NEW b, CopySound(b)
    PROVE  Clone \in Copy /\ CopySound(Clone) /\ MergeSound(Clone, b)
<1>1. remote \in Seq(Patch) /\ version \in Nat /\ Len(remote) \in Nat
  BY MemoryBasics
<1>2. \A f \in Results : /\ TreeOf(remote)[f] \in 0 .. version
                         /\ Touches(remote, f) <=> TreeOf(remote)[f] # Unwritten
  BY <1>1, TreeRange
<1>4. /\ Clone \in Copy /\ Clone.kind = "clone" /\ Clone.base = Len(remote)
      /\ Clone.mine = <<>> /\ Clone.tree = TreeOf(remote) /\ ~Clone.stopped
  BY NewCopies
<1>6. SubSeq(remote, 1, Len(remote)) = remote /\ CheckedOut(Clone) = remote
  BY <1>1, <1>4, SubSeqFull, ConcatEmptySeq DEF CheckedOut
<1>7. CopySound(Clone)
  <2>1. \A f \in Results : /\ TreeOf(CheckedOut(Clone))[f] = TreeOf(remote)[f]
                           /\ Clone.tree[f] = TreeOf(remote)[f]
                           /\ TreeOf(SubSeq(remote, 1, Clone.base))[f] = TreeOf(remote)[f]
    BY <1>4, <1>6
  <2> QED
    BY <2>1, <1>1, <1>2, <1>4 DEF CopySound, Markers
<1>8. MergeSound(Clone, b)
  BY <1>1, <1>2, <1>4 DEF CopySound, MergeSound, Live, Markers
<1> QED
  BY <1>4, <1>7, <1>8

LEMMA EmptyIsSound ==
    ASSUME MemoryTyped, NEW b
    PROVE  /\ NoCopy \in Copy /\ CopySound(NoCopy) /\ MergeSound(NoCopy, b)
           /\ Plain(Empty) \in Copy /\ CopySound(Plain(Empty)) /\ MergeSound(Plain(Empty), b)
<1>1. version \in Nat /\ Len(remote) \in Nat
  BY MemoryBasics
<1>2. \A f \in Results : Empty[f] = Unwritten
  BY DEF Empty
<1>3. /\ NoCopy \in Copy /\ NoCopy.kind = "absent" /\ NoCopy.tree = Empty
      /\ Plain(Empty) \in Copy /\ Plain(Empty).kind = "plain" /\ Plain(Empty).tree = Empty
  BY NewCopies
<1> QED
  BY <1>2, <1>3 DEF CopySound, MergeSound, Live, Unwritten, Markers

LEMMA PullIsSound ==
    ASSUME MemoryTyped, NEW c \in Copy, NEW b, CopySound(c), MergeSound(c, b),
           c.kind = "clone", ~PullRefused(c)
    PROVE  Rebased(c) \in Copy /\ CopySound(Rebased(c)) /\ MergeSound(Rebased(c), b)
<1> DEFINE replayed == IF Conflicts(c) = {} THEN c.mine ELSE SubSeq(c.mine, 1, Min(Conflicts(c)))
           onto == TreeOf(remote \o replayed)
           disputed == IF Conflicts(c) = {} THEN {} ELSE DOMAIN Last(replayed) \cap Upstream(c)
           tree == [f \in Results |->
                       IF f \in disputed THEN Markers
                       ELSE IF f \in Changed(c) THEN c.tree[f]
                       ELSE onto[f]]
           kept == [c EXCEPT !.base = Len(remote), !.tree = tree]
           halted == [c EXCEPT !.stopped = TRUE, !.tree = tree]
<1>1. /\ remote \in Seq(Patch) /\ version \in Nat /\ Len(remote) \in Nat
      /\ c.mine \in Seq(Patch) /\ Len(c.mine) \in Nat /\ DOMAIN c.mine = 1 .. Len(c.mine)
      /\ c.tree \in [Results -> Markers .. version]
  BY MemoryBasics, CopyFields, LenProperties
<1>2. /\ ~c.stopped /\ Live(c)
      /\ \A f \in Changed(c) : TreeOf(CheckedOut(c))[f] = Unwritten /\ f \notin Upstream(c)
  BY DEF PullRefused, Live
<1>3. replayed \in Seq(Patch)
  <2>1. CASE Conflicts(c) = {}
    BY <2>1, <1>1
  <2>2. CASE Conflicts(c) # {}
    <3> DEFINE m == Min(Conflicts(c))
    <3>1. Conflicts(c) \subseteq 1 .. Len(c.mine)
      BY <1>1 DEF Conflicts
    <3>2. PICK k \in Conflicts(c) : \A j \in Conflicts(c) : k <= j
      BY <2>2, <3>1, <1>1, LeastNat
    <3>3. m \in Conflicts(c)
      BY <3>2 DEF Min
    <3> HIDE DEF m
    <3>4. m \in 1 .. Len(c.mine) /\ \A i \in 1 .. m : c.mine[i] \in Patch
      BY <3>1, <3>3, <1>1
    <3>5. SubSeq(c.mine, 1, m) \in Seq(Patch)
      BY <3>4, SubSeqProperties
    <3> QED
      BY <3>5, <2>2 DEF m
  <2> QED
    BY <2>1, <2>2
<1>4. \A f \in Results : /\ onto[f] = IF Touches(replayed, f) THEN TreeOf(replayed)[f] ELSE TreeOf(remote)[f]
                         /\ onto[f] \in 0 .. version
                         /\ TreeOf(replayed)[f] \in 0 .. version
  <2>1. remote \o replayed \in Seq(Patch)
    BY <1>1, <1>3, ConcatProperties
  <2> HIDE DEF replayed
  <2> QED
    BY <1>1, <1>3, <2>1, TreeOfConcat, TreeRange
<1>5. Rebased(c) = IF Conflicts(c) = {} THEN kept ELSE halted
  BY DEF Rebased
<1>6. disputed \subseteq Upstream(c)
  OBVIOUS
<1>7. \A f \in Results : tree[f] = IF f \in disputed THEN Markers
                                   ELSE IF f \in Changed(c) THEN c.tree[f] ELSE onto[f]
  OBVIOUS
<1>8. tree \in [Results -> Markers .. version]
  <2>1. \A f \in Results : tree[f] \in Markers .. version
    <3> HIDE DEF onto, disputed, tree
    <3> QED
      BY <1>1, <1>4, <1>7 DEF Markers
  <2>2. tree = [f \in Results |-> tree[f]]
    OBVIOUS
  <2> HIDE DEF tree
  <2> QED
    BY <2>1, <2>2
<1>9. \A f \in Results : tree[f] = Markers => Touches(remote, f)
  <2> HIDE DEF onto, disputed, tree
  <2> QED
    BY <1>4, <1>6, <1>7, Upstreams DEF CopySound, Markers
<1>10. CASE Conflicts(c) = {}
  <2>1. replayed = c.mine /\ disputed = {} /\ Rebased(c) = kept
    BY <1>10, <1>5
  <2>2. \A f \in Results : Touches(c.mine, f) => f \notin Upstream(c)
    BY <1>10 DEF Conflicts, Touches
  <2> DEFINE n == Len(remote)
  <2>3. /\ kept \in Copy /\ kept.kind = "clone" /\ kept.base = n /\ kept.mine = c.mine
        /\ kept.tree = tree /\ ~kept.stopped
    <3>1. n \in 0 .. Len(remote) /\ kept = [c EXCEPT !.base = n, !.tree = tree]
      BY <1>1
    <3> HIDE DEF tree, n, kept
    <3>2. kept \in Copy
      BY <3>1, <1>8 DEF Copy
    <3>3. /\ kept.kind = c.kind /\ kept.base = n /\ kept.mine = c.mine
          /\ kept.tree = tree /\ kept.stopped = c.stopped
      BY <3>1 DEF Copy
    <3> QED
      BY <3>2, <3>3, <1>2
  <2> HIDE DEF kept, tree
  <2>4. CheckedOut(kept) = remote \o replayed /\ SubSeq(remote, 1, kept.base) = remote
    BY <1>1, <2>1, <2>3, SubSeqFull DEF CheckedOut
  <2>5. \A f \in Results : TreeOf(CheckedOut(kept))[f] = onto[f]
    BY <2>4
  <2> HIDE DEF replayed, onto, disputed
  <2>6. ASSUME NEW f \in Results
        PROVE  /\ onto[f] >= TreeOf(remote)[f]
               /\ tree[f] >= onto[f]
               /\ b.tree[f] = Markers => tree[f] # Unwritten
    <3> DEFINE base == SubSeq(remote, 1, c.base)
               now == TreeOf(CheckedOut(c))[f]
    <3>1. /\ now >= TreeOf(base)[f] /\ c.tree[f] >= now
          /\ b.tree[f] = Markers => c.tree[f] # Unwritten
      BY <1>2 DEF CopySound, MergeSound
    <3>2. /\ f \notin Upstream(c) => TreeOf(remote)[f] = TreeOf(base)[f]
          /\ f \notin Upstream(c) => (Touches(remote, f) <=> Touches(base, f))
          /\ f \in Upstream(c) => Touches(remote, f)
          /\ now = IF Touches(c.mine, f) THEN TreeOf(c.mine)[f] ELSE TreeOf(base)[f]
      BY Upstreams
    <3>3. /\ now \in 0 .. version /\ TreeOf(base)[f] \in 0 .. version
          /\ TreeOf(remote)[f] \in 0 .. version
          /\ Touches(remote, f) <=> TreeOf(remote)[f] # Unwritten
      <4>1. base \in Seq(Patch) /\ CheckedOut(c) \in Seq(Patch)
        BY BaseAndRest
      <4> QED
        BY <4>1, <1>1, TreeRange
    <3>4. onto[f] = IF Touches(c.mine, f) THEN TreeOf(c.mine)[f] ELSE TreeOf(remote)[f]
      BY <1>4, <2>1
    <3>5. /\ f \in Changed(c) => tree[f] = c.tree[f]
          /\ f \notin Changed(c) => tree[f] = onto[f]
      BY <1>7, <2>1
    <3>6. f \notin Changed(c) => c.tree[f] = now
      BY DEF Changed
    <3>7. f \in Changed(c) => now = Unwritten /\ f \notin Upstream(c)
      BY <1>2
    <3> HIDE DEF base, now
    <3>8. onto[f] \in 0 .. version /\ c.tree[f] \in Int
      BY <1>1, <1>4 DEF Markers
    <3>9. onto[f] >= TreeOf(remote)[f]
      BY <3>1, <3>2, <3>3, <3>4, <2>2
    <3>10. CASE f \in Changed(c)
      <4>1. onto[f] = now
        BY <3>10, <3>7, <3>2, <3>4
      <4> QED
        BY <3>10, <4>1, <3>1, <3>5, <3>9
    <3>11. CASE f \notin Changed(c)
      <4>1. tree[f] = onto[f] /\ c.tree[f] = now
        BY <3>11, <3>5, <3>6
      <4>2. now # Unwritten => onto[f] # Unwritten
        BY <3>2, <3>3, <3>4, <2>2, <3>1, <3>9, <3>8 DEF Unwritten
      <4> QED
        BY <4>1, <4>2, <3>1, <3>8, <3>9
    <3> QED
      BY <3>10, <3>11, <3>9
  <2>7. CopySound(kept)
    BY <2>3, <2>4, <2>5, <2>6, <1>9 DEF CopySound
  <2>8. MergeSound(kept, b)
    BY <2>3, <2>6 DEF MergeSound
  <2> QED
    BY <2>1, <2>3, <2>7, <2>8
<1>11. CASE Conflicts(c) # {}
  <2>1. Rebased(c) = halted
    BY <1>11, <1>5
  <2>2. /\ halted \in Copy /\ halted.kind = "clone" /\ halted.base = c.base /\ halted.mine = c.mine
        /\ halted.tree = tree /\ halted.stopped
    <3> HIDE DEF tree
    <3>2. halted \in Copy
      BY <1>8 DEF Copy
    <3>3. /\ halted.kind = c.kind /\ halted.base = c.base /\ halted.mine = c.mine
          /\ halted.tree = tree /\ halted.stopped
      BY DEF Copy
    <3> QED
      BY <3>2, <3>3
  <2> HIDE DEF halted, tree
  <2>3. CheckedOut(halted) = CheckedOut(c)
    BY <2>2 DEF CheckedOut
  <2>4. CopySound(halted)
    BY <2>2, <2>3, <1>9 DEF CopySound, Live
  <2>5. MergeSound(halted, b)
    BY <2>2 DEF MergeSound, Live
  <2> QED
    BY <2>1, <2>2, <2>4, <2>5
<1> QED
  BY <1>10, <1>11

Written(w, c, f) == w = [c EXCEPT !.tree = [c.tree EXCEPT ![f] = version + 1]]

LEMMA WriteIsSound ==
    ASSUME MemoryTyped, NEW c \in Copy, NEW b \in Copy, CopySound(c), CopySound(b), MergeSound(c, b),
           c.kind # "absent", NEW f \in Results, NEW w,
           Written(w, c, f)
    PROVE  /\ w.kind = c.kind /\ w.base = c.base /\ w.mine = c.mine /\ w.stopped = c.stopped
           /\ w.tree \in [Results -> Markers .. version + 1]
           /\ w = [kind |-> w.kind, base |-> w.base, mine |-> w.mine, tree |-> w.tree,
                   stopped |-> w.stopped]
           /\ CopySound(w) /\ MergeSound(w, b)
<1>1. version \in Nat /\ c.tree \in [Results -> Markers .. version]
  BY MemoryBasics, CopyFields
<1> DEFINE tree == [c.tree EXCEPT ![f] = version + 1]
<1>2. /\ tree \in [Results -> Markers .. version + 1]
      /\ \A g \in Results : tree[g] = IF g = f THEN version + 1 ELSE c.tree[g]
  BY <1>1 DEF Markers
<1> HIDE DEF tree
<1>3. /\ w.kind = c.kind /\ w.base = c.base /\ w.mine = c.mine /\ w.stopped = c.stopped
      /\ w.tree = tree
  BY DEF Copy, Written, tree
<1>4. w = [kind |-> w.kind, base |-> w.base, mine |-> w.mine, tree |-> w.tree, stopped |-> w.stopped]
  <2>1. w = [c EXCEPT !.tree = tree]
    BY DEF Written, tree
  <2>2. w \in [kind : {"absent", "plain", "clone"}, base : 0 .. Len(remote), mine : Seq(Patch),
               tree : {tree}, stopped : BOOLEAN]
    BY <2>1 DEF Copy
  <2> QED
    BY <2>2
<1>5. CheckedOut(w) = CheckedOut(c)
  BY <1>3 DEF CheckedOut
<1>6. \A g \in Results : /\ TreeOf(CheckedOut(c))[g] \in 0 .. version
                         /\ TreeOf(CheckedOut(b))[g] \in 0 .. version
  BY <1>1, BaseAndRest, TreeRange
<1>7. CopySound(w)
  BY <1>1, <1>2, <1>3, <1>5, <1>6 DEF CopySound, Live, Markers
<1>8. MergeSound(w, b)
  BY <1>1, <1>2, <1>3, <1>6 DEF MergeSound, Live, Unwritten
<1> QED
  BY <1>2, <1>3, <1>4, <1>7, <1>8

LEMMA TreeOfAppend ==
    ASSUME NEW P, NEW s \in Seq(P), NEW m \in Seq(P), NEW p \in P, NEW f \in Results
    PROVE  TreeOf(s \o Append(m, p))[f] = IF f \in DOMAIN p THEN p[f] ELSE TreeOf(s \o m)[f]
<1> DEFINE one == <<p>>
           sm == s \o m
<1>1. one \in Seq(P) /\ DOMAIN one = {1} /\ one[1] = p /\ Append(m, p) = m \o one
  BY AppendIsConcat
<1>2. sm \in Seq(P)
  BY ConcatProperties
<1> HIDE DEF one
<1>3. s \o (m \o one) = sm \o one
  <2>1. one \in Seq(P)
    BY <1>1
  <2>2. s \o (m \o one) = (s \o m) \o one
    BY <2>1
  <2> QED
    BY <2>2
<1> HIDE DEF sm
<1>4. TreeOf(sm \o one)[f] = IF Touches(one, f) THEN TreeOf(one)[f] ELSE TreeOf(sm)[f]
  BY <1>1, <1>2, TreeOfConcat
<1>5. Touches(one, f) <=> f \in DOMAIN p
  BY <1>1 DEF Touches
<1>6. f \in DOMAIN p => LastTouch(one, f, 1)
  BY <1>1 DEF LastTouch
<1>7. f \in DOMAIN p => TreeOf(one)[f] = p[f]
  BY <1>1, <1>6, TreeAt
<1> QED
  BY <1>1, <1>3, <1>4, <1>5, <1>7 DEF sm

Committed(n, c) == n = [c EXCEPT !.mine = Append(@, [f \in Changed(c) |-> c.tree[f]])]

(* A commit checks out what the files say.                                 *)
LEMMA CommitIsSound ==
    ASSUME MemoryTyped, NEW c \in Copy, NEW b, CopySound(c), MergeSound(c, b), Live(c), NEW n,
           Committed(n, c)
    PROVE  n \in Copy /\ CopySound(n) /\ MergeSound(n, b)
<1> DEFINE patch == [f \in Changed(c) |-> c.tree[f]]
           base == SubSeq(remote, 1, c.base)
           mine == Append(c.mine, patch)
<1>1. /\ version \in Nat /\ c.tree \in [Results -> Markers .. version] /\ c.mine \in Seq(Patch)
      /\ base \in Seq(Patch) /\ CheckedOut(c) \in Seq(Patch)
  BY MemoryBasics, CopyFields, BaseAndRest
<1>2. \A f \in Results : /\ TreeOf(CheckedOut(c))[f] \in 0 .. version
                         /\ c.tree[f] >= TreeOf(CheckedOut(c))[f]
                         /\ TreeOf(CheckedOut(c))[f] >= TreeOf(base)[f]
                         /\ TreeOf(base)[f] \in 0 .. version
                         /\ c.tree[f] = Markers => Touches(remote, f)
  BY <1>1, TreeRange DEF CopySound, Live
<1>3. patch \in Patch
  <2>1. Changed(c) \in SUBSET Results /\ \A f \in Changed(c) : patch[f] \in 1 .. version
    BY <1>1, <1>2 DEF Changed, Markers
  <2>2. patch \in [Changed(c) -> 1 .. version]
    BY <2>1
  <2> QED
    BY <2>1, <2>2 DEF Patch
<1>4. DOMAIN patch = Changed(c) /\ \A f \in Changed(c) : patch[f] = c.tree[f]
  OBVIOUS
<1> HIDE DEF patch, base
<1>5. mine \in Seq(Patch)
  BY <1>1, <1>3, AppendProperties
<1> HIDE DEF mine
<1>6. /\ n \in Copy /\ n.kind = "clone" /\ n.base = c.base /\ n.mine = mine /\ n.tree = c.tree
      /\ ~n.stopped
  <2>1. n = [c EXCEPT !.mine = mine]
    BY DEF Committed, mine, patch
  <2>2. n \in Copy
    BY <2>1, <1>5 DEF Copy
  <2>3. /\ n.kind = c.kind /\ n.base = c.base /\ n.mine = mine /\ n.tree = c.tree
        /\ n.stopped = c.stopped
    BY <2>1 DEF Copy
  <2> QED
    BY <2>2, <2>3 DEF Live
<1>7. CheckedOut(n) = base \o Append(c.mine, patch) /\ CheckedOut(c) = base \o c.mine
  BY <1>6 DEF CheckedOut, base, mine
<1>8. ASSUME NEW f \in Results PROVE TreeOf(CheckedOut(n))[f] = c.tree[f]
  <2> DEFINE was == base \o c.mine
  <2>1. TreeOf(base \o Append(c.mine, patch))[f]
            = IF f \in DOMAIN patch THEN patch[f] ELSE TreeOf(was)[f]
    BY <1>1, <1>3, TreeOfAppend
  <2>2. f \notin Changed(c) => TreeOf(was)[f] = c.tree[f]
    BY <1>7 DEF Changed
  <2> QED
    BY <1>4, <1>7, <2>1, <2>2
<1>9. CopySound(n)
  <2>1. \A f \in Results : TreeOf(SubSeq(remote, 1, n.base))[f] = TreeOf(base)[f]
    BY <1>6 DEF base
  <2>4. ASSUME NEW f \in Results
        PROVE  /\ TreeOf(CheckedOut(n))[f] >= TreeOf(SubSeq(remote, 1, n.base))[f]
               /\ n.tree[f] >= TreeOf(CheckedOut(n))[f]
               /\ n.tree[f] = Markers => Touches(remote, f)
    <3> DEFINE now == c.tree[f]
               was == TreeOf(CheckedOut(c))[f]
               old == TreeOf(base)[f]
    <3>1. was \in 0 .. version /\ old \in 0 .. version /\ now >= was /\ was >= old
      BY <1>2
    <3>2. now \in Markers .. version /\ version \in Nat
      BY <1>1
    <3>3. n.tree[f] = now /\ TreeOf(CheckedOut(n))[f] = now
      BY <1>6, <1>8
    <3>4. now = Markers => Touches(remote, f)
      BY <1>2
    <3>5. TreeOf(SubSeq(remote, 1, n.base))[f] = old
      BY <2>1
    <3> HIDE DEF now, was, old
    <3> QED
      BY <3>1, <3>2, <3>3, <3>4, <3>5 DEF Markers
  <2> QED
    BY <1>6, <2>4 DEF CopySound
<1>10. MergeSound(n, b)
  BY <1>6 DEF MergeSound, Live
<1> QED
  BY <1>6, <1>9, <1>10

LEMMA MergeIsSound ==
    ASSUME MemoryTyped, NEW c \in Copy, NEW b \in Copy, CopySound(c), CopySound(b), MergeSound(c, b),
           b # NoCopy, NEW r,
           r = [(IF c.kind = "clone" THEN c ELSE b) EXCEPT !.tree = Merged(c.tree, b.tree)]
    PROVE  r \in Copy /\ CopySound(r) /\ MergeSound(r, NoCopy)
<1> DEFINE repository == IF c.kind = "clone" THEN c ELSE b
           tree == Merged(c.tree, b.tree)
<1>1. /\ version \in Nat /\ c.tree \in [Results -> Markers .. version]
      /\ b.tree \in [Results -> Markers .. version]
  BY MemoryBasics, CopyFields
<1>2. /\ tree \in [Results -> Markers .. version]
      /\ \A f \in Results : tree[f] = IF c.tree[f] = Unwritten THEN b.tree[f] ELSE c.tree[f]
  BY <1>1 DEF Merged
<1> HIDE DEF tree
<1>3. /\ r \in Copy /\ r.kind = repository.kind /\ r.base = repository.base
      /\ r.mine = repository.mine /\ r.tree = tree /\ r.stopped = repository.stopped
  <2>1. repository \in Copy /\ r = [repository EXCEPT !.tree = tree]
    BY DEF tree
  <2> HIDE DEF repository
  <2> QED
    BY <2>1, <1>2 DEF Copy
<1>4. CheckedOut(r) = CheckedOut(repository) /\ (Live(r) <=> Live(repository))
  BY <1>3 DEF CheckedOut, Live
<1>5. \A f \in Results : /\ TreeOf(CheckedOut(c))[f] \in 0 .. version
                         /\ TreeOf(CheckedOut(b))[f] \in 0 .. version
  BY <1>1, BaseAndRest, TreeRange
<1>6. b.kind # "absent"
  BY DEF CopySound
<1>7. NoCopy.kind = "absent" /\ \A f \in Results : NoCopy.tree[f] = Unwritten
  BY NewCopies DEF Empty
<1>8. MergeSound(r, NoCopy)
  BY <1>7 DEF MergeSound, Live, Unwritten, Markers
<1>9. CASE c.kind = "clone"
  <2>1. repository = c
    BY <1>9
  <2>2. \A f \in Results : c.tree[f] \in Int /\ b.tree[f] \in Markers .. version
    BY <1>1 DEF Markers
  <2> HIDE DEF repository
  <2>3. \A f \in Results : Live(r) => tree[f] >= TreeOf(CheckedOut(r))[f]
    BY <1>2, <1>4, <1>5, <2>1, <2>2 DEF CopySound, MergeSound, Unwritten, Markers
  <2>4. CopySound(r)
    BY <1>2, <1>3, <1>4, <1>9, <2>1, <2>3 DEF CopySound
  <2> QED
    BY <1>3, <1>8, <2>4
<1>10. CASE c.kind # "clone"
  <2>1. repository = b
    BY <1>10
  <2>2. c.kind \in {"absent", "plain"} /\ (c.kind = "absent" => c = NoCopy)
    BY <1>10, CopyFields DEF CopySound
  <2> HIDE DEF repository
  <2>3. \A f \in Results : /\ c.tree[f] # Markers
                           /\ c.kind = "absent" => c.tree[f] = Unwritten
    BY <2>2, <1>7 DEF CopySound, Markers, Unwritten
  <2>4. \A f \in Results : Live(r) => tree[f] >= TreeOf(CheckedOut(r))[f]
    BY <1>2, <1>4, <2>1, <2>2, <2>3 DEF CopySound, MergeSound
  <2>5. CopySound(r)
    BY <1>2, <1>3, <1>4, <1>6, <2>1, <2>3, <2>4 DEF CopySound
  <2> QED
    BY <1>3, <1>8, <2>5
<1> QED
  BY <1>9, <1>10

-----------------------------------------------------------------------------
(* The branch only gets longer and versions only more; what a copy has     *)
(* checked out stays what it is.                                           *)
LEMMA CopiesStayCopies ==
    ASSUME MemoryTyped, version' \in Nat, version <= version',
           Len(remote') \in Nat, Len(remote) <= Len(remote')
    PROVE  Patch \subseteq Patch' /\ Seq(Patch) \subseteq Seq(Patch') /\ Copy \subseteq Copy'
<1>1. version \in Nat /\ Len(remote) \in Nat
  BY MemoryBasics
<1>2. 1 .. version \subseteq 1 .. version' /\ Markers .. version \subseteq Markers .. version'
      /\ 0 .. Len(remote) \subseteq 0 .. Len(remote')
  BY <1>1 DEF Markers
<1>3. Patch \subseteq Patch'
  <2> SUFFICES ASSUME NEW S \in SUBSET Results, NEW p \in [S -> 1 .. version]
               PROVE  p \in [S -> 1 .. version']
    BY DEF Patch
  <2> QED
    BY <1>2
<1>4. Seq(Patch) \subseteq Seq(Patch')
  BY <1>3, SeqMonotonic
<1>5. [Results -> Markers .. version] \subseteq [Results -> Markers .. version']
  BY <1>2
<1>6. ASSUME NEW c \in Copy PROVE c \in Copy'
  <2>1. /\ c.base \in 0 .. Len(remote') /\ c.mine \in Seq(Patch')
        /\ c.tree \in [Results -> Markers .. version']
    BY <1>2, <1>4, <1>5, CopyFields
  <2> HIDE DEF Patch
  <2> QED
    BY <2>1 DEF Copy
<1> QED
  BY <1>3, <1>4, <1>6

LEMMA CheckedOutStays ==
    ASSUME MemoryTyped, NEW t \in Seq(Patch), remote' = remote \o t, NEW c \in Copy
    PROVE  /\ CheckedOut(c)' = CheckedOut(c)
           /\ SubSeq(remote, 1, c.base)' = SubSeq(remote, 1, c.base)
           /\ \A f \in Results : Touches(remote, f) => Touches(remote, f)'
<1>1. /\ remote \in Seq(Patch) /\ Len(remote) \in Nat /\ c.base \in 0 .. Len(remote)
  BY MemoryBasics, CopyFields
<1>2. /\ remote' \in Seq(Patch) /\ Len(remote') = Len(remote) + Len(t) /\ Len(t) \in Nat
      /\ \A i \in 1 .. Len(remote) : remote'[i] = remote[i]
  BY <1>1, ConcatProperties, LenProperties
<1> DEFINE a == SubSeq(remote, 1, c.base)
           b == SubSeq(remote', 1, c.base)
<1>3. a \in Seq(Patch) /\ Len(a) = c.base /\ \A i \in 1 .. c.base : a[i] = remote[i]
  <2>1. \A i \in 1 .. c.base : remote[i] \in Patch
    BY <1>1
  <2> QED
    BY <1>1, <2>1, SubSeqProperties
<1>4. b \in Seq(Patch) /\ Len(b) = c.base /\ \A i \in 1 .. c.base : b[i] = remote'[i]
  <2>1. \A i \in 1 .. c.base : remote'[i] \in Patch
    BY <1>1, <1>2
  <2> QED
    BY <1>1, <2>1, SubSeqProperties
<1>5. a = b
  <2>1. Len(a) = Len(b) /\ \A i \in 1 .. Len(a) : a[i] = b[i]
    <3> HIDE DEF a, b
    <3> QED
      BY <1>1, <1>2, <1>3, <1>4
  <2> HIDE DEF a, b
  <2> QED
    BY <1>3, <1>4, <2>1, SeqEqual
<1>6. \A f \in Results : Touches(remote', f) <=> Touches(remote, f) \/ Touches(t, f)
  BY <1>1, TreeOfConcat
<1> QED
  BY <1>5, <1>6 DEF CheckedOut

LEMMA SoundStays ==
    ASSUME MemoryTyped, NEW t \in Seq(Patch), remote' = remote \o t
    PROVE  /\ \A c \in Copy : CopySound(c) => CopySound(c)'
           /\ \A c, b : b \in Copy /\ MergeSound(c, b) => MergeSound(c, b)'
<1>1. ASSUME NEW c \in Copy, CopySound(c) PROVE CopySound(c)'
  BY <1>1, CheckedOutStays DEF CopySound
<1>2. ASSUME NEW c, NEW b \in Copy, MergeSound(c, b) PROVE MergeSound(c, b)'
  BY <1>2, CheckedOutStays DEF MergeSound
<1> QED
  BY <1>1, <1>2

LEMMA SameRemote ==
    ASSUME MemoryTyped, remote' = remote
    PROVE  <<>> \in Seq(Patch) /\ remote' = remote \o <<>>
<1>1. remote \in Seq(Patch)
  BY MemoryBasics
<1> QED
  BY <1>1, EmptySeq, ConcatEmptySeq

LEMMA SameBranch ==
    ASSUME remote' = remote
    PROVE  /\ \A c : CopySound(c)' <=> CopySound(c)
           /\ \A c, b : MergeSound(c, b)' <=> MergeSound(c, b)
BY DEF CopySound, MergeSound, CheckedOut

(* A step of a run changes what its host has, and nothing else's.          *)
LEMMA OneHostChanges ==
    ASSUME MemoryInv, NEW t \in Seq(Patch), remote' = remote \o t, NEW h \in Hosts, NEW c, NEW b,
           copies' = [copies EXCEPT ![h] = c], backups' = [backups EXCEPT ![h] = b],
           CopySound(c)', CopySound(b)', MergeSound(c, b)'
    PROVE  MemorySound'
<1>1. MemoryTyped /\ copies \in [Hosts -> Copy] /\ backups \in [Hosts -> Copy]
  BY DEF MemoryInv, MemoryTyped
<1> SUFFICES ASSUME NEW g \in Hosts, NEW d, NEW e
             PROVE  /\ copies'[g] = d => CopySound(d)'
                    /\ backups'[g] = e => CopySound(e)'
                    /\ copies'[g] = d /\ backups'[g] = e => MergeSound(d, e)'
  BY DEF MemorySound
<1>2. CASE g = h
  BY <1>1, <1>2
<1>3. CASE g # h
  <2>1. copies'[g] = copies[g] /\ backups'[g] = backups[g] /\ copies[g] \in Copy /\ backups[g] \in Copy
    BY <1>1, <1>3
  <2>2. /\ copies[g] = d => CopySound(d)
        /\ backups[g] = e => CopySound(e)
        /\ copies[g] = d /\ backups[g] = e => MergeSound(d, e)
    BY DEF MemoryInv, MemorySound
  <2> QED
    BY <1>1, <2>1, <2>2, SoundStays
<1> QED
  BY <1>2, <1>3

(* The same of the types, and of a step that leaves branch and versions.   *)
LEMMA HostChangesTyped ==
    ASSUME MemoryInv, UNCHANGED <<remote, version>>, NEW h \in Hosts, NEW c, NEW b,
           copies' = [copies EXCEPT ![h] = c], backups' = [backups EXCEPT ![h] = b],
           c \in Copy, b \in Copy, CopySound(c), CopySound(b), MergeSound(c, b),
           syncs' \in [Syncs -> {"off", "found", "backed up", "cloned", "inside", "committed"}]
    PROVE  MemoryInv'
<1>1. MemoryTyped
  BY DEF MemoryInv
<1>2. MemoryTyped'
  <2>1. Copy' = Copy /\ Patch' = Patch
    BY DEF Copy, Patch
  <2>2. copies' \in [Hosts -> Copy] /\ backups' \in [Hosts -> Copy]
    BY <1>1 DEF MemoryTyped
  <2> QED
    BY <1>1, <2>1, <2>2 DEF MemoryTyped
<1>3. CopySound(c)' /\ CopySound(b)' /\ MergeSound(c, b)'
  BY SameBranch
<1>4. <<>> \in Seq(Patch) /\ remote' = remote \o <<>>
  BY <1>1, SameRemote
<1>5. MemorySound'
  BY <1>3, <1>4, OneHostChanges
<1> QED
  BY <1>2, <1>5 DEF MemoryInv

LEMMA AtHost ==
    ASSUME MemoryInv, NEW p \in Syncs
    PROVE  LET h == HostOf[p] IN
           /\ h \in Hosts /\ copies[h] \in Copy /\ backups[h] \in Copy
           /\ CopySound(copies[h]) /\ CopySound(backups[h]) /\ MergeSound(copies[h], backups[h])
           /\ copies = [copies EXCEPT ![h] = copies[h]]
           /\ backups = [backups EXCEPT ![h] = backups[h]]
<1>1. HostOf[p] \in Hosts
  BY SharedMemoryAssumption
<1> QED
  BY <1>1 DEF MemoryInv, MemoryTyped, MemorySound

LEMMA SyncsTyped ==
    ASSUME MemoryTyped, NEW p \in Syncs,
           NEW at \in {"off", "found", "backed up", "cloned", "inside", "committed"},
           Proceed(p, at)
    PROVE  syncs' \in [Syncs -> {"off", "found", "backed up", "cloned", "inside", "committed"}]
BY DEF MemoryTyped, Proceed

LEMMA PullStep == ASSUME MemoryInv, NEW p \in Syncs, PullMemory(p) PROVE MemoryInv'
<1> DEFINE h == HostOf[p]
<1>1. /\ h \in Hosts /\ copies[h] \in Copy /\ backups[h] \in Copy /\ MemoryTyped
      /\ CopySound(copies[h]) /\ CopySound(backups[h]) /\ MergeSound(copies[h], backups[h])
      /\ copies = [copies EXCEPT ![h] = copies[h]] /\ backups = [backups EXCEPT ![h] = backups[h]]
  BY AtHost DEF MemoryInv
<1>2. /\ copies[h].kind = "clone" /\ UNCHANGED <<remote, backups, version>> /\ Proceed(p, "inside")
      /\ \/ ~PullRefused(copies[h]) /\ Becomes(h, Rebased(copies[h]))
         \/ UNCHANGED copies
  BY DEF PullMemory
<1>3. syncs' \in [Syncs -> {"off", "found", "backed up", "cloned", "inside", "committed"}]
  BY <1>1, <1>2, SyncsTyped
<1> HIDE DEF h
<1>4. CASE ~PullRefused(copies[h]) /\ Becomes(h, Rebased(copies[h]))
  <2>1. /\ Rebased(copies[h]) \in Copy /\ CopySound(Rebased(copies[h]))
        /\ MergeSound(Rebased(copies[h]), backups[h])
    BY <1>1, <1>2, <1>4, PullIsSound
  <2>2. copies' = [copies EXCEPT ![h] = Rebased(copies[h])]
        /\ backups' = [backups EXCEPT ![h] = backups[h]]
    BY <1>1, <1>2, <1>4 DEF Becomes
  <2> QED
    BY <1>1, <1>2, <1>3, <2>1, <2>2, HostChangesTyped
<1>5. CASE UNCHANGED copies
  BY <1>1, <1>2, <1>3, <1>5, HostChangesTyped
<1> QED
  BY <1>2, <1>4, <1>5

(* The steps that clone, make the directory, or find one.                  *)
LEMMA CloneSteps ==
    ASSUME MemoryInv, NEW p \in Syncs, CloneMemory(p) \/ FindPlain(p) \/ CloneBeside(p)
    PROVE  MemoryInv'
<1> DEFINE h == HostOf[p]
<1>1. /\ h \in Hosts /\ copies[h] \in Copy /\ backups[h] \in Copy /\ MemoryTyped
      /\ CopySound(copies[h]) /\ CopySound(backups[h]) /\ MergeSound(copies[h], backups[h])
      /\ copies = [copies EXCEPT ![h] = copies[h]] /\ backups = [backups EXCEPT ![h] = backups[h]]
  BY AtHost DEF MemoryInv
<1>2. /\ UNCHANGED <<remote, backups, version>>
      /\ Proceed(p, "inside") \/ Proceed(p, "found") \/ Proceed(p, "cloned")
      /\ Becomes(h, Clone) \/ Becomes(h, Plain(Empty)) \/ UNCHANGED copies
  BY DEF CloneMemory, FindPlain, CloneBeside
<1>3. syncs' \in [Syncs -> {"off", "found", "backed up", "cloned", "inside", "committed"}]
  BY <1>1, <1>2, SyncsTyped
<1>4. /\ Clone \in Copy /\ CopySound(Clone) /\ MergeSound(Clone, backups[h])
      /\ Plain(Empty) \in Copy /\ CopySound(Plain(Empty)) /\ MergeSound(Plain(Empty), backups[h])
  BY <1>1, CloneIsSound, EmptyIsSound
<1> HIDE DEF h
<1>5. PICK c : /\ copies' = [copies EXCEPT ![h] = c]
               /\ c \in Copy /\ CopySound(c) /\ MergeSound(c, backups[h])
  <2>1. CASE Becomes(h, Clone)
    BY <1>4, <2>1 DEF Becomes
  <2>2. CASE Becomes(h, Plain(Empty))
    BY <1>4, <2>2 DEF Becomes
  <2>3. CASE UNCHANGED copies
    BY <1>1, <2>3
  <2> QED
    BY <1>2, <2>1, <2>2, <2>3
<1> QED
  BY <1>1, <1>2, <1>3, <1>5, HostChangesTyped

LEMMA BackUpStep == ASSUME MemoryInv, NEW p \in Syncs, BackUpMemory(p) PROVE MemoryInv'
<1> DEFINE h == HostOf[p]
           c == copies[h]
<1>1. h \in Hosts /\ c \in Copy /\ MemoryTyped /\ CopySound(c)
  BY AtHost DEF MemoryInv
<1>2. /\ UNCHANGED <<remote, version>>
      /\ Proceed(p, "off") \/ Proceed(p, "backed up")
      /\ copies' = [copies EXCEPT ![h] = NoCopy] /\ backups' = [backups EXCEPT ![h] = c]
  BY DEF BackUpMemory, Becomes
<1>3. syncs' \in [Syncs -> {"off", "found", "backed up", "cloned", "inside", "committed"}]
  BY <1>1, <1>2, SyncsTyped
<1>4. NoCopy \in Copy /\ CopySound(NoCopy) /\ MergeSound(NoCopy, c)
  BY <1>1, EmptyIsSound
<1> HIDE DEF h, c
<1> QED
  BY <1>1, <1>2, <1>3, <1>4, HostChangesTyped

LEMMA MergeStep == ASSUME MemoryInv, NEW p \in Syncs, MergeBackup(p) PROVE MemoryInv'
<1> DEFINE h == HostOf[p]
           c == copies[h]
           b == backups[h]
           r == [(IF c.kind = "clone" THEN c ELSE b) EXCEPT !.tree = Merged(c.tree, b.tree)]
<1>1. /\ h \in Hosts /\ c \in Copy /\ b \in Copy /\ MemoryTyped
      /\ CopySound(c) /\ CopySound(b) /\ MergeSound(c, b)
      /\ copies = [copies EXCEPT ![h] = c]
  BY AtHost DEF MemoryInv
<1>2. /\ UNCHANGED <<remote, version>> /\ backups' = [backups EXCEPT ![h] = NoCopy]
      /\ \/ b = NoCopy /\ Proceed(p, "off") /\ UNCHANGED copies
         \/ b # NoCopy /\ Proceed(p, "inside") /\ copies' = [copies EXCEPT ![h] = r]
  BY DEF MergeBackup, Becomes
<1>3. syncs' \in [Syncs -> {"off", "found", "backed up", "cloned", "inside", "committed"}]
  BY <1>1, <1>2, SyncsTyped
<1>4. NoCopy \in Copy /\ CopySound(NoCopy)
  BY <1>1, EmptyIsSound
<1>5. CASE b = NoCopy /\ UNCHANGED copies
  <2>1. MergeSound(c, NoCopy) /\ copies' = [copies EXCEPT ![h] = c]
    BY <1>1, <1>5
  <2> HIDE DEF h, c, b, r
  <2> QED
    BY <1>1, <1>2, <1>3, <1>4, <2>1, HostChangesTyped
<1>6. CASE b # NoCopy /\ copies' = [copies EXCEPT ![h] = r]
  <2> HIDE DEF h, c, b
  <2>1. r \in Copy /\ CopySound(r) /\ MergeSound(r, NoCopy)
    BY <1>1, <1>6, MergeIsSound
  <2> HIDE DEF r
  <2> QED
    BY <1>1, <1>2, <1>3, <1>4, <1>6, <2>1, HostChangesTyped
<1> QED
  BY <1>2, <1>5, <1>6

LEMMA WriteStep ==
    ASSUME MemoryInv, NEW p \in Syncs, NEW f \in Results, WriteResult(p, f) PROVE MemoryInv'
<1> DEFINE h == HostOf[p]
<1>a. PICK c, b, w : /\ c = copies[h] /\ b = backups[h]
                     /\ w = [c EXCEPT !.tree = [c.tree EXCEPT ![f] = version + 1]]
  OBVIOUS
<1>1. /\ h \in Hosts /\ c \in Copy /\ b \in Copy /\ MemoryTyped
      /\ CopySound(c) /\ CopySound(b) /\ MergeSound(c, b)
      /\ backups = [backups EXCEPT ![h] = b] /\ copies \in [Hosts -> Copy] /\ backups \in [Hosts -> Copy]
  BY <1>a, AtHost DEF MemoryInv, MemoryTyped
<1>2. /\ c.kind # "absent" /\ version < MaxVersion /\ version' = version + 1
      /\ UNCHANGED <<remote, backups, syncs>>
      /\ copies' = [copies EXCEPT ![h] = w]
  BY <1>a DEF WriteResult
<1>3. /\ version \in Nat /\ MaxVersion \in Nat /\ Len(remote) \in Nat
  BY <1>1, MemoryBasics
<1>4. /\ w.kind = c.kind /\ w.base = c.base /\ w.mine = c.mine /\ w.stopped = c.stopped
      /\ w.tree \in [Results -> Markers .. version + 1]
      /\ w = [kind |-> w.kind, base |-> w.base, mine |-> w.mine, tree |-> w.tree,
              stopped |-> w.stopped]
      /\ CopySound(w) /\ MergeSound(w, b)
  <2>1. Written(w, c, f)
    BY <1>a DEF Written
  <2> QED
    BY <1>1, <1>2, <2>1, WriteIsSound
<1> HIDE DEF h
<1>5. Patch \subseteq Patch' /\ Seq(Patch) \subseteq Seq(Patch') /\ Copy \subseteq Copy'
  BY <1>1, <1>2, <1>3, CopiesStayCopies
<1>6. w \in Copy'
  <2>1. c.kind \in {"absent", "plain", "clone"} /\ c.base \in 0 .. Len(remote)
        /\ c.mine \in Seq(Patch) /\ c.stopped \in BOOLEAN
    BY <1>1, CopyFields
  <2>2. /\ w.base \in 0 .. Len(remote') /\ w.mine \in Seq(Patch') /\ w.tree \in [Results -> Markers .. version']
    BY <1>2, <1>4, <1>5, <2>1
  <2> QED
    BY <1>4, <2>1, <2>2 DEF Copy
<1>7. MemoryTyped'
  <2>1. copies' \in [Hosts -> Copy'] /\ backups' \in [Hosts -> Copy']
    BY <1>1, <1>2, <1>5, <1>6
  <2>2. remote' \in Seq(Patch') /\ version' \in 0 .. MaxVersion
    BY <1>2, <1>3, <1>5, <1>1, MemoryBasics
  <2> QED
    BY <1>1, <1>2, <2>1, <2>2 DEF MemoryTyped
<1>8. CopySound(w)' /\ CopySound(b)' /\ MergeSound(w, b)'
  BY <1>1, <1>2, <1>4, SameBranch
<1>9. <<>> \in Seq(Patch) /\ remote' = remote \o <<>>
  BY <1>1, <1>2, SameRemote
<1>10. MemorySound'
  BY <1>1, <1>2, <1>8, <1>9, OneHostChanges
<1> QED
  BY <1>7, <1>10 DEF MemoryInv

LEMMA CommitStep == ASSUME MemoryInv, NEW p \in Syncs, CommitResults(p) PROVE MemoryInv'
<1> DEFINE h == HostOf[p]
<1>a. PICK c, b, n : /\ c = copies[h] /\ b = backups[h]
                     /\ n = [c EXCEPT !.mine = Append(@, [f \in Changed(c) |-> c.tree[f]])]
  OBVIOUS
<1>1. /\ h \in Hosts /\ c \in Copy /\ b \in Copy /\ MemoryTyped
      /\ CopySound(c) /\ CopySound(b) /\ MergeSound(c, b)
      /\ copies = [copies EXCEPT ![h] = c] /\ backups = [backups EXCEPT ![h] = b]
  BY <1>a, AtHost DEF MemoryInv
<1>2. /\ c.kind = "clone" /\ UNCHANGED <<remote, backups, version>> /\ Proceed(p, "committed")
      /\ \/ ~c.stopped /\ copies' = [copies EXCEPT ![h] = n]
         \/ UNCHANGED copies
  BY <1>a DEF CommitResults, Becomes
<1>3. syncs' \in [Syncs -> {"off", "found", "backed up", "cloned", "inside", "committed"}]
  BY <1>1, <1>2, SyncsTyped
<1>4. Committed(n, c)
  BY <1>a DEF Committed
<1> HIDE DEF h
<1>5. CASE ~c.stopped /\ copies' = [copies EXCEPT ![h] = n]
  <2>1. Live(c)
    BY <1>2, <1>5 DEF Live
  <2>2. n \in Copy /\ CopySound(n) /\ MergeSound(n, b)
    BY <1>1, <1>4, <2>1, CommitIsSound
  <2> QED
    BY <1>1, <1>2, <1>3, <1>5, <2>2, HostChangesTyped
<1>6. CASE UNCHANGED copies
  BY <1>1, <1>2, <1>3, <1>6, HostChangesTyped
<1> QED
  BY <1>2, <1>5, <1>6

LEMMA IdleSteps ==
    ASSUME MemoryInv, NEW p \in Syncs, NothingToCommit(p) \/ SyncDies(p) PROVE MemoryInv'
<1> DEFINE h == HostOf[p]
<1>1. /\ h \in Hosts /\ copies[h] \in Copy /\ backups[h] \in Copy /\ MemoryTyped
      /\ CopySound(copies[h]) /\ CopySound(backups[h]) /\ MergeSound(copies[h], backups[h])
      /\ copies = [copies EXCEPT ![h] = copies[h]] /\ backups = [backups EXCEPT ![h] = backups[h]]
  BY AtHost DEF MemoryInv
<1>2. UNCHANGED <<remote, copies, backups, version>> /\ Proceed(p, "off")
  BY DEF NothingToCommit, SyncDies
<1>3. syncs' \in [Syncs -> {"off", "found", "backed up", "cloned", "inside", "committed"}]
  BY <1>1, <1>2, SyncsTyped
<1> HIDE DEF h
<1> QED
  BY <1>1, <1>2, <1>3, HostChangesTyped

(* What is pushed is what the clone has checked out: the branch with the   *)
(* commits on top, none of which takes back what is below.                 *)
LEMMA PushStep ==
    ASSUME MemoryInv, NEW p \in Syncs, PushMemory(p)
    PROVE  MemoryInv' /\ \A f \in Results : TreeOf(remote)[f] <= TreeOf(remote')[f]
<1> DEFINE h == HostOf[p]
<1>a. PICK c, b : c = copies[h] /\ b = backups[h]
  OBVIOUS
<1>1. /\ h \in Hosts /\ c \in Copy /\ b \in Copy /\ MemoryTyped
      /\ CopySound(c) /\ CopySound(b) /\ MergeSound(c, b)
      /\ copies = [copies EXCEPT ![h] = c] /\ backups = [backups EXCEPT ![h] = b]
      /\ copies \in [Hosts -> Copy] /\ backups \in [Hosts -> Copy]
  BY <1>a, AtHost DEF MemoryInv, MemoryTyped
<1>2. UNCHANGED <<backups, version>> /\ Proceed(p, "off")
  BY DEF PushMemory
<1>3. syncs' \in [Syncs -> {"off", "found", "backed up", "cloned", "inside", "committed"}]
  BY <1>1, <1>2, SyncsTyped
<1>4. /\ remote \in Seq(Patch) /\ Len(remote) \in Nat /\ version \in Nat /\ MaxVersion \in Nat
      /\ c.mine \in Seq(Patch) /\ c.tree \in [Results -> Markers .. version] /\ Len(c.mine) \in Nat
  BY <1>1, MemoryBasics, CopyFields, LenProperties
<1>5. CASE UNCHANGED <<remote, copies>>
  <2>1. MemoryInv'
    <3> HIDE DEF h
    <3> QED
      BY <1>1, <1>2, <1>3, <1>5, HostChangesTyped
  <2>2. \A f \in Results : TreeOf(remote)[f] <= TreeOf(remote')[f]
    <3>1. \A f \in Results : TreeOf(remote)[f] \in 0 .. version
      BY <1>4, TreeRange
    <3> QED
      BY <1>5, <3>1
  <2> QED
    BY <2>1, <2>2
<1>6. CASE ~UNCHANGED <<remote, copies>>
  <2>a. PICK l, n : l = Len(remote') /\ n = [c EXCEPT !.base = l, !.mine = <<>>]
    OBVIOUS
  <2>1. /\ c.kind = "clone" /\ c.base = Len(remote) /\ ~c.stopped
        /\ remote' = remote \o c.mine
        /\ copies' = [copies EXCEPT ![h] = n]
    BY <1>a, <1>6, <2>a DEF PushMemory, Becomes
  <2> HIDE DEF h
  <2>2. /\ remote' \in Seq(Patch) /\ Len(remote') = Len(remote) + Len(c.mine)
        /\ Len(remote') \in Nat /\ Len(remote) <= Len(remote')
    BY <1>4, <2>1, ConcatProperties
  <2>3. Patch' = Patch /\ Copy \subseteq Copy'
    BY <1>1, <1>2, <1>4, <2>2, CopiesStayCopies DEF Patch
  <2>4. /\ n \in Copy' /\ n.kind = "clone" /\ n.base = l /\ n.mine = <<>> /\ n.tree = c.tree
        /\ ~n.stopped
    <3>1. <<>> \in Seq(Patch') /\ l \in 0 .. Len(remote') /\ c \in Copy'
      BY <1>1, <2>2, <2>3, <2>a, EmptySeq
    <3>2. /\ n.kind = c.kind /\ n.base = l /\ n.mine = <<>> /\ n.tree = c.tree
          /\ n.stopped = c.stopped
      BY <2>a, <3>1 DEF Copy
    <3>3. n \in Copy'
      BY <2>a, <3>1 DEF Copy
    <3> QED
      BY <2>1, <3>2, <3>3
  <2>5. /\ SubSeq(remote', 1, n.base) = remote' /\ CheckedOut(n)' = remote'
    <3>1. SubSeq(remote', 1, Len(remote')) = remote' /\ remote' \o <<>> = remote'
      BY <2>2, SubSeqFull, ConcatEmptySeq
    <3> QED
      BY <2>4, <2>a, <3>1 DEF CheckedOut
  <2>6. CheckedOut(c) = remote' /\ SubSeq(remote, 1, c.base) = remote
    BY <1>4, <2>1, SubSeqFull DEF CheckedOut
  <2>7. ASSUME NEW f \in Results
        PROVE  /\ TreeOf(remote)[f] <= TreeOf(remote')[f]
               /\ TreeOf(remote')[f] \in 0 .. version
               /\ c.tree[f] >= TreeOf(remote')[f]
               /\ c.tree[f] # Markers
    <3>1. TreeOf(remote)[f] \in 0 .. version /\ TreeOf(remote')[f] \in 0 .. version
      BY <1>4, <2>2, TreeRange
    <3>2. /\ TreeOf(CheckedOut(c))[f] >= TreeOf(SubSeq(remote, 1, c.base))[f]
          /\ c.tree[f] >= TreeOf(CheckedOut(c))[f]
      BY <1>1, <2>1 DEF CopySound, Live
    <3>3. /\ TreeOf(CheckedOut(c))[f] = TreeOf(remote')[f]
          /\ TreeOf(SubSeq(remote, 1, c.base))[f] = TreeOf(remote)[f]
      BY <2>6
    <3>4. c.tree[f] \in Int
      BY <1>4 DEF Markers
    <3> QED
      BY <1>4, <3>1, <3>2, <3>3, <3>4 DEF Markers
  <2>8. CopySound(n)'
    <3>1. \A f \in Results : /\ TreeOf(CheckedOut(n)')[f] = TreeOf(remote')[f]
                             /\ TreeOf(SubSeq(remote', 1, n.base))[f] = TreeOf(remote')[f]
                             /\ n.tree[f] = c.tree[f]
      BY <2>4, <2>5
    <3> QED
      BY <1>4, <2>4, <2>7, <3>1 DEF CopySound
  <2>9. MergeSound(n, b)'
    BY <1>1, <2>1, <2>4 DEF MergeSound, Live
  <2>10. CopySound(b)'
    BY <1>1, <1>4, <2>1, SoundStays
  <2>11. MemorySound'
    BY <1>1, <1>2, <1>4, <2>1, <2>8, <2>9, <2>10, OneHostChanges
  <2>12. MemoryTyped'
    <3>1. copies' \in [Hosts -> Copy'] /\ backups' \in [Hosts -> Copy']
      BY <1>1, <1>2, <2>1, <2>3, <2>4
    <3>2. remote' \in Seq(Patch') /\ version' \in 0 .. MaxVersion
      BY <1>1, <1>2, <2>2, <2>3 DEF MemoryTyped
    <3> QED
      BY <1>3, <3>1, <3>2 DEF MemoryTyped
  <2> QED
    BY <2>7, <2>11, <2>12 DEF MemoryInv
<1> QED
  BY <1>5, <1>6

LEMMA MemoryInvInit == MemoryInit => MemoryInv
<1> SUFFICES ASSUME MemoryInit PROVE MemoryInv
  OBVIOUS
<1>1. remote = <<>> /\ version = 0 /\ MaxVersion \in Nat /\ version \in 0 .. MaxVersion
  BY SharedMemoryAssumption DEF MemoryInit
<1>2. Empty \in [Results -> Markers .. version]
  BY <1>1 DEF Empty, Markers, Unwritten
<1>3. NoCopy \in Copy
  BY <1>1, <1>2, EmptySeq DEF NoCopy, Copy
<1>4. MemoryTyped
  BY <1>1, <1>3, EmptySeq DEF MemoryInit, MemoryTyped
<1>5. CopySound(NoCopy) /\ MergeSound(NoCopy, NoCopy)
  BY <1>4, EmptyIsSound
<1>6. MemorySound
  BY <1>5 DEF MemoryInit, MemorySound
<1> QED
  BY <1>4, <1>6 DEF MemoryInv

LEMMA MemoryInvStep == MemoryInv /\ [MemoryNext]_memoryVars => MemoryInv'
<1> SUFFICES ASSUME MemoryInv, [MemoryNext]_memoryVars PROVE MemoryInv'
  OBVIOUS
<1>1. CASE UNCHANGED memoryVars
  <2>1. UNCHANGED <<remote, copies, backups, syncs, version>>
    BY <1>1 DEF memoryVars
  <2>2. MemoryTyped'
    <3>1. Copy' = Copy /\ Patch' = Patch
      BY <2>1 DEF Copy, Patch
    <3> QED
      BY <2>1, <3>1 DEF MemoryInv, MemoryTyped
  <2>3. MemorySound'
    BY <2>1, SameBranch DEF MemoryInv, MemorySound
  <2> QED
    BY <2>2, <2>3 DEF MemoryInv
<1>2. CASE MemoryNext
  <2>1. PICK p \in Syncs :
          \/ PullMemory(p) \/ CloneMemory(p)
          \/ FindPlain(p) \/ BackUpMemory(p) \/ CloneBeside(p)
          \/ MergeBackup(p)
          \/ \E f \in Results : WriteResult(p, f)
          \/ CommitResults(p) \/ NothingToCommit(p) \/ PushMemory(p)
          \/ SyncDies(p)
    BY <1>2 DEF MemoryNext
  <2> QED
    BY <2>1, PullStep, CloneSteps, BackUpStep, MergeStep, WriteStep, CommitStep, IdleSteps, PushStep
<1> QED
  BY <1>1, <1>2

LEMMA TypedMemory == MemoryTyped => MemoryTypeOK
<1> SUFFICES ASSUME MemoryTyped PROVE MemoryTypeOK
  OBVIOUS
<1>1. version \in Nat /\ MaxVersion \in Nat /\ version <= MaxVersion /\ remote \in Seq(Patch)
  <2>1. version \in 0 .. MaxVersion
    BY DEF MemoryTyped
  <2> QED
    BY <2>1, MemoryBasics
<1>2. Patch \subseteq Patches
  <2>1. ASSUME NEW S \in SUBSET Results PROVE [S -> 1 .. version] \subseteq [S -> 1 .. MaxVersion]
    BY <1>1
  <2> QED
    BY <2>1 DEF Patch, Patches
<1>3. ASSUME NEW s \in Seq(Patch) PROVE \A i \in DOMAIN s : s[i] \in Patches
  BY <1>2, ElementOfSeq, LenProperties
<1>4. [Results -> Markers .. version] \subseteq [Results -> Versions]
  BY <1>1 DEF Versions, Markers
<1>5. ASSUME NEW c \in Copy
      PROVE  /\ c.kind \in {"absent", "plain", "clone"}
             /\ c.base \in 0..Len(remote)
             /\ \A i \in DOMAIN c.mine : c.mine[i] \in Patches
             /\ c.tree \in [Results -> Versions]
  BY <1>3, <1>4, CopyFields
<1>6. \A h \in Hosts : copies[h] \in Copy /\ backups[h] \in Copy
  BY DEF MemoryTyped
<1> QED
  BY <1>1, <1>3, <1>5, <1>6 DEF MemoryTyped, MemoryTypeOK

LEMMA PublishedStep ==
    ASSUME MemoryInv, MemoryNext, remote' # remote
    PROVE  \A f \in Results : TreeOf(remote)[f] <= TreeOf(remote')[f]
<1>1. PICK p \in Syncs : PushMemory(p)
  BY DEF MemoryNext, PullMemory, CloneMemory, FindPlain, BackUpMemory, CloneBeside, MergeBackup,
         WriteResult, CommitResults, NothingToCommit, SyncDies
<1> QED
  BY <1>1, PushStep

LEMMA MemoryAlwaysSound == MemorySpec => []MemoryInv
BY MemoryInvInit, MemoryInvStep, PTL DEF MemorySpec

(* The directories, branches and runs keep their types, whatever hosts and *)
(* runs there are and however many results they write.                     *)
THEOREM MemoryKeepsItsTypes == MemorySpec => []MemoryTypeOK
<1>1. MemoryInv => MemoryTypeOK
  BY TypedMemory DEF MemoryInv
<1> QED
  BY <1>1, MemoryAlwaysSound, PTL

(* For any hosts, runs and results: a result that is published is never    *)
(* followed by an older one, whatever pulls, rebases, backups and pushes   *)
(* fail on the way and whichever runs die (_sync_shared_memory_pull and    *)
(* _push, pipeline.py:134, 150).                                           *)
THEOREM PublishedResultsNeverGoBack == MemorySpec => PublishedNeverGoesBack
<1>1. MemoryInv /\ [MemoryNext]_memoryVars =>
          [\A f \in Results : TreeOf(remote)[f] <= TreeOf(remote')[f]]_remote
  BY PublishedStep DEF memoryVars
<1> QED
  BY <1>1, MemoryAlwaysSound, PTL DEF MemorySpec, PublishedNeverGoesBack

-----------------------------------------------------------------------------
(* Migrations.  The revisions by their place in the chain, and what they   *)
(* are built on.                                                           *)
LEMMA ChainAt ==
    /\ Len(Chain) = 57 /\ DOMAIN Chain = 1..57
    /\ Chain[1] = Initial /\ Chain[2] = CreateAllTables
    /\ Chain[3] = SyncModels /\ Chain[4] = AddAuthTables
    /\ Chain[5] = AddAiConversations /\ Chain[6] = MergeHeads6e
    /\ Chain[7] = MergeHeads82 /\ Chain[8] = MergeHeads8b
    /\ Chain[9] = MergeHeadsAd /\ Chain[10] = MergeHeadsEe
    /\ Chain[11] = MergeHeadsF0 /\ Chain[12] = AddOpportunityModel
    /\ Chain[13] = AddAgentTasks /\ Chain[14] = AddRbacSchema
    /\ Chain[15] = AddRecommendations /\ Chain[16] = AddDashboard
    /\ Chain[17] = CustomersSchemaDrift /\ Chain[18] = AddImportExportJobs
    /\ Chain[19] = CreateAutomation /\ Chain[20] = ReplayHeads
    /\ Chain[21] = AddWorkflowNodes /\ Chain[22] = AddNotificationIndexes
    /\ Chain[23] = AddNotificationTemplates /\ Chain[24] = MergeNt662
    /\ Chain[25] = AddNotificationPreferences /\ Chain[26] = AddNotificationLogs
    /\ Chain[27] = AddCampaignTables /\ Chain[28] = AddLeadScore
    /\ Chain[29] = AddEngagementEvents /\ Chain[30] = CreateRoutingRules
    /\ Chain[31] = AddIdentity /\ Chain[32] = AddNotificationAnalytics
    /\ Chain[33] = AddTenantSlug /\ Chain[34] = AddWebhooks
    /\ Chain[35] = AddChurnPredictions /\ Chain[36] = AddSmartNotifications
    /\ Chain[37] = AddTicketCategorization /\ Chain[38] = AddChatSessions
    /\ Chain[39] = AddSentAt /\ Chain[40] = AddReportDefinitions
    /\ Chain[41] = AddConversations /\ Chain[42] = CreateOpportunityActivities
    /\ Chain[43] = CreateCustomerEnrichments /\ Chain[44] = MergeHeadsThird
    /\ Chain[45] = WorkflowExecutionsTenant /\ Chain[46] = AddTenantId
    /\ Chain[47] = AddWebhookRetry /\ Chain[48] = MergeHeadsFour
    /\ Chain[49] = MergeHeads63274 /\ Chain[50] = MergeAllHeadsFinal
    /\ Chain[51] = AddCkAiMessagesRole /\ Chain[52] = AddCategorizationFeedback
    /\ Chain[53] = Merge13Heads /\ Chain[54] = WorkflowCompositeIndex
    /\ Chain[55] = WorkflowCreatedByNullable /\ Chain[56] = WorkflowExecutionsCascade
    /\ Chain[57] = WorkflowNodesCascade
BY SMTT(60) DEF Chain

LEMMA Edges ==
    /\ Initial.id = "37fa45f0f9c4" /\ Initial.from = {}
    /\ CreateAllTables.id = "b2c3dce4b714"
    /\ CreateAllTables.from = {"37fa45f0f9c4"}
    /\ SyncModels.id = "3ea69d66514e" /\ SyncModels.from = {"b2c3dce4b714"}
    /\ AddAuthTables.id = "9d8e7f6a5b3c"
    /\ AddAuthTables.from = {"3ea69d66514e"}
    /\ AddAiConversations.id = "c94d682d4b03"
    /\ AddAiConversations.from = {"3ea69d66514e"}
    /\ MergeHeads6e.id = "6e3746e84cc8" /\ MergeHeads6e.from = AuthAndAi
    /\ MergeHeads82.id = "82ecf4a34e34" /\ MergeHeads82.from = AuthAndAi
    /\ MergeHeads8b.id = "8b65fe079d37" /\ MergeHeads8b.from = AuthAndAi
    /\ MergeHeadsAd.id = "ad83ab21d36d" /\ MergeHeadsAd.from = AuthAndAi
    /\ MergeHeadsEe.id = "eea413253aa1" /\ MergeHeadsEe.from = AuthAndAi
    /\ MergeHeadsF0.id = "f0c74d3d54f0" /\ MergeHeadsF0.from = AuthAndAi
    /\ AddOpportunityModel.id = "7770543dc37d"
    /\ AddOpportunityModel.from = {"f0c74d3d54f0"}
    /\ AddAgentTasks.id = "add_agent_tasks_001"
    /\ AddAgentTasks.from = AuthAndAi
    /\ AddRbacSchema.id = "195a79d95b41"
    /\ AddRbacSchema.from = {"c94d682d4b03"}
    /\ AddRecommendations.id = "3c19d099a7a9"
    /\ AddRecommendations.from = {"6e3746e84cc8"}
    /\ AddDashboard.id = "3d9f46ff44b8" /\ AddDashboard.from = {"8b65fe079d37"}
    /\ CustomersSchemaDrift.id = "4001ca3d5d6f"
    /\ CustomersSchemaDrift.from = {"82ecf4a34e34"}
    /\ AddImportExportJobs.id = "a52e1317da90"
    /\ AddImportExportJobs.from = {"9d8e7f6a5b3c"}
    /\ CreateAutomation.id = "e646948c549a"
    /\ CreateAutomation.from = {"9d8e7f6a5b3c"}
    /\ ReplayHeads.id = "52b19ee00eaf" /\ ReplayHeads.from = {"82ecf4a34e34"}
    /\ AddWorkflowNodes.id = "185055a0d4f0"
    /\ AddWorkflowNodes.from = {"82ecf4a34e34"}
    /\ AddNotificationIndexes.id = "e7f6a5b3c12d"
    /\ AddNotificationIndexes.from = {"82ecf4a34e34"}
    /\ AddNotificationTemplates.id = "5d575a161b5d"
    /\ AddNotificationTemplates.from = {"e7f6a5b3c12d"}
    /\ MergeNt662.id = "merge_nt_662"
    /\ MergeNt662.from = {"52b19ee00eaf", "5d575a161b5d"}
    /\ AddNotificationPreferences.id = "663_notif_prefs"
    /\ AddNotificationPreferences.from = {"merge_nt_662"}
    /\ AddNotificationLogs.id = "a785fd51c79e"
    /\ AddNotificationLogs.from = {"52b19ee00eaf"}
    /\ AddCampaignTables.id = "6042653c9d73"
    /\ AddCampaignTables.from = {"ad83ab21d36d"}
    /\ AddLeadScore.id = "e8ad92ca62b3" /\ AddLeadScore.from = {"eea413253aa1"}
    /\ AddEngagementEvents.id = "a1b2c3d4e5f6"
    /\ AddEngagementEvents.from = {"e8ad92ca62b3"}
    /\ CreateRoutingRules.id = "7b1a2c3d4e5f"
    /\ CreateRoutingRules.from = {"4001ca3d5d6f"}
    /\ AddIdentity.id = "db67d696b6ab" /\ AddIdentity.from = {"7b1a2c3d4e5f"}
    /\ AddNotificationAnalytics.id = "0596add_notification_analytics_tracking"
    /\ AddNotificationAnalytics.from = {"db67d696b6ab"}
    /\ AddTenantSlug.id = "9aad50c58f54"
    /\ AddTenantSlug.from = {"9d8e7f6a5b3c"}
    /\ AddWebhooks.id = "63274a8b98b3c" /\ AddWebhooks.from = {"9d8e7f6a5b3c"}
    /\ AddChurnPredictions.id = "addcp001"
    /\ AddChurnPredictions.from = {"9d8e7f6a5b3c"}
    /\ AddSmartNotifications.id = "127938d15761"
    /\ AddSmartNotifications.from = {"9d8e7f6a5b3c"}
    /\ AddTicketCategorization.id = "a0000012"
    /\ AddTicketCategorization.from = {"9d8e7f6a5b3c"}
    /\ AddChatSessions.id = "a2a592eec292"
    /\ AddChatSessions.from = {"c94d682d4b03"}
    /\ AddSentAt.id = "afa7c3f333bd" /\ AddSentAt.from = {"c94d682d4b03"}
    /\ AddReportDefinitions.id = "c94d682d4b04"
    /\ AddReportDefinitions.from = {"c94d682d4b03"}
    /\ AddConversations.id = "db63fcd03ab9"
    /\ AddConversations.from = {"c94d682d4b03"}
    /\ CreateOpportunityActivities.id = "e1f2a3b4c5d6"
    /\ CreateOpportunityActivities.from = {"c94d682d4b03"}
    /\ CreateCustomerEnrichments.id = "f18b406b982a"
    /\ CreateCustomerEnrichments.from = {"c94d682d4b03"}
    /\ MergeHeadsThird.id = "merge_heads_third"
    /\ MergeHeadsThird.from = {"185055a0d4f0", "addcp001", "db67d696b6ab"}
    /\ WorkflowExecutionsTenant.id = "9e805b1493a6"
    /\ WorkflowExecutionsTenant.from = {"merge_heads_third"}
    /\ AddTenantId.id = "fcf9ff098f62447a"
    /\ AddTenantId.from = {"merge_heads_third"}
    /\ AddWebhookRetry.id = "a940f167ad16"
    /\ AddWebhookRetry.from = {"fcf9ff098f62447a"}
    /\ MergeHeadsFour.id = "merge_heads_four"
    /\ MergeHeadsFour.from = {"9aad50c58f54", "addcp001", "9e805b1493a6"}
    /\ MergeHeads63274.id = "merge_heads_63274_addcp001"
    /\ MergeHeads63274.from =
         {"185055a0d4f0", "db67d696b6ab", "63274a8b98b3c", "addcp001"}
    /\ MergeAllHeadsFinal.id = "merge_all_heads_final"
    /\ MergeAllHeadsFinal.from =
         {"9aad50c58f54", "a52e1317da90", "add_agent_tasks_001",
          "63274a8b98b3c", "afa7c3f333bd", "c94d682d4b04", "db63fcd03ab9",
          "e1f2a3b4c5d6", "e646948c549a", "f18b406b982a", "a940f167ad16"}
    /\ AddCkAiMessagesRole.id = "add_ck_ai_messages_role"
    /\ AddCkAiMessagesRole.from = {"merge_all_heads_final"}
    /\ AddCategorizationFeedback.id = "a0000013"
    /\ AddCategorizationFeedback.from = {"add_ck_ai_messages_role"}
    /\ Merge13Heads.id = "045507a9a536"
    /\ Merge13Heads.from =
         {"0596add_notification_analytics_tracking", "127938d15761",
          "195a79d95b41", "3c19d099a7a9", "6042653c9d73", "663_notif_prefs",
          "a0000012", "a0000013", "a2a592eec292", "a785fd51c79e",
          "a1b2c3d4e5f6", "merge_heads_63274_addcp001", "merge_heads_four"}
    /\ WorkflowCompositeIndex.id = "a1c2d3e4f5a7"
    /\ WorkflowCompositeIndex.from = {"045507a9a536"}
    /\ WorkflowCreatedByNullable.id = "a1c2d3e4f5a8"
    /\ WorkflowCreatedByNullable.from = {"a1c2d3e4f5a7"}
    /\ WorkflowExecutionsCascade.id = "b3c4d5e6f708"
    /\ WorkflowExecutionsCascade.from = {"a1c2d3e4f5a8"}
    /\ WorkflowNodesCascade.id = "c4d5e6f70819"
    /\ WorkflowNodesCascade.from = {"b3c4d5e6f708"}
BY SMTT(60) DEF Joins, Adds, Revision,
    Initial, CreateAllTables, SyncModels, AddAuthTables, AddAiConversations,
    MergeHeads6e, MergeHeads82, MergeHeads8b, MergeHeadsAd, MergeHeadsEe,
    MergeHeadsF0, AddOpportunityModel, AddAgentTasks, AddRbacSchema,
    AddRecommendations, AddDashboard, CustomersSchemaDrift,
    AddImportExportJobs, CreateAutomation, ReplayHeads, AddWorkflowNodes,
    AddNotificationIndexes, AddNotificationTemplates, MergeNt662,
    AddNotificationPreferences, AddNotificationLogs, AddCampaignTables,
    AddLeadScore, AddEngagementEvents, CreateRoutingRules, AddIdentity,
    AddNotificationAnalytics, AddTenantSlug, AddWebhooks,
    AddChurnPredictions, AddSmartNotifications, AddTicketCategorization,
    AddChatSessions, AddSentAt, AddReportDefinitions, AddConversations,
    CreateOpportunityActivities, CreateCustomerEnrichments, MergeHeadsThird,
    WorkflowExecutionsTenant, AddTenantId, AddWebhookRetry, MergeHeadsFour,
    MergeHeads63274, MergeAllHeadsFinal, AddCkAiMessagesRole,
    AddCategorizationFeedback, Merge13Heads, WorkflowCompositeIndex,
    WorkflowCreatedByNullable, WorkflowExecutionsCascade,
    WorkflowNodesCascade

LEMMA ParentsComeFirst ==
    ASSUME NEW i \in 1..57, NEW j \in 1..57, Chain[i].id \in Chain[j].from
    PROVE  i < j
BY ChainAt, Edges, SMTT(120) DEF AuthAndAi

LEMMA AllRevisions ==
    /\ Revisions = {Chain[i].id : i \in 1..57}
    /\ \A j \in 1..57 : Chain[j].from \subseteq Revisions
<1>1. Revisions = {Chain[i].id : i \in 1..57}
  BY ChainAt DEF Revisions, ToSet
<1>2. ASSUME NEW j \in 1..57
      PROVE  Chain[j].from \subseteq {Chain[i].id : i \in 1..57}
  BY ChainAt, Edges, SMTT(60) DEF AuthAndAi
<1> QED
  BY <1>1, <1>2, Zenon

-----------------------------------------------------------------------------
(* The recursive functions of the model: one step of each, and the         *)
(* function that takes them.  (One operator for all, since a lemma cannot  *)
(* take the step as a parameter.)                                          *)
Advance(kind, S, n, x) ==
    CASE kind = "graph" ->
            LET r == Chain[Len(Chain) - n + 1]
            IN  x \cup IF r.id \in x THEN r.from ELSE {}
      [] kind = "up" ->
            IF Chain[n].id \in S THEN Migrate(x, Chain[n].up) ELSE x
      [] kind = "down" ->
            LET r == Chain[Len(Chain) - n + 1]
            IN  IF r.id \in S THEN Migrate(x, r.down) ELSE x

Unrolls(kind, S, x, w, m) ==
    w = [n \in 0 .. m |-> IF n = 0 THEN x ELSE Advance(kind, S, n, w[n - 1])]

LEMMA UnrollsExist ==
    ASSUME NEW kind, NEW S, NEW x
    PROVE  \A m \in Nat : \E w : Unrolls(kind, S, x, w, m)
<1> DEFINE T == {m \in Nat : \E w : Unrolls(kind, S, x, w, m)}
<1>1. 0 \in T
  <2> DEFINE w == [n \in 0 .. 0 |-> x]
  <2>1. w = [n \in 0 .. 0 |-> IF n = 0 THEN x ELSE Advance(kind, S, n, w[n - 1])]
    OBVIOUS
  <2>2. Unrolls(kind, S, x, w, 0)
    BY <2>1 DEF Unrolls
  <2> QED
    BY <2>2
<1>2. ASSUME NEW m \in Nat, m \in T PROVE m + 1 \in T
  <2>1. PICK w : Unrolls(kind, S, x, w, m)
    BY <1>2
  <2> DEFINE v == [n \in 0 .. m + 1 |->
                     IF n = m + 1 THEN Advance(kind, S, m + 1, w[m]) ELSE w[n]]
  <2>2. \A n \in 0 .. m : v[n] = w[n]
    OBVIOUS
  <2>3. \A n \in 0 .. m : w[n] = IF n = 0 THEN x ELSE Advance(kind, S, n, w[n - 1])
    BY <2>1 DEF Unrolls
  <2>4. ASSUME NEW n \in 0 .. m + 1
        PROVE  v[n] = IF n = 0 THEN x ELSE Advance(kind, S, n, v[n - 1])
    <3>1. CASE n = m + 1
      <4>1. v[n - 1] = w[m] /\ n # 0
        BY <3>1, <2>2, m \in 0 .. m
      <4> QED
        BY <3>1, <4>1
    <3>2. CASE n = 0
      <4>1. 0 \in 0 .. m
        OBVIOUS
      <4> QED
        BY <3>2, <4>1, <2>2, <2>3
    <3>3. CASE n \in 1 .. m
      <4>1. v[n - 1] = w[n - 1] /\ n \in 0 .. m /\ n # 0 /\ v[n] = w[n]
        BY <3>3, <2>2
      <4> QED
        BY <4>1, <2>3
    <3> QED
      BY <3>1, <3>2, <3>3
  <2>5. v = [n \in 0 .. m + 1 |-> v[n]]
    OBVIOUS
  <2> HIDE DEF v
  <2>6. v = [n \in 0 .. m + 1 |-> IF n = 0 THEN x ELSE Advance(kind, S, n, v[n - 1])]
    BY <2>4, <2>5
  <2> QED
    BY <2>6 DEF Unrolls
<1>3. Nat \subseteq T
  <2> HIDE DEF T
  <2> QED
    BY <1>1, <1>2, NatInd
<1> QED
  BY <1>3

(* What such a function is at 0, and at every next place.                  *)
Steps(kind, S, x, w, m) ==
    /\ w[0] = x
    /\ \A n \in 1 .. m : w[n] = Advance(kind, S, n, w[n - 1])

LEMMA UnrollsSteps ==
    ASSUME NEW kind, NEW S, NEW x, NEW w, NEW m \in Nat, Unrolls(kind, S, x, w, m)
    PROVE  Steps(kind, S, x, w, m)
<1>1. w[0] = x
  BY 0 \in 0 .. m DEF Unrolls
<1>2. ASSUME NEW n \in 1 .. m PROVE w[n] = Advance(kind, S, n, w[n - 1])
  BY n \in 0 .. m, n # 0 DEF Unrolls
<1> QED
  BY <1>1, <1>2 DEF Steps

-----------------------------------------------------------------------------
(* The ancestors of a revision: the revision, what it is built on, and     *)
(* what that is built on.                                                  *)
LEMMA AncestorsUnroll ==
    ASSUME NEW g \in Revisions
    PROVE  \E w : Ancestors[g] = w[57] /\ Steps("graph", {}, {g}, w, 57)
<1> DEFINE W(w) == w = [n \in 0 .. Len(Chain) |->
                IF n = 0 THEN {g}
                ELSE LET before == w[n - 1]
                         r == Chain[Len(Chain) - n + 1]
                     IN  before \cup IF r.id \in before THEN r.from ELSE {}]
           w == CHOOSE v : W(v)
<1>1. \E v : W(v)
  <2>1. PICK v : Unrolls("graph", {}, {g}, v, 57)
    BY UnrollsExist, SMTT(40)
  <2>2. W(v)
    BY <2>1, ChainAt DEF Unrolls, Advance
  <2> QED
    BY <2>2
<1>2. W(w)
  <2> HIDE DEF W
  <2> QED
    BY <1>1
<1>3. Ancestors[g] = w[57]
  BY ChainAt DEF Ancestors
<1> HIDE DEF w
<1>4. Unrolls("graph", {}, {g}, w, 57)
  BY <1>2, ChainAt DEF Unrolls, Advance
<1> QED
  BY <1>3, <1>4, UnrollsSteps

LEMMA GraphStep ==
    ASSUME NEW n \in 1 .. 57, NEW x
    PROVE  Advance("graph", {}, n, x) =
               x \cup IF Chain[58 - n].id \in x THEN Chain[58 - n].from ELSE {}
BY ChainAt DEF Advance

Closed(X) == \A i \in 1 .. 57 : Chain[i].id \in X => Chain[i].from \subseteq X

LEMMA AncestorsAreClosed ==
    ASSUME NEW g \in Revisions
    PROVE  g \in Ancestors[g] /\ Closed(Ancestors[g])
<1>1. PICK w : Ancestors[g] = w[57] /\ Steps("graph", {}, {g}, w, 57)
  BY AncestorsUnroll
<1> DEFINE T == {n \in Nat : n <= 57 =>
                   /\ g \in w[n]
                   /\ \A i \in 1 .. 57 : 58 - n <= i /\ Chain[i].id \in w[n] =>
                         Chain[i].from \subseteq w[n]}
<1>2. 0 \in T
  BY <1>1, SMTT(40) DEF Steps
<1>3. ASSUME NEW n \in Nat, n \in T PROVE n + 1 \in T
  <2> SUFFICES ASSUME n + 1 <= 57
               PROVE  /\ g \in w[n + 1]
                      /\ \A i \in 1 .. 57 : 57 - n <= i /\ Chain[i].id \in w[n + 1] =>
                            Chain[i].from \subseteq w[n + 1]
    OBVIOUS
  <2>1. /\ g \in w[n]
        /\ \A i \in 1 .. 57 : 58 - n <= i /\ Chain[i].id \in w[n] =>
              Chain[i].from \subseteq w[n]
    BY <1>3
  <2>2. w[n + 1] = w[n] \cup IF Chain[57 - n].id \in w[n] THEN Chain[57 - n].from ELSE {}
    <3>1. n + 1 \in 1 .. 57 /\ (n + 1) - 1 = n /\ 58 - (n + 1) = 57 - n
      OBVIOUS
    <3>2. w[n + 1] = Advance("graph", {}, n + 1, w[n])
      BY <1>1, <3>1 DEF Steps
    <3> QED
      BY <3>1, <3>2, GraphStep
  <2>3. ASSUME NEW i \in 1 .. 57, 57 - n <= i, Chain[i].id \in w[n + 1]
        PROVE  Chain[i].from \subseteq w[n + 1]
    <3>1. 57 - n \in 1 .. 57
      OBVIOUS
    <3>2. Chain[i].id \in w[n]
      <4>1. PICK j \in 1 .. 57 : j = 57 - n
        BY <3>1
      <4>2. ASSUME Chain[i].id \in Chain[j].from PROVE FALSE
        <5>1. i < j
          BY <4>2, ParentsComeFirst
        <5> QED
          BY <2>3, <4>1, <5>1, SMTT(40)
      <4> QED
        BY <2>2, <2>3, <4>1, <4>2
    <3>3. CASE i = 57 - n
      BY <2>2, <3>2, <3>3
    <3>4. CASE 58 - n <= i
      BY <2>1, <2>2, <3>2, <3>4
    <3> QED
      BY <2>3, <3>3, <3>4
  <2> QED
    BY <2>1, <2>2, <2>3, Zenon
<1>4. 57 \in T
  <2> HIDE DEF T
  <2> QED
    BY <1>2, <1>3, NatInd
<1>5. /\ g \in w[57]
      /\ \A i \in 1 .. 57 : Chain[i].id \in w[57] => Chain[i].from \subseteq w[57]
  BY <1>4
<1> QED
  BY <1>1, <1>5 DEF Closed

LEMMA AncestorsAreLeast ==
    ASSUME NEW g \in Revisions, NEW X, g \in X, Closed(X)
    PROVE  Ancestors[g] \subseteq X
<1>1. PICK w : Ancestors[g] = w[57] /\ Steps("graph", {}, {g}, w, 57)
  BY AncestorsUnroll
<1> DEFINE T == {n \in Nat : n <= 57 => w[n] \subseteq X}
<1>2. 0 \in T
  BY <1>1 DEF Steps
<1>3. ASSUME NEW n \in Nat, n \in T PROVE n + 1 \in T
  <2> SUFFICES ASSUME n + 1 <= 57 PROVE w[n + 1] \subseteq X
    OBVIOUS
  <2>1. w[n] \subseteq X
    BY <1>3
  <2>2. w[n + 1] = w[n] \cup IF Chain[57 - n].id \in w[n] THEN Chain[57 - n].from ELSE {}
    <3>1. n + 1 \in 1 .. 57 /\ (n + 1) - 1 = n /\ 58 - (n + 1) = 57 - n
      OBVIOUS
    <3>2. w[n + 1] = Advance("graph", {}, n + 1, w[n])
      BY <1>1, <3>1 DEF Steps
    <3> QED
      BY <3>1, <3>2, GraphStep
  <2>3. 57 - n \in 1 .. 57
    OBVIOUS
  <2> QED
    BY <2>1, <2>2, <2>3 DEF Closed
<1>4. 57 \in T
  <2> HIDE DEF T
  <2> QED
    BY <1>2, <1>3, NatInd
<1> QED
  BY <1>1, <1>4

LEMMA AncestorsOfAncestors ==
    ASSUME NEW g \in Revisions
    PROVE  /\ g \in Ancestors[g] /\ Ancestors[g] \subseteq Revisions
           /\ \A r \in Ancestors[g] : Ancestors[r] \subseteq Ancestors[g]
<1>1. g \in Ancestors[g] /\ Closed(Ancestors[g])
  BY AncestorsAreClosed, SMTT(40)
<1>2. Ancestors[g] \subseteq Revisions
  BY AllRevisions, AncestorsAreLeast, ZenonT(60) DEF Closed
<1>3. ASSUME NEW r \in Ancestors[g] PROVE Ancestors[r] \subseteq Ancestors[g]
  BY <1>1, <1>2, <1>3, AncestorsAreLeast
<1> QED
  BY <1>1, <1>2, <1>3

-----------------------------------------------------------------------------
(* One migration.  What it leaves is of the type of a database's state, it *)
(* never mends a command that has failed, and it either passes over the    *)
(* schema or finds what it asks for there.                                 *)
DbState == [ok : BOOLEAN, schema : SUBSET SchemaObjects, populated : BOOLEAN]

LEMMA OneMigration ==
    ASSUME NEW d \in DbState, NEW m, Makes(m) \subseteq SchemaObjects
    PROVE  /\ Migrate(d, m) \in DbState
           /\ ~d.ok => ~Migrate(d, m).ok
           /\ Migrate(d, m).ok =>
                \/ m.unless # {} /\ Migrate(d, m).schema = d.schema
                \/ Accepts(d, m) /\ Migrate(d, m).schema = After(d, m)
<1>1. CASE ~d.ok \/ Skips(d, m)
  <2>1. Migrate(d, m) = d
    BY <1>1 DEF Migrate
  <2> QED
    BY <1>1, <2>1 DEF Skips
<1>2. CASE ~(~d.ok \/ Skips(d, m)) /\ Accepts(d, m)
  <2>1. Migrate(d, m) = [d EXCEPT !.schema = After(d, m)]
    BY <1>2 DEF Migrate
  <2>2. After(d, m) \subseteq SchemaObjects
    BY DEF After, DbState
  <2> QED
    BY <1>2, <2>1, <2>2 DEF DbState
<1>3. CASE ~(~d.ok \/ Skips(d, m)) /\ ~Accepts(d, m)
  <2>1. Migrate(d, m) = [d EXCEPT !.ok = FALSE]
    BY <1>3 DEF Migrate
  <2> QED
    BY <1>3, <2>1 DEF DbState
<1> QED
  BY <1>1, <1>2, <1>3

(* A command: the revision that comes n-th, and what it does.              *)
At(dir, n) == IF dir = "up" THEN Chain[n] ELSE Chain[58 - n]
Does(dir, r) == IF dir = "up" THEN r.up ELSE r.down
RunOf(dir, d, S) == IF dir = "up" THEN RunUp(d, S) ELSE RunDown(d, S)

LEMMA AtAll ==
    ASSUME NEW dir \in {"up", "down"}, NEW n \in 1 .. 57
    PROVE  Makes(Does(dir, At(dir, n))) \subseteq SchemaObjects
<1>1. At(dir, n) \in ToSet(Chain)
  <2>1. \A i \in 1 .. 57 : Chain[i] \in ToSet(Chain)
    BY ChainAt DEF ToSet
  <2> QED
    BY <2>1, 58 - n \in 1 .. 57 DEF At
<1>2. Makes(At(dir, n).up) \subseteq SchemaObjects /\ Makes(At(dir, n).down) \subseteq SchemaObjects
  BY <1>1 DEF SchemaObjects
<1> QED
  BY <1>2 DEF Does

LEMMA RunUnrolls ==
    ASSUME NEW dir \in {"up", "down"}, NEW d, NEW S
    PROVE  \E w : RunOf(dir, d, S) = w[57] /\ Steps(dir, S, d, w, 57)
<1> DEFINE Up(w) == w = [n \in 0 .. Len(Chain) |->
                IF n = 0 THEN d
                ELSE IF Chain[n].id \in S THEN Migrate(w[n - 1], Chain[n].up)
                ELSE w[n - 1]]
           Down(w) == w = [n \in 0 .. Len(Chain) |->
                IF n = 0 THEN d
                ELSE LET r == Chain[Len(Chain) - n + 1]
                     IN  IF r.id \in S THEN Migrate(w[n - 1], r.down)
                         ELSE w[n - 1]]
           up == CHOOSE v : Up(v)
           down == CHOOSE v : Down(v)
<1>1. CASE dir = "up"
  <2>1. \E v : Up(v)
    <3>1. PICK v : Unrolls("up", S, d, v, 57)
      BY UnrollsExist
    <3>2. Up(v)
      BY <3>1, ChainAt DEF Unrolls, Advance
    <3> QED
      BY <3>2
  <2>2. Up(up)
    <3> HIDE DEF Up
    <3> QED
      BY <2>1
  <2>3. RunOf(dir, d, S) = up[57]
    BY <1>1, ChainAt DEF RunOf, RunUp
  <2> HIDE DEF up
  <2>4. Unrolls("up", S, d, up, 57)
    BY <2>2, ChainAt DEF Unrolls, Advance
  <2> QED
    BY <1>1, <2>3, <2>4, UnrollsSteps
<1>2. CASE dir = "down"
  <2>1. \E v : Down(v)
    <3>1. PICK v : Unrolls("down", S, d, v, 57)
      BY UnrollsExist
    <3>2. Down(v)
      BY <3>1, ChainAt, SMTT(40) DEF Unrolls, Advance
    <3> QED
      BY <3>2
  <2>2. Down(down)
    <3> HIDE DEF Down
    <3> QED
      BY <2>1
  <2>3. RunOf(dir, d, S) = down[57]
    BY <1>2, ChainAt DEF RunOf, RunDown
  <2> HIDE DEF down
  <2>4. Unrolls("down", S, d, down, 57)
    BY <2>2, ChainAt DEF Unrolls, Advance
  <2> QED
    BY <1>2, <2>3, <2>4, UnrollsSteps
<1> QED
  BY <1>1, <1>2

LEMMA RunStep ==
    ASSUME NEW dir \in {"up", "down"}, NEW S, NEW n \in 1 .. 57, NEW x
    PROVE  Advance(dir, S, n, x) =
               IF At(dir, n).id \in S THEN Migrate(x, Does(dir, At(dir, n))) ELSE x
BY ChainAt DEF Advance, At, Does

(* The states a command goes through, all of them of the right type.       *)
Passes(dir, d, S, w) ==
    /\ RunOf(dir, d, S) = w[57] /\ w[0] = d
    /\ \A n \in 0 .. 57 : w[n] \in DbState
    /\ \A n \in 1 .. 57 :
          w[n] = IF At(dir, n).id \in S THEN Migrate(w[n - 1], Does(dir, At(dir, n)))
                 ELSE w[n - 1]

LEMMA RunIsTyped ==
    ASSUME NEW dir \in {"up", "down"}, NEW S, NEW d \in DbState
    PROVE  \E w : Passes(dir, d, S, w)
<1>1. PICK w : RunOf(dir, d, S) = w[57] /\ Steps(dir, S, d, w, 57)
  BY RunUnrolls
<1>2. ASSUME NEW n \in 1 .. 57
      PROVE  w[n] = IF At(dir, n).id \in S
                    THEN Migrate(w[n - 1], Does(dir, At(dir, n)))
                    ELSE w[n - 1]
  <2>1. w[n] = Advance(dir, S, n, w[n - 1])
    BY <1>1 DEF Steps
  <2> QED
    BY <2>1, RunStep
<1>3. w[0] = d
  BY <1>1 DEF Steps
<1> DEFINE T == {n \in Nat : n <= 57 => w[n] \in DbState}
<1>4. 0 \in T
  BY <1>3
<1>5. ASSUME NEW n \in Nat, n \in T PROVE n + 1 \in T
  <2> SUFFICES ASSUME n + 1 <= 57 PROVE w[n + 1] \in DbState
    OBVIOUS
  <2>1. w[n] \in DbState
    BY <1>5
  <2>2. n + 1 \in 1 .. 57 /\ (n + 1) - 1 = n
    OBVIOUS
  <2>3. Makes(Does(dir, At(dir, n + 1))) \subseteq SchemaObjects
    BY <2>2, AtAll
  <2>4. Migrate(w[n], Does(dir, At(dir, n + 1))) \in DbState
    BY <2>1, <2>3, OneMigration
  <2> QED
    BY <1>2, <2>1, <2>2, <2>4
<1>6. Nat \subseteq T
  <2> HIDE DEF T
  <2> QED
    BY <1>4, <1>5, NatInd
<1>7. \A n \in 0 .. 57 : w[n] \in DbState
  BY <1>6
<1>8. Passes(dir, d, S, w)
  BY <1>1, <1>2, <1>3, <1>7, SMTT(40) DEF Passes
<1> QED
  BY <1>8

(* The states a command goes through that succeeds: each of its revisions  *)
(* finds what it asks for.                                                 *)
Does1(dir, S, n, before, after) ==
    LET m == Does(dir, At(dir, n)) IN
    \/ At(dir, n).id \notin S /\ after = before
    \/ At(dir, n).id \in S /\ m.unless # {} /\ after.schema = before.schema
    \/ At(dir, n).id \in S /\ Accepts(before, m) /\ after.schema = After(before, m)

GoodRun(dir, d, S, w) ==
    /\ w[0] = d
    /\ w[57] = RunOf(dir, d, S)
    /\ \A n \in 0 .. 57 : w[n] \in DbState
    /\ \A n \in 1 .. 57 : Does1(dir, S, n, w[n - 1], w[n])

LEMMA GoodRuns ==
    ASSUME NEW dir \in {"up", "down"}, NEW S, NEW d \in DbState, RunOf(dir, d, S).ok
    PROVE  \E w : GoodRun(dir, d, S, w)
<1>0. PICK w : Passes(dir, d, S, w)
  BY RunIsTyped
<1>1. /\ RunOf(dir, d, S) = w[57] /\ w[0] = d
      /\ \A n \in 0 .. 57 : w[n] \in DbState
      /\ \A n \in 1 .. 57 :
            w[n] = IF At(dir, n).id \in S THEN Migrate(w[n - 1], Does(dir, At(dir, n)))
                   ELSE w[n - 1]
  BY <1>0 DEF Passes
<1>2. ASSUME NEW k \in 0 .. 57, ~w[k].ok PROVE FALSE
  <2> DEFINE T == {n \in Nat : k + n <= 57 => ~w[k + n].ok}
  <2>1. 0 \in T
    BY <1>2
  <2>2. ASSUME NEW n \in Nat, n \in T PROVE n + 1 \in T
    <3> SUFFICES ASSUME k + (n + 1) <= 57 PROVE ~w[k + (n + 1)].ok
      OBVIOUS
    <3>1. PICK j \in 1 .. 57 : j = k + (n + 1)
      OBVIOUS
    <3>2. ~w[j - 1].ok /\ w[j - 1] \in DbState
      BY <1>1, <2>2, <3>1
    <3>3. ~Migrate(w[j - 1], Does(dir, At(dir, j))).ok
      BY <3>2, AtAll, OneMigration
    <3> QED
      BY <1>1, <3>1, <3>2, <3>3
  <2>3. 57 - k \in T
    <3> HIDE DEF T
    <3> QED
      BY <2>1, <2>2, NatInd
  <2> QED
    BY <1>1, <2>3
<1>3. ASSUME NEW n \in 1 .. 57 PROVE Does1(dir, S, n, w[n - 1], w[n])
  <2>1. n - 1 \in 0 .. 57 /\ n \in 0 .. 57
    OBVIOUS
  <2>2. w[n - 1] \in DbState /\ w[n].ok
    BY <1>1, <1>2, <2>1
  <2>3. CASE At(dir, n).id \notin S
    BY <1>1, <2>3 DEF Does1
  <2>4. CASE At(dir, n).id \in S
    <3> DEFINE m == Does(dir, At(dir, n))
    <3>1. w[n] = Migrate(w[n - 1], m)
      BY <1>1, <2>4
    <3>2. Makes(m) \subseteq SchemaObjects
      BY AtAll
    <3> HIDE DEF m
    <3>3. \/ m.unless # {} /\ w[n].schema = w[n - 1].schema
          \/ Accepts(w[n - 1], m) /\ w[n].schema = After(w[n - 1], m)
      BY <2>2, <3>1, <3>2, OneMigration
    <3> QED
      BY <2>4, <3>3 DEF Does1, m
  <2> QED
    BY <2>3, <2>4
<1> QED
  BY <1>1, <1>3 DEF GoodRun

(* What a migration takes away.                                            *)
Cuts(m) == m.drops \cup m.dropsIf

LEMMA PairsAreNotSingle == \A t, a, b : <<t>> # <<a, b>>
<1> SUFFICES ASSUME NEW t, NEW a, NEW b, <<t>> = <<a, b>> PROVE FALSE
  OBVIOUS
<1>1. Len(<<t>>) = 1 /\ Len(<<a, b>>) = 2
  OBVIOUS
<1> QED
  BY <1>1

(* What the shapes of migrations make and cut.                             *)
LEMMA Shapes ==
    /\ Makes(NoChange) = {} /\ Cuts(NoChange) = {}
    /\ Makes(Raises) = {} /\ Cuts(Raises) = {}
    /\ \A o :
          /\ Makes(Creates(o)) = o /\ Cuts(Creates(o)) = {}
          /\ Makes(Drops(o)) = {} /\ Cuts(Drops(o)) = o
          /\ Makes(DropsIf(o)) = {} /\ Cuts(DropsIf(o)) = o /\ DropsIf(o).unless = {}
BY DEF Makes, Cuts, NoChange, Raises, Creates, Drops, DropsIf

LEMMA SwapShape ==
    ASSUME NEW o, NEW n
    PROVE  Makes(Swaps(o, n)) = n /\ Cuts(Swaps(o, n)) = o
BY DEF Makes, Cuts, NoChange, Swaps

LEMMA DropShape ==
    ASSUME NEW o
    PROVE  /\ Drops(o) = [creates |-> {}, createsIf |-> {}, drops |-> o, dropsIf |-> {},
                          needs |-> {}, refusedBy |-> {}, notNull |-> {}, unless |-> {}]
           /\ DropsIf(o) = [creates |-> {}, createsIf |-> {}, drops |-> {}, dropsIf |-> o,
                            needs |-> {}, refusedBy |-> {}, notNull |-> {}, unless |-> {}]
BY DEF NoChange, DropsIf, Drops

LEMMA RaisesRaises == \A b : ~Accepts(b, Raises)
<1>1. \A b : Accepts(b, Raises) => Raises.needs \subseteq b.schema /\ Raises.refusedBy \cap b.schema = {}
  BY DEF Accepts
<1>2. <<"any">> \in Raises.needs /\ <<"any">> \in Raises.refusedBy
  BY DEF Raises, NoChange, Tables
<1> QED
  BY <1>1, <1>2

-----------------------------------------------------------------------------
(* The revisions applied and the schema: types, and the closure under the  *)
(* graph, of every command.                                                *)
LEMMA DbIsTyped ==
    ASSUME MigrationTypeOK
    PROVE  Db(schema, populated) \in DbState
BY DEF MigrationTypeOK, Db, DbState

LEMMA RunEndsTyped ==
    ASSUME NEW dir \in {"up", "down"}, NEW S, NEW d \in DbState
    PROVE  RunOf(dir, d, S).schema \subseteq SchemaObjects
<1>1. PICK w : Passes(dir, d, S, w)
  BY RunIsTyped
<1>2. RunOf(dir, d, S) = w[57] /\ w[57] \in DbState
  BY <1>1 DEF Passes
<1> QED
  BY <1>2 DEF DbState

LEMMA UpgradeTyped ==
    ASSUME MigrationTypeOK, NEW g \in Revisions, Upgrade(g)
    PROVE  MigrationTypeOK'
<1>1. applied' = applied \cup Ancestors[g]
  BY DEF Upgrade, Missing
<1>2. applied' \subseteq Revisions /\ \A r \in applied' : Ancestors[r] \subseteq applied'
  BY <1>1, AncestorsOfAncestors DEF MigrationTypeOK
<1>3. schema' \subseteq SchemaObjects
  <2>1. schema' = RunOf("up", Db(schema, populated), Missing(g)).schema
    BY DEF Upgrade, UpgradeOf, RunOf
  <2> QED
    BY <2>1, DbIsTyped, RunEndsTyped
<1> QED
  BY <1>2, <1>3 DEF MigrationTypeOK, Upgrade

LEMMA DowngradeTyped ==
    ASSUME MigrationTypeOK, NEW g \in Revisions, Downgrade(g)
    PROVE  MigrationTypeOK'
<1>1. applied' = {r \in applied : g \notin Ancestors[r]}
  BY DEF Downgrade, Undone
<1>2. ASSUME NEW r \in applied' PROVE Ancestors[r] \subseteq applied'
  <2>1. r \in applied /\ g \notin Ancestors[r] /\ r \in Revisions
    BY <1>1, <1>2 DEF MigrationTypeOK
  <2>2. \A a \in Ancestors[r] : a \in applied /\ Ancestors[a] \subseteq Ancestors[r]
    BY <2>1, AncestorsOfAncestors DEF MigrationTypeOK
  <2> QED
    BY <1>1, <2>1, <2>2
<1>3. schema' \subseteq SchemaObjects
  <2>1. schema' = RunOf("down", Db(schema, populated), Undone(g)).schema
    BY DEF Downgrade, DowngradeOf, RunOf
  <2> QED
    BY <2>1, DbIsTyped, RunEndsTyped
<1>4. populated' \in BOOLEAN
  BY DEF Downgrade, MigrationTypeOK
<1> QED
  BY <1>1, <1>2, <1>3, <1>4 DEF MigrationTypeOK

LEMMA MigrationTyped ==
    /\ MigrationInit => MigrationTypeOK
    /\ MigrationTypeOK /\ [MigrationNext]_migrationVars => MigrationTypeOK'
<1>1. MigrationInit => MigrationTypeOK
  BY DEF MigrationInit, MigrationTypeOK
<1>2. ASSUME MigrationTypeOK, [MigrationNext]_migrationVars PROVE MigrationTypeOK'
  <2>1. ASSUME NEW g \in Goals, Upgrade(g) \/ Downgrade(g) PROVE MigrationTypeOK'
    BY <1>2, <2>1, UpgradeTyped, DowngradeTyped, MigrationsAssumption
  <2>2. CASE Populate
    BY <1>2, <2>2 DEF Populate, MigrationTypeOK
  <2>3. CASE StampSchema
    <3>1. \A r \in Revisions : Ancestors[r] \subseteq Revisions
      BY AncestorsOfAncestors
    <3>2. Declared \subseteq SchemaObjects
      BY DEF SchemaObjects
    <3> QED
      BY <1>2, <2>3, <3>1, <3>2 DEF StampSchema, MigrationTypeOK
  <2>4. CASE UNCHANGED migrationVars
    BY <1>2, <2>4 DEF migrationVars, MigrationTypeOK
  <2> QED
    BY <1>2, <2>1, <2>2, <2>3, <2>4 DEF MigrationNext
<1> QED
  BY <1>1, <1>2

(* Whatever revisions commands name, and in whatever order: the revisions  *)
(* applied are always closed under the graph's edges, and the schema holds *)
(* nothing that no revision and no model makes (alembic/env.py).           *)
THEOREM CommandsFollowTheGraph == MigrationSpec => []MigrationTypeOK
BY MigrationTyped, PTL DEF MigrationSpec

-----------------------------------------------------------------------------
(* The schema follows from the revisions applied.  Two revisions keep one  *)
(* from saying it of all: 52b19ee00eaf replays eight others if they have   *)
(* not run, and its downgrade drops their tables in any case; db67d696b6ab *)
(* adds keys to the tables of a revision it is not built on, which goes    *)
(* without it.  What follows is of databases without them, and so without  *)
(* the eighteen revisions that are built on them.                          *)
Culprits == {"52b19ee00eaf", "db67d696b6ab"}

(* The places of revisions in the chain.                                   *)
Places(T) == {i \in 1 .. 57 : Chain[i].id \in T}
Neat == (1 .. 19) \cup (21 .. 23) \cup (27 .. 30) \cup (33 .. 43)

LEMMA Ids ==
    /\ Chain[1].id = "37fa45f0f9c4" /\ Chain[2].id = "b2c3dce4b714"
    /\ Chain[3].id = "3ea69d66514e" /\ Chain[4].id = "9d8e7f6a5b3c"
    /\ Chain[5].id = "c94d682d4b03" /\ Chain[6].id = "6e3746e84cc8"
    /\ Chain[7].id = "82ecf4a34e34" /\ Chain[8].id = "8b65fe079d37"
    /\ Chain[9].id = "ad83ab21d36d" /\ Chain[10].id = "eea413253aa1"
    /\ Chain[11].id = "f0c74d3d54f0" /\ Chain[12].id = "7770543dc37d"
    /\ Chain[13].id = "add_agent_tasks_001" /\ Chain[14].id = "195a79d95b41"
    /\ Chain[15].id = "3c19d099a7a9" /\ Chain[16].id = "3d9f46ff44b8"
    /\ Chain[17].id = "4001ca3d5d6f" /\ Chain[18].id = "a52e1317da90"
    /\ Chain[19].id = "e646948c549a" /\ Chain[20].id = "52b19ee00eaf"
    /\ Chain[21].id = "185055a0d4f0" /\ Chain[22].id = "e7f6a5b3c12d"
    /\ Chain[23].id = "5d575a161b5d" /\ Chain[24].id = "merge_nt_662"
    /\ Chain[25].id = "663_notif_prefs" /\ Chain[26].id = "a785fd51c79e"
    /\ Chain[27].id = "6042653c9d73" /\ Chain[28].id = "e8ad92ca62b3"
    /\ Chain[29].id = "a1b2c3d4e5f6" /\ Chain[30].id = "7b1a2c3d4e5f"
    /\ Chain[31].id = "db67d696b6ab"
    /\ Chain[32].id = "0596add_notification_analytics_tracking"
    /\ Chain[33].id = "9aad50c58f54" /\ Chain[34].id = "63274a8b98b3c"
    /\ Chain[35].id = "addcp001" /\ Chain[36].id = "127938d15761"
    /\ Chain[37].id = "a0000012" /\ Chain[38].id = "a2a592eec292"
    /\ Chain[39].id = "afa7c3f333bd" /\ Chain[40].id = "c94d682d4b04"
    /\ Chain[41].id = "db63fcd03ab9" /\ Chain[42].id = "e1f2a3b4c5d6"
    /\ Chain[43].id = "f18b406b982a" /\ Chain[44].id = "merge_heads_third"
    /\ Chain[45].id = "9e805b1493a6" /\ Chain[46].id = "fcf9ff098f62447a"
    /\ Chain[47].id = "a940f167ad16" /\ Chain[48].id = "merge_heads_four"
    /\ Chain[49].id = "merge_heads_63274_addcp001"
    /\ Chain[50].id = "merge_all_heads_final"
    /\ Chain[51].id = "add_ck_ai_messages_role" /\ Chain[52].id = "a0000013"
    /\ Chain[53].id = "045507a9a536" /\ Chain[54].id = "a1c2d3e4f5a7"
    /\ Chain[55].id = "a1c2d3e4f5a8" /\ Chain[56].id = "b3c4d5e6f708"
    /\ Chain[57].id = "c4d5e6f70819"
BY ChainAt, Edges, SMTT(60)

(* The ids are different, so a revision has one place.                     *)
PlaceOf(r) ==
    IF r = "37fa45f0f9c4" THEN 1 ELSE IF r = "b2c3dce4b714" THEN 2 ELSE
    IF r = "3ea69d66514e" THEN 3 ELSE IF r = "9d8e7f6a5b3c" THEN 4 ELSE
    IF r = "c94d682d4b03" THEN 5 ELSE IF r = "6e3746e84cc8" THEN 6 ELSE
    IF r = "82ecf4a34e34" THEN 7 ELSE IF r = "8b65fe079d37" THEN 8 ELSE
    IF r = "ad83ab21d36d" THEN 9 ELSE IF r = "eea413253aa1" THEN 10 ELSE
    IF r = "f0c74d3d54f0" THEN 11 ELSE IF r = "7770543dc37d" THEN 12 ELSE
    IF r = "add_agent_tasks_001" THEN 13 ELSE IF r = "195a79d95b41" THEN 14 ELSE
    IF r = "3c19d099a7a9" THEN 15 ELSE IF r = "3d9f46ff44b8" THEN 16 ELSE
    IF r = "4001ca3d5d6f" THEN 17 ELSE IF r = "a52e1317da90" THEN 18 ELSE
    IF r = "e646948c549a" THEN 19 ELSE IF r = "52b19ee00eaf" THEN 20 ELSE
    IF r = "185055a0d4f0" THEN 21 ELSE IF r = "e7f6a5b3c12d" THEN 22 ELSE
    IF r = "5d575a161b5d" THEN 23 ELSE IF r = "merge_nt_662" THEN 24 ELSE
    IF r = "663_notif_prefs" THEN 25 ELSE IF r = "a785fd51c79e" THEN 26 ELSE
    IF r = "6042653c9d73" THEN 27 ELSE IF r = "e8ad92ca62b3" THEN 28 ELSE
    IF r = "a1b2c3d4e5f6" THEN 29 ELSE IF r = "7b1a2c3d4e5f" THEN 30 ELSE
    IF r = "db67d696b6ab" THEN 31 ELSE
    IF r = "0596add_notification_analytics_tracking" THEN 32 ELSE
    IF r = "9aad50c58f54" THEN 33 ELSE IF r = "63274a8b98b3c" THEN 34 ELSE
    IF r = "addcp001" THEN 35 ELSE IF r = "127938d15761" THEN 36 ELSE
    IF r = "a0000012" THEN 37 ELSE IF r = "a2a592eec292" THEN 38 ELSE
    IF r = "afa7c3f333bd" THEN 39 ELSE IF r = "c94d682d4b04" THEN 40 ELSE
    IF r = "db63fcd03ab9" THEN 41 ELSE IF r = "e1f2a3b4c5d6" THEN 42 ELSE
    IF r = "f18b406b982a" THEN 43 ELSE IF r = "merge_heads_third" THEN 44 ELSE
    IF r = "9e805b1493a6" THEN 45 ELSE IF r = "fcf9ff098f62447a" THEN 46 ELSE
    IF r = "a940f167ad16" THEN 47 ELSE IF r = "merge_heads_four" THEN 48 ELSE
    IF r = "merge_heads_63274_addcp001" THEN 49 ELSE
    IF r = "merge_all_heads_final" THEN 50 ELSE
    IF r = "add_ck_ai_messages_role" THEN 51 ELSE IF r = "a0000013" THEN 52 ELSE
    IF r = "045507a9a536" THEN 53 ELSE IF r = "a1c2d3e4f5a7" THEN 54 ELSE
    IF r = "a1c2d3e4f5a8" THEN 55 ELSE IF r = "b3c4d5e6f708" THEN 56 ELSE 57

LEMMA IdsPlaced == ASSUME NEW i \in 1 .. 57 PROVE PlaceOf(Chain[i].id) = i
BY Ids, SMTT(120) DEF PlaceOf

LEMMA IdsDiffer ==
    ASSUME NEW i \in 1 .. 57, NEW j \in 1 .. 57, Chain[i].id = Chain[j].id
    PROVE  i = j
BY IdsPlaced

LEMMA AncestorsComeFirst ==
    ASSUME NEW i \in 1 .. 57, NEW j \in 1 .. 57, Chain[j].id \in Ancestors[Chain[i].id]
    PROVE  j <= i
<1> DEFINE X == {Chain[m].id : m \in 1 .. i}
<1>1. Chain[i].id \in X /\ Chain[i].id \in Revisions
  <2>1. i \in 1 .. i
    OBVIOUS
  <2> QED
    BY <2>1, AllRevisions, Zenon
<1>2. ASSUME NEW n \in 1 .. 57, Chain[n].id \in X, NEW r \in Chain[n].from PROVE r \in X
  <2>1. PICK m \in 1 .. i : Chain[n].id = Chain[m].id
    BY <1>2
  <2>2. n <= i
    <3>1. m \in 1 .. 57
      OBVIOUS
    <3>2. n = m
      BY <2>1, <3>1, IdsDiffer, Zenon
    <3> QED
      BY <3>2
  <2>3. PICK p \in 1 .. 57 : r = Chain[p].id
    BY <1>2, AllRevisions, Zenon
  <2>4. p < n
    BY <1>2, <2>3, ParentsComeFirst
  <2>5. p \in 1 .. i
    BY <2>2, <2>4
  <2> QED
    BY <2>3, <2>5
<1>3. Closed(X)
  BY <1>2 DEF Closed
<1>4. Chain[j].id \in X
  <2> HIDE DEF X
  <2> QED
    BY <1>1, <1>3, AncestorsAreLeast
<1>5. PICK m \in 1 .. i : Chain[j].id = Chain[m].id
  BY <1>4
<1>6. m \in 1 .. 57
  OBVIOUS
<1>7. j = m
  BY <1>5, <1>6, IdsDiffer, Zenon
<1> QED
  BY <1>7

(* A revision that is not neat is built on a culprit.                     *)
Child(i, j) == Chain[j].id \in Chain[i].from

LEMMA ChildEdges ==
    /\ Chain[20].id \in Culprits /\ Chain[31].id \in Culprits
    /\ Child(24, 20) /\ Child(25, 24)
    /\ Child(26, 20) /\ Child(32, 31)
    /\ Child(44, 31) /\ Child(45, 44)
    /\ Child(46, 44) /\ Child(47, 46)
    /\ Child(48, 45) /\ Child(49, 31)
    /\ Child(50, 47) /\ Child(51, 50)
    /\ Child(52, 51) /\ Child(53, 49)
    /\ Child(54, 53) /\ Child(55, 54)
    /\ Child(56, 55) /\ Child(57, 56)
BY ChainAt, Edges, SMTT(60) DEF Culprits, Child

Swayed(i) == Ancestors[Chain[i].id] \cap Culprits # {}

LEMMA SwayedChildren ==
    ASSUME NEW i \in 1 .. 57, NEW j \in 1 .. 57, Child(i, j), Swayed(j)
    PROVE  Swayed(i)
<1>1. Chain[i].id \in Revisions
  BY AllRevisions, Zenon
<1>2. Chain[j].id \in Ancestors[Chain[i].id]
  BY <1>1, AncestorsAreClosed DEF Closed, Child
<1> QED
  BY <1>1, <1>2, AncestorsOfAncestors DEF Swayed

LEMMA OnlyNeatUnswayed == \A i \in 1 .. 57 : i \in Neat \/ Swayed(i)
<1>1. Swayed(20) /\ Swayed(31)
  <2>1. ASSUME NEW i \in 1 .. 57, Chain[i].id \in Culprits PROVE Swayed(i)
    BY <2>1, AllRevisions, AncestorsOfAncestors DEF Swayed
  <2>2. 20 \in 1 .. 57 /\ 31 \in 1 .. 57
    OBVIOUS
  <2> QED
    BY <2>1, <2>2, ChildEdges, Zenon
<1>0. \A i, j \in 1 .. 57 : Child(i, j) /\ Swayed(j) => Swayed(i)
  BY SwayedChildren, SMTT(40)
<1>2. Swayed(24) /\ Swayed(26) /\ Swayed(32) /\ Swayed(44) /\ Swayed(49)
  BY <1>0, <1>1, ChildEdges, SMTT(40)
<1>3. Swayed(25) /\ Swayed(45) /\ Swayed(46) /\ Swayed(53)
  BY <1>0, <1>2, ChildEdges, SMTT(40)
<1>4. Swayed(47) /\ Swayed(48) /\ Swayed(54)
  BY <1>0, <1>3, ChildEdges, SMTT(40)
<1>5. Swayed(50) /\ Swayed(55)
  BY <1>0, <1>4, ChildEdges, SMTT(40)
<1>6. Swayed(51) /\ Swayed(56)
  BY <1>0, <1>5, ChildEdges, SMTT(40)
<1>7. Swayed(52) /\ Swayed(57)
  BY <1>0, <1>6, ChildEdges, SMTT(40)
<1>8. \A i \in 1 .. 57 :
          \/ i \in Neat \/ i \in {20, 31} \/ i \in {24, 26, 32, 44, 49}
          \/ i \in {25, 45, 46, 53} \/ i \in {47, 48, 54} \/ i \in {50, 55}
          \/ i \in {51, 56} \/ i \in {52, 57}
  BY SMTT(60) DEF Neat
<1> QED
  BY <1>1, <1>2, <1>3, <1>4, <1>5, <1>6, <1>7, <1>8

Descends(i, j) == Chain[j].id \in Ancestors[Chain[i].id]

LEMMA Descent ==
    /\ \A i \in 1 .. 57 : Descends(i, i)
    /\ \A i, j \in 1 .. 57 : Child(i, j) => Descends(i, j)
    /\ \A i, j, k \in 1 .. 57 : Descends(i, j) /\ Descends(j, k) => Descends(i, k)
<1>1. \A i \in 1 .. 57 : Chain[i].id \in Revisions
  BY AllRevisions, Zenon
<1>2. ASSUME NEW i \in 1 .. 57, NEW j \in 1 .. 57, Child(i, j) PROVE Descends(i, j)
  BY <1>1, <1>2, AncestorsAreClosed DEF Closed, Child, Descends
<1>3. ASSUME NEW i \in 1 .. 57, NEW j \in 1 .. 57, NEW k \in 1 .. 57,
             Descends(i, j), Descends(j, k)
      PROVE  Descends(i, k)
  BY <1>1, <1>3, AncestorsOfAncestors DEF Descends
<1>4. \A i \in 1 .. 57 : Descends(i, i)
  BY <1>1, AncestorsOfAncestors DEF Descends
<1> QED
  BY <1>2, <1>3, <1>4, Zenon

LEMMA FirstEdges ==
    /\ Child(3, 2) /\ Child(4, 3) /\ Child(5, 3)
    /\ Child(7, 4) /\ Child(8, 4) /\ Child(9, 4) /\ Child(10, 4)
    /\ Child(16, 8) /\ Child(17, 7) /\ Child(22, 7) /\ Child(27, 9) /\ Child(28, 10)
    /\ Child(39, 5) /\ Child(14, 5)
BY ChainAt, Edges, SMTT(60) DEF Child, AuthAndAi

Inherits(i, j) == \A k \in 1 .. 57 : Descends(j, k) => Descends(i, k)

(* The makers of the tables that later revisions add parts to.             *)
LEMMA FirstOnes ==
    /\ Descends(16, 4) /\ Descends(14, 3)
    /\ \A i \in {16, 17, 22, 27, 28, 39} : Descends(i, 2)
<1>1. \A i, j \in 1 .. 57 : Child(i, j) => Inherits(i, j)
  BY Descent, Zenon DEF Inherits
<1>2. \A i, j \in 1 .. 57 : Child(i, j) => Descends(i, j)
  BY Descent, Zenon
<1>3. Descends(3, 2)
  BY <1>2, FirstEdges
<1>4. Descends(5, 3)
  BY <1>2, FirstEdges
<1>5. Descends(8, 4)
  BY <1>2, FirstEdges
<1>6. Descends(14, 3)
  <2>1. Inherits(14, 5)
    BY <1>1, FirstEdges
  <2> QED
    BY <2>1, <1>4 DEF Inherits
<1>7. Descends(16, 4)
  <2>1. Inherits(16, 8)
    BY <1>1, FirstEdges
  <2> QED
    BY <2>1, <1>5 DEF Inherits
<1>8. Descends(4, 2)
  <2>1. Inherits(4, 3)
    BY <1>1, FirstEdges
  <2> QED
    BY <2>1, <1>3 DEF Inherits
<1>9. Descends(5, 2)
  <2>1. Inherits(5, 3)
    BY <1>1, FirstEdges
  <2> QED
    BY <2>1, <1>3 DEF Inherits
<1>10. Descends(7, 2)
  <2>1. Inherits(7, 4)
    BY <1>1, FirstEdges
  <2> QED
    BY <2>1, <1>8 DEF Inherits
<1>11. Descends(8, 2)
  <2>1. Inherits(8, 4)
    BY <1>1, FirstEdges
  <2> QED
    BY <2>1, <1>8 DEF Inherits
<1>12. Descends(9, 2)
  <2>1. Inherits(9, 4)
    BY <1>1, FirstEdges
  <2> QED
    BY <2>1, <1>8 DEF Inherits
<1>13. Descends(10, 2)
  <2>1. Inherits(10, 4)
    BY <1>1, FirstEdges
  <2> QED
    BY <2>1, <1>8 DEF Inherits
<1>14. Descends(39, 2)
  <2>1. Inherits(39, 5)
    BY <1>1, FirstEdges
  <2> QED
    BY <2>1, <1>9 DEF Inherits
<1>15. Descends(16, 2)
  <2>1. Inherits(16, 8)
    BY <1>1, FirstEdges
  <2> QED
    BY <2>1, <1>11 DEF Inherits
<1>16. Descends(17, 2)
  <2>1. Inherits(17, 7)
    BY <1>1, FirstEdges
  <2> QED
    BY <2>1, <1>10 DEF Inherits
<1>17. Descends(22, 2)
  <2>1. Inherits(22, 7)
    BY <1>1, FirstEdges
  <2> QED
    BY <2>1, <1>10 DEF Inherits
<1>18. Descends(27, 2)
  <2>1. Inherits(27, 9)
    BY <1>1, FirstEdges
  <2> QED
    BY <2>1, <1>12 DEF Inherits
<1>19. Descends(28, 2)
  <2>1. Inherits(28, 10)
    BY <1>1, FirstEdges
  <2> QED
    BY <2>1, <1>13 DEF Inherits
<1> QED
  BY <1>7, <1>6, <1>15, <1>16, <1>17, <1>18, <1>19, <1>14

(* What a neat revision does: it adds objects, and its downgrade drops the *)
(* same or fails.  Two are not like that: e7f6a5b3c12d has other columns   *)
(* take the place of old ones, and 9aad50c58f54 never runs.                *)
Old == <<"notifications", "old columns">>
Odd == {Old}

Additive(r) ==
    /\ Cuts(r.up) = {} /\ r.up.createsIf = {}
    /\ r.up.needs = {} /\ r.up.refusedBy = {} /\ r.up.unless = {}
    /\ \/ Makes(r.down) = {} /\ Cuts(r.down) = Makes(r.up) /\ r.down.unless = {}
       \/ r.down = Raises

LEMMA OddOnes ==
    /\ OldColumns = {Old} /\ Raises.unless = {}
    /\ \A o : TableOf(o) # Old
    /\ \A S : Tables(S) \cap Odd = {}
    /\ \A S : \A o \in Tables(S) : TableOf(o) = o
    /\ \A t, P : /\ "old columns" \notin P \/ t # "notifications" => Parts(t, P) \cap Odd = {}
                 /\ \A o \in Parts(t, P) : TableOf(o) = <<t>>
<1>1. OldColumns = {Old} /\ Raises.unless = {}
  BY DEF OldColumns, Old, Parts, Raises, NoChange
<1>2. \A o : TableOf(o) # Old
  BY PairsAreNotSingle DEF TableOf, Old
<1>3. ASSUME NEW S PROVE Tables(S) \cap Odd = {}
  <2>1. ASSUME NEW t \in S PROVE <<t>> # Old
    BY PairsAreNotSingle DEF Old
  <2> QED
    BY <2>1 DEF Tables, Odd
<1>4. ASSUME NEW S, NEW o \in Tables(S) PROVE TableOf(o) = o
  <2>1. PICK t \in S : o = <<t>>
    BY DEF Tables
  <2> QED
    BY <2>1, <<t>>[1] = t DEF TableOf
<1>5. ASSUME NEW t, NEW P PROVE \A o \in Parts(t, P) : TableOf(o) = <<t>>
  <2>1. ASSUME NEW p \in P PROVE TableOf(<<t, p>>) = <<t>>
    BY <<t, p>>[1] = t DEF TableOf
  <2> QED
    BY <2>1 DEF Parts
<1>6. ASSUME NEW t, NEW P, "old columns" \notin P \/ t # "notifications"
      PROVE  Parts(t, P) \cap Odd = {}
  <2>1. ASSUME NEW p \in P PROVE <<t, p>> # Old
    BY <1>6, <<t, p>>[1] = t, <<t, p>>[2] = p,
       Old[1] = "notifications", Old[2] = "old columns" DEF Old
  <2> QED
    BY <2>1 DEF Parts, Odd
<1> QED
  BY <1>1, <1>2, <1>3, <1>4, <1>5, <1>6, Zenon

LEMMA AdditiveShapes ==
    /\ \A id, from, objs :
          /\ Makes(Adds(id, from, objs).up) = objs
          /\ Adds(id, from, objs).up.creates = objs
          /\ Additive(Adds(id, from, objs))
    /\ \A id, from :
          /\ Makes(Joins(id, from).up) = {}
          /\ Additive(Joins(id, from))
BY DEF Adds, Joins, Revision, Creates, Drops, NoChange, Makes, Cuts, Additive

(* A revision that adds what is none of the odd objects, and one whose     *)
(* parts are all of tables it adds too.                                    *)
Even(r) == Additive(r) /\ Old \notin Makes(r.up)
Whole(r) == \A o \in Makes(r.up) : TableOf(o) \in r.up.creates

LEMMA EvenAdds ==
    ASSUME NEW id, NEW from, NEW objs, objs \cap Odd = {}
    PROVE  /\ Even(Adds(id, from, objs)) /\ Makes(Adds(id, from, objs).up) = objs
           /\ (\A o \in objs : TableOf(o) \in objs) => Whole(Adds(id, from, objs))
BY AdditiveShapes DEF Even, Whole, Odd

LEMMA EvenTables ==
    ASSUME NEW id, NEW from, NEW S
    PROVE  Even(Adds(id, from, Tables(S))) /\ Whole(Adds(id, from, Tables(S)))
<1>1. Tables(S) \cap Odd = {} /\ \A o \in Tables(S) : TableOf(o) \in Tables(S)
  BY OddOnes
<1> QED
  BY <1>1, EvenAdds

LEMMA EvenParts ==
    ASSUME NEW id, NEW from, NEW t, NEW P, t # "notifications",
           NEW r, r = Adds(id, from, Parts(t, P))
    PROVE  /\ Even(r)
           /\ \A o \in Makes(r.up) : TableOf(o) = <<t>>
<1>1. Parts(t, P) \cap Odd = {} /\ \A o \in Parts(t, P) : TableOf(o) = <<t>>
  BY OddOnes
<1> QED
  BY <1>1, EvenAdds

LEMMA EvenBoth ==
    ASSUME NEW id, NEW from, NEW t, NEW P, t # "notifications"
    PROVE  /\ Even(Adds(id, from, Tables({t}) \cup Parts(t, P)))
           /\ Whole(Adds(id, from, Tables({t}) \cup Parts(t, P)))
<1> DEFINE objs == Tables({t}) \cup Parts(t, P)
<1>1. objs \cap Odd = {}
  BY OddOnes
<1>2. \A o \in objs : TableOf(o) \in objs
  <2>1. <<t>> \in objs
    BY DEF Tables
  <2>2. \A o \in objs : TableOf(o) \in objs \/ TableOf(o) = <<t>>
    BY OddOnes
  <2> QED
    BY <2>1, <2>2
<1> HIDE DEF objs
<1>3. Even(Adds(id, from, objs)) /\ Whole(Adds(id, from, objs))
  BY <1>1, <1>2, EvenAdds
<1> QED
  BY <1>3 DEF objs

LEMMA EvenJoins ==
    ASSUME NEW id, NEW from
    PROVE  Even(Joins(id, from)) /\ Whole(Joins(id, from))
BY AdditiveShapes DEF Even, Whole

LEMMA EvenMerges ==
    \A r \in {Initial, MergeHeads6e, MergeHeads82, MergeHeads8b, MergeHeadsAd, MergeHeadsEe,
              MergeHeadsF0, AddOpportunityModel} : Even(r) /\ Whole(r)
BY EvenJoins DEF Initial, MergeHeads6e, MergeHeads82, MergeHeads8b,
   MergeHeadsAd, MergeHeadsEe, MergeHeadsF0, AddOpportunityModel

LEMMA EvenTableAdds ==
    \A r \in {AddAuthTables, AddAiConversations, AddRbacSchema, AddRecommendations,
              AddImportExportJobs, CreateAutomation, AddEngagementEvents, CreateRoutingRules,
              AddWebhooks, AddChurnPredictions, AddSmartNotifications, AddTicketCategorization,
              AddChatSessions, AddReportDefinitions, AddConversations,
              CreateOpportunityActivities, CreateCustomerEnrichments} :
        Even(r) /\ Whole(r)
<1>1. \A r \in {AddAuthTables, AddAiConversations, AddRbacSchema, AddRecommendations,
               AddImportExportJobs, CreateAutomation} :
          Even(r) /\ Whole(r)
  BY EvenTables, ZenonT(60) DEF AddAuthTables, AddAiConversations, AddRbacSchema,
     AddRecommendations, AddImportExportJobs, CreateAutomation, AuthTables, RbacTables,
     JobTables, AutomationTables
<1>2. \A r \in {AddEngagementEvents, CreateRoutingRules, AddWebhooks, AddChurnPredictions,
               AddSmartNotifications, AddTicketCategorization} :
          Even(r) /\ Whole(r)
  BY EvenTables, ZenonT(60) DEF AddEngagementEvents, CreateRoutingRules, AddWebhooks,
     AddChurnPredictions, AddSmartNotifications, AddTicketCategorization, WebhookTables
<1>3. \A r \in {AddChatSessions, AddReportDefinitions, AddConversations,
               CreateOpportunityActivities, CreateCustomerEnrichments} :
          Even(r) /\ Whole(r)
  BY EvenTables, ZenonT(60) DEF AddChatSessions, AddReportDefinitions, AddConversations,
     CreateOpportunityActivities, CreateCustomerEnrichments
<1> QED
  BY <1>1, <1>2, <1>3

LEMMA EvenOthers ==
    /\ \A r \in {SyncModels, AddAgentTasks, AddWorkflowNodes, AddNotificationTemplates} :
          Even(r) /\ Whole(r)
    /\ \A r \in {CustomersSchemaDrift, AddLeadScore} :
          Even(r) /\ \A o \in Makes(r.up) : TableOf(o) = <<"customers">>
    /\ Even(AddSentAt) /\ \A o \in Makes(AddSentAt.up) : TableOf(o) = <<"campaigns">>
    /\ Even(AddCampaignTables)
    /\ \A o \in Makes(AddCampaignTables.up) :
          TableOf(o) \in AddCampaignTables.up.creates \/ TableOf(o) = <<"campaign_events">>
<1>1. Even(SyncModels) /\ Whole(SyncModels)
  <2> DEFINE objs == RbacTables \cup Tables({"api_clients", "report_schedules"})
  <2>1. objs \cap Odd = {} /\ \A o \in objs : TableOf(o) = o
    BY OddOnes DEF RbacTables
  <2> HIDE DEF objs
  <2>2. SyncModels = Adds("3ea69d66514e", {"b2c3dce4b714"}, objs)
    BY DEF SyncModels, objs
  <2> QED
    BY <2>1, <2>2, EvenAdds
<1>2. Even(AddAgentTasks) /\ Whole(AddAgentTasks)
  BY EvenBoth DEF AddAgentTasks
<1>3. Even(AddWorkflowNodes) /\ Whole(AddWorkflowNodes)
  BY EvenBoth DEF AddWorkflowNodes, NodePairIndex
<1>4. Even(AddNotificationTemplates) /\ Whole(AddNotificationTemplates)
  <2>1. /\ AddNotificationTemplates.up = Creates(Templates)
        /\ AddNotificationTemplates.down = [DropsIf(Templates) EXCEPT !.needs = Templates]
    BY DEF AddNotificationTemplates, Revision
  <2>2. /\ Makes(AddNotificationTemplates.down) = {}
        /\ Cuts(AddNotificationTemplates.down) = Templates
        /\ AddNotificationTemplates.down.unless = {}
    BY <2>1, DropShape DEF Makes, Cuts
  <2>3. Templates \cap Odd = {} /\ \A o \in Templates : TableOf(o) = o
    BY OddOnes DEF Templates
  <2>4. /\ Cuts(Creates(Templates)) = {} /\ Makes(Creates(Templates)) = Templates
        /\ Creates(Templates).createsIf = {} /\ Creates(Templates).needs = {}
        /\ Creates(Templates).refusedBy = {} /\ Creates(Templates).unless = {}
        /\ Creates(Templates).creates = Templates
    BY DEF Creates, NoChange, Makes, Cuts
  <2> QED
    BY <2>1, <2>2, <2>3, <2>4 DEF Even, Whole, Additive, Odd
<1>5. ASSUME NEW r \in {CustomersSchemaDrift, AddLeadScore}
      PROVE  Even(r) /\ \A o \in Makes(r.up) : TableOf(o) = <<"customers">>
  <2>1. /\ CustomersSchemaDrift = Adds("4001ca3d5d6f", {"82ecf4a34e34"},
              Parts("customers", {"assigned_at", "recycle_count", "recycle_history"}))
        /\ AddLeadScore = Adds("e8ad92ca62b3", {"eea413253aa1"},
              Parts("customers", {"score columns"}))
    BY DEF CustomersSchemaDrift, AddLeadScore, LeadColumns
  <2> QED
    BY <2>1, EvenParts, "customers" # "notifications"
<1>6. Even(AddSentAt) /\ \A o \in Makes(AddSentAt.up) : TableOf(o) = <<"campaigns">>
  BY EvenParts DEF AddSentAt, SentAt
<1>7. Even(AddCampaignTables)
      /\ \A o \in Makes(AddCampaignTables.up) :
          TableOf(o) \in AddCampaignTables.up.creates \/ TableOf(o) = <<"campaign_events">>
  <2> DEFINE objs == Tables({"campaign_triggers"})
                     \cup Parts("campaign_events", {"ix_tenant_id", "ix_customer_id"})
  <2>1. /\ objs \cap Odd = {}
        /\ \A o \in objs : TableOf(o) \in objs \/ TableOf(o) = <<"campaign_events">>
    BY OddOnes
  <2>2. AddCampaignTables = Adds("6042653c9d73", {"ad83ab21d36d"}, objs)
    BY DEF AddCampaignTables
  <2> HIDE DEF objs
  <2>3. Even(AddCampaignTables)
    BY <2>1, <2>2, EvenAdds
  <2>4. Makes(AddCampaignTables.up) = objs /\ AddCampaignTables.up.creates = objs
    BY <2>2, AdditiveShapes
  <2> QED
    BY <2>1, <2>3, <2>4
<1> QED
  BY <1>1, <1>2, <1>3, <1>4, <1>5, <1>6, <1>7

LEMMA AllTables ==
    /\ Additive(CreateAllTables) /\ Whole(CreateAllTables) /\ Old \in Makes(CreateAllTables.up)
    /\ \A t \in {"customers", "notifications", "campaigns", "campaign_events"} :
          <<t>> \in Makes(CreateAllTables.up)
<1> DEFINE objs == CrmTables \cup AccountTables
<1>1. Makes(CreateAllTables.up) = objs /\ CreateAllTables.up.creates = objs
  BY AdditiveShapes DEF CreateAllTables
<1>2. \A t \in {"customers", "notifications", "campaigns", "campaign_events", "workflows"} :
          <<t>> \in objs
  BY DEF CrmTables, AccountTables, Tables
<1>4. Additive(CreateAllTables)
  BY AdditiveShapes DEF CreateAllTables
<1>5. Old \in objs
  BY OddOnes DEF CrmTables, OldColumns
<1>6. ASSUME NEW o \in objs PROVE TableOf(o) \in objs
  <2>1. CASE \E S : o \in Tables(S)
    BY <1>6, <2>1, OddOnes
  <2>2. CASE \E t \in {"notifications", "campaign_events", "workflows"} : \E P : o \in Parts(t, P)
    BY <1>2, <2>2, OddOnes
  <2> QED
    BY <1>6, <2>1, <2>2 DEF CrmTables, AccountTables
<1> QED
  BY <1>1, <1>2, <1>4, <1>5, <1>6 DEF Whole

LEMMA Dashboards ==
    /\ Even(AddDashboard)
    /\ \A o \in Makes(AddDashboard.up) :
          \/ TableOf(o) \in AddDashboard.up.creates
          \/ TableOf(o) \in Tables(AuthTables) \cup Tables({"customers"})
<1>1. /\ AddDashboard.up = [Creates(DashboardObjects \cup AuthIndexes) EXCEPT
                               !.notNull = LeadColumns]
      /\ AddDashboard.down = Raises
  BY DEF AddDashboard, Revision
<1>2. /\ Makes(AddDashboard.up) = DashboardObjects \cup AuthIndexes \cup LeadColumns
      /\ AddDashboard.up.creates = DashboardObjects \cup AuthIndexes
      /\ Cuts(AddDashboard.up) = {} /\ AddDashboard.up.createsIf = {}
      /\ AddDashboard.up.needs = {} /\ AddDashboard.up.refusedBy = {}
      /\ AddDashboard.up.unless = {}
  BY <1>1 DEF Creates, NoChange, Makes, Cuts
<1>3. DashboardObjects \cap Odd = {} /\ \A o \in DashboardObjects : TableOf(o) = o
  <2> DEFINE S == {"automation_rules", "automation_logs", "routing_rules", "chart_data"}
  <2>1. DashboardObjects = Tables(S)
    BY DEF DashboardObjects, AutomationTables, Tables
  <2> QED
    BY <2>1, OddOnes
<1>4. AuthIndexes \cap Odd = {} /\ \A o \in AuthIndexes : TableOf(o) \in Tables(AuthTables)
  <2>1. ASSUME NEW t \in AuthTables
        PROVE  /\ Parts(t, {"ix_tenant_id"}) \cap Odd = {}
               /\ \A o \in Parts(t, {"ix_tenant_id"}) : TableOf(o) \in Tables(AuthTables)
    <3>1. "old columns" \notin {"ix_tenant_id"} /\ <<t>> \in Tables(AuthTables)
      BY DEF Tables
    <3> QED
      BY <3>1, OddOnes
  <2> QED
    BY <2>1 DEF AuthIndexes
<1>5. LeadColumns \cap Odd = {} /\ \A o \in LeadColumns : TableOf(o) \in Tables({"customers"})
  <2>1. "customers" # "notifications" /\ <<"customers">> \in Tables({"customers"})
    BY DEF Tables
  <2> QED
    BY <2>1, OddOnes DEF LeadColumns
<1> QED
  BY <1>1, <1>2, <1>3, <1>4, <1>5 DEF Even, Additive, Odd

(* e7f6a5b3c12d and 9aad50c58f54.                                          *)
LEMMA ColumnSwap ==
    LET r == AddNotificationIndexes IN
    /\ Makes(r.up) = NewColumns /\ r.up.drops = {Old} /\ r.up.dropsIf = {}
    /\ r.up.creates = NewColumns /\ r.up.createsIf = {} /\ r.up.notNull = {}
    /\ r.up.needs = {} /\ r.up.refusedBy = {} /\ r.up.unless = {}
    /\ r.down = Raises
    /\ NewColumns \cap Odd = {} /\ \A o \in NewColumns : TableOf(o) = <<"notifications">>
<1>1. AddNotificationIndexes.up = Swaps({Old}, NewColumns)
      /\ AddNotificationIndexes.down = Raises
  BY OddOnes DEF AddNotificationIndexes, Revision
<1>2. "old columns" \notin {"new columns"}
  OBVIOUS
<1>3. NewColumns \cap Odd = {} /\ \A o \in NewColumns : TableOf(o) = <<"notifications">>
  BY <1>2, OddOnes DEF NewColumns
<1> QED
  BY <1>1, <1>3 DEF Swaps, NoChange, Makes, Cuts

LEMMA NeverRuns ==
    AddTenantSlug.up = Raises /\ Makes(AddTenantSlug.up) = {}
BY Shapes DEF AddTenantSlug, Revision

LEMMA NeatRevisions ==
    /\ \A i \in Neat : i # 2 /\ i # 22 /\ i # 33 => Even(Chain[i])
    /\ \A i \in Neat : i \notin {16, 17, 22, 27, 28, 33, 39} => Whole(Chain[i])
<1>1. \A i \in Neat : i < 16 /\ i # 2 => Even(Chain[i])
  BY ChainAt, EvenMerges, EvenTableAdds, EvenOthers, SMTT(60) DEF Neat
<1>2. \A i \in Neat : 16 <= i /\ i < 31 /\ i # 22 => Even(Chain[i])
  BY ChainAt, EvenTableAdds, EvenOthers, Dashboards, SMTT(60) DEF Neat
<1>3. \A i \in Neat : 31 <= i /\ i # 33 => Even(Chain[i])
  BY ChainAt, EvenTableAdds, EvenOthers, SMTT(60) DEF Neat
<1>4. \A i \in Neat : i < 16 => Whole(Chain[i])
  BY ChainAt, AllTables, EvenMerges, EvenTableAdds, EvenOthers, SMTT(60) DEF Neat
<1>5. \A i \in Neat : 16 <= i /\ i \notin {16, 17, 22, 27, 28, 33, 39} => Whole(Chain[i])
  BY ChainAt, EvenTableAdds, EvenOthers, SMTT(60) DEF Neat
<1>6. Neat \subseteq 1 .. 57
  BY DEF Neat
<1> QED
  BY <1>1, <1>2, <1>3, <1>4, <1>5, <1>6

(* What a revision adds is a table of its own, or part of a table that it  *)
(* or a revision it descends from adds.                                    *)
Rooted(i) ==
    \A o \in Makes(Chain[i].up) :
        \/ TableOf(o) \in Chain[i].up.creates
        \/ \E j \in 1 .. 57 :
              j # i /\ Descends(i, j) /\ TableOf(o) \in Makes(Chain[j].up)

LEMMA NeatAreRooted == \A i \in Neat : Rooted(i)
<1>1. /\ Chain[2] = CreateAllTables /\ Chain[4] = AddAuthTables /\ Chain[16] = AddDashboard
      /\ Chain[17] = CustomersSchemaDrift /\ Chain[22] = AddNotificationIndexes
      /\ Chain[27] = AddCampaignTables /\ Chain[28] = AddLeadScore
      /\ Chain[33] = AddTenantSlug /\ Chain[39] = AddSentAt
  BY ChainAt
<1> DEFINE Table2 == {<<t>> : t \in {"customers", "notifications", "campaigns", "campaign_events"}}
           Roots(i, j) == j \in 1 .. 57 /\ j # i /\ Descends(i, j)
<1>2. \A o \in Table2 : o \in Makes(Chain[2].up)
  BY <1>1, AllTables
<1>3. \A o \in Tables(AuthTables) : o \in Makes(Chain[4].up)
  BY <1>1, AdditiveShapes DEF AddAuthTables
<1>4. /\ Roots(16, 2) /\ Roots(17, 2) /\ Roots(22, 2) /\ Roots(27, 2) /\ Roots(28, 2)
      /\ Roots(39, 2) /\ Roots(16, 4)
  BY FirstOnes
<1>5. /\ <<"customers">> \in Table2 /\ <<"notifications">> \in Table2
      /\ <<"campaigns">> \in Table2 /\ <<"campaign_events">> \in Table2
  OBVIOUS
<1>6. Tables({"customers"}) = {<<"customers">>}
  BY DEF Tables
<1> HIDE DEF Table2
<1>7. ASSUME NEW i, Roots(i, 2),
             \A o \in Makes(Chain[i].up) :
                 TableOf(o) \in Chain[i].up.creates \/ TableOf(o) \in Table2
      PROVE  Rooted(i)
  BY <1>2, <1>7 DEF Rooted
<1>8. Rooted(16)
  <2>1. \A o \in Makes(Chain[16].up) :
            \/ TableOf(o) \in Chain[16].up.creates
            \/ TableOf(o) \in Makes(Chain[4].up) \/ TableOf(o) \in Makes(Chain[2].up)
    BY <1>1, <1>2, <1>3, <1>5, <1>6, Dashboards
  <2> QED
    BY <1>4, <2>1 DEF Rooted
<1>9. Rooted(17)
  BY <1>1, <1>4, <1>5, <1>7, EvenOthers
<1>10. Rooted(22)
  BY <1>1, <1>4, <1>5, <1>7, ColumnSwap
<1>11. Rooted(27)
  BY <1>1, <1>4, <1>5, <1>7, EvenOthers
<1>12. Rooted(28)
  BY <1>1, <1>4, <1>5, <1>7, EvenOthers
<1>13. Rooted(39)
  BY <1>1, <1>4, <1>5, <1>7, EvenOthers
<1>14. Rooted(33)
  BY <1>1, NeverRuns DEF Rooted
<1>15. \A i \in Neat : Whole(Chain[i]) => Rooted(i)
  BY DEF Whole, Rooted
<1> QED
  BY <1>8, <1>9, <1>10, <1>11, <1>12, <1>13, <1>14, <1>15, NeatRevisions

-----------------------------------------------------------------------------
(* The schema of a set of revisions: all that they add, which no two of    *)
(* them do, but for the columns that e7f6a5b3c12d replaces.                *)
Made(K) ==
    {o \in UNION {Makes(Chain[i].up) : i \in K} : 22 \in K => o # Old}

Orderly(K) ==
    /\ K \subseteq Neat /\ 33 \notin K
    /\ \A i, j \in K : i # j => Makes(Chain[i].up) \cap Makes(Chain[j].up) = {}

LEMMA InMade ==
    ASSUME NEW K, NEW o
    PROVE  o \in Made(K) <=> (\E i \in K : o \in Makes(Chain[i].up)) /\ (22 \in K => o # Old)
BY DEF Made

LEMMA NeatFacts ==
    /\ \A i \in Neat : i # 22 /\ i # 33 => Additive(Chain[i])
    /\ \A i \in Neat : i # 2 => Old \notin Makes(Chain[i].up)
    /\ Old \in Makes(Chain[2].up)
    /\ Makes(Chain[22].up) = NewColumns /\ Chain[22].up.drops = {Old}
    /\ Chain[22].up.dropsIf = {} /\ Chain[22].up.createsIf = {}
    /\ Chain[22].up.creates = NewColumns /\ Chain[22].up.notNull = {}
    /\ Chain[22].up.needs = {} /\ Chain[22].up.refusedBy = {} /\ Chain[22].up.unless = {}
    /\ Chain[22].down = Raises /\ Chain[33].up = Raises
    /\ Neat \subseteq 1 .. 57 /\ \A i \in 1 .. 19 : i \in Neat
<1>1. Chain[2] = CreateAllTables /\ Chain[22] = AddNotificationIndexes /\ Chain[33] = AddTenantSlug
  BY ChainAt
<1>2. Additive(Chain[2]) /\ Old \in Makes(Chain[2].up)
  BY <1>1, AllTables
<1>3. ASSUME NEW i \in Neat, i # 22, i # 33 PROVE Additive(Chain[i])
  BY <1>2, <1>3, NeatRevisions DEF Even
<1>4. /\ Makes(Chain[22].up) = NewColumns /\ Chain[22].up.drops = {Old}
      /\ Chain[22].up.dropsIf = {} /\ Chain[22].up.createsIf = {}
      /\ Chain[22].up.creates = NewColumns /\ Chain[22].up.notNull = {}
      /\ Chain[22].up.needs = {} /\ Chain[22].up.refusedBy = {} /\ Chain[22].up.unless = {}
      /\ Chain[22].down = Raises /\ NewColumns \cap Odd = {}
  BY <1>1, ColumnSwap
<1>5. Chain[33].up = Raises /\ Makes(Chain[33].up) = {}
  BY <1>1, NeverRuns
<1>7. ASSUME NEW i \in Neat, i # 2 PROVE Old \notin Makes(Chain[i].up)
  BY <1>4, <1>5, <1>7, NeatRevisions DEF Even, Odd
<1>8. Neat \subseteq 1 .. 57 /\ \A i \in 1 .. 19 : i \in Neat
  BY DEF Neat
<1> QED
  BY <1>2, <1>3, <1>4, <1>5, <1>7, <1>8

(* One revision up.                                                        *)
LEMMA OneUp ==
    ASSUME NEW K, Orderly(K), NEW n \in Neat, n \notin K, n = 2 => 22 \notin K,
           NEW b, b.schema = Made(K), Accepts(b, Chain[n].up)
    PROVE  Orderly(K \cup {n}) /\ After(b, Chain[n].up) = Made(K \cup {n})
<1> DEFINE m == Chain[n].up
           L == K \cup {n}
<1>1. /\ (m.drops \cup m.needs) \subseteq Made(K)
      /\ (m.creates \cup m.notNull \cup m.refusedBy) \cap Made(K) = {}
  BY DEF Accepts
<1>2. n # 33
  BY RaisesRaises, NeatFacts
<1>3. m.createsIf = {} /\ Makes(m) \cap Made(K) = {}
  <2>1. m.createsIf = {}
    BY <1>2, NeatFacts DEF Additive
  <2> QED
    BY <1>1, <2>1 DEF Makes
<1> HIDE DEF m
<1>4. ASSUME NEW i \in K PROVE Makes(Chain[i].up) \cap Makes(m) = {}
  <2> SUFFICES ASSUME NEW o \in Makes(Chain[i].up), o \in Makes(m) PROVE FALSE
    OBVIOUS
  <2>1. o \notin Made(K)
    BY <1>3
  <2>2. 22 \in K /\ o = Old
    BY <2>1, InMade
  <2> QED
    BY <2>2, NeatFacts DEF m
<1>5. Orderly(L)
  <2>1. L \subseteq Neat /\ 33 \notin L
    BY <1>2 DEF Orderly
  <2>2. ASSUME NEW i \in L, NEW j \in L, i # j
        PROVE  Makes(Chain[i].up) \cap Makes(Chain[j].up) = {}
    <3>1. CASE i = n
      <4>1. j \in K
        BY <2>2, <3>1
      <4> QED
        BY <3>1, <4>1, <1>4 DEF m
    <3>2. CASE j = n
      <4>1. i \in K
        BY <2>2, <3>2
      <4> QED
        BY <3>2, <4>1, <1>4 DEF m
    <3>3. CASE i \in K /\ j \in K
      BY <2>2, <3>3 DEF Orderly
    <3> QED
      BY <3>1, <3>2, <3>3
  <2> QED
    BY <2>1, <2>2 DEF Orderly
<1>6. After(b, m) = Made(L)
  <2>1. \A o : o \in Made(L) <=>
            /\ (\E i \in K : o \in Makes(Chain[i].up)) \/ o \in Makes(m)
            /\ 22 \in L => o # Old
    BY InMade DEF m
  <2>2. CASE n = 22
    <3>1. m.drops = {Old} /\ m.dropsIf = {} /\ Old \notin Makes(m)
      BY <2>2, NeatFacts DEF m
    <3>2. \A o : TableOf(o) # Old
      BY OddOnes
    <3>3. \A o : o \in After(b, m) <=> (o \in Made(K) /\ o # Old) \/ o \in Makes(m)
      BY <3>1, <3>2 DEF After
    <3>4. \A o : o \in After(b, m) <=> o \in Made(L)
      BY <2>1, <2>2, <3>1, <3>3, InMade
    <3> QED
      BY <3>4 DEF After, Made
  <2>3. CASE n # 22
    <3>1. m.drops = {} /\ m.dropsIf = {}
      BY <1>2, <2>3, NeatFacts DEF Additive, Cuts, m
    <3>2. \A o : o \in After(b, m) <=> o \in Made(K) \/ o \in Makes(m)
      BY <3>1 DEF After
    <3>3. 22 \in K => Old \notin Makes(m)
      BY NeatFacts DEF m
    <3>4. \A o : o \in After(b, m) <=> o \in Made(L)
      BY <2>1, <2>3, <3>2, <3>3, InMade
    <3> QED
      BY <3>4 DEF After, Made
  <2> QED
    BY <2>2, <2>3
<1> QED
  BY <1>5, <1>6 DEF m

Grounded(K) == \A i \in K, j \in 1 .. 57 : Descends(i, j) => j \in K

(* One revision down, none of which is left that descends from it.         *)
LEMMA OneDown ==
    ASSUME NEW K, Orderly(K), Grounded(K), NEW n \in K,
           \A i \in K : i # n => ~Descends(i, n),
           NEW b, b.schema = Made(K), Accepts(b, Chain[n].down)
    PROVE  After(b, Chain[n].down) = Made(K \ {n})
<1> DEFINE m == Chain[n].down
           L == K \ {n}
<1>1. m # Raises /\ n # 22
  BY RaisesRaises, NeatFacts
<1>2. n \in Neat /\ n # 33 /\ n \in 1 .. 57
  BY NeatFacts DEF Orderly
<1>3. ASSUME NEW i \in L, NEW o \in Makes(Chain[i].up)
      PROVE  o \notin Makes(Chain[n].up) /\ TableOf(o) \notin Makes(Chain[n].up)
  <2>1. \A j \in K : j # n => Makes(Chain[j].up) \cap Makes(Chain[n].up) = {}
    BY DEF Orderly
  <2>2. o \notin Makes(Chain[n].up)
    BY <1>3, <2>1
  <2>3. Rooted(i)
    BY NeatAreRooted DEF Orderly
  <2>4. CASE TableOf(o) \in Chain[i].up.creates
    BY <1>3, <2>1, <2>2, <2>4 DEF Makes
  <2>5. CASE \E j \in 1 .. 57 : Descends(i, j) /\ TableOf(o) \in Makes(Chain[j].up)
    <3>1. PICK j \in 1 .. 57 : Descends(i, j) /\ TableOf(o) \in Makes(Chain[j].up)
      BY <2>5
    <3>2. j \in K /\ j # n
      BY <1>3, <3>1 DEF Grounded
    <3> QED
      BY <2>1, <2>2, <3>1, <3>2
  <2> QED
    BY <2>3, <2>4, <2>5 DEF Rooted
<1>4. \A o : o \in Made(L) <=>
          (\E i \in L : o \in Makes(Chain[i].up)) /\ (22 \in L => o # Old)
  BY InMade
<1>5. \A o : o \in Made(K) <=>
          /\ (\E i \in L : o \in Makes(Chain[i].up)) \/ o \in Makes(Chain[n].up)
          /\ 22 \in K => o # Old
  BY InMade
<1>6. \A o : o \in After(b, m) <=>
          (o \in Made(K) /\ o \notin Cuts(m) /\ TableOf(o) \notin Cuts(m)) \/ o \in Makes(m)
  BY DEF After, Cuts
<1> HIDE DEF m, L
<1>7. Makes(m) = {} /\ Cuts(m) = Makes(Chain[n].up)
  BY <1>1, <1>2, NeatFacts DEF Additive, m
<1>8. 22 \in L <=> 22 \in K
  BY <1>1 DEF L
<1>9. \A o : o \in After(b, m) <=> o \in Made(L)
  BY <1>3, <1>4, <1>5, <1>6, <1>7, <1>8
<1> QED
  BY <1>9 DEF After, Made, m, L

(* One revision up in a database that is new but for those before it.      *)
LEMMA OneFresh ==
    ASSUME NEW I, Orderly(I), Grounded(I), NEW n \in I,
           NEW K, K = {j \in I : j < n},
           NEW b, b.schema = Made(K), b.populated = FALSE
    PROVE  Accepts(b, Chain[n].up)
<1> DEFINE m == Chain[n].up
<1>1. n \in Neat /\ n # 33 /\ n \in 1 .. 57 /\ I \subseteq 1 .. 57
  BY NeatFacts DEF Orderly
<1>2. \A j \in I : Descends(n, j) /\ j # n => j \in K
  <2> SUFFICES ASSUME NEW j \in I, Descends(n, j), j # n PROVE j \in K
    OBVIOUS
  <2>1. j \in 1 .. 57
    BY <1>1
  <2>2. j <= n
    BY <1>1, <2>1, AncestorsComeFirst, Zenon DEF Descends
  <2>3. j < n
    BY <1>1, <2>1, <2>2
  <2> QED
    BY <2>3
<1>3. (m.drops \cup m.needs) \subseteq Made(K)
  <2>1. CASE n # 22
    BY <1>1, <2>1, NeatFacts DEF Additive, Cuts
  <2>2. CASE n = 22
    <3>1. 2 \in I /\ 2 \in K /\ 22 \notin K
      BY <2>2, FirstOnes, 2 \in 1 .. 57 DEF Grounded
    <3>2. Old \in Made(K)
      BY <3>1, NeatFacts, InMade
    <3> QED
      BY <2>2, <3>2, NeatFacts
  <2> QED
    BY <2>1, <2>2
<1>4. (m.creates \cup m.notNull \cup m.refusedBy) \cap Made(K) = {}
  <2>1. m.refusedBy = {} /\ m.creates \cup m.notNull \subseteq Makes(m)
    <3>1. m.refusedBy = {}
      <4>1. CASE n = 22
        BY <4>1, NeatFacts
      <4>2. CASE n # 22
        BY <1>1, <4>2, NeatFacts DEF Additive
      <4> QED
        BY <4>1, <4>2
    <3> QED
      BY <3>1 DEF Makes
  <2>2. \A j \in K : Makes(Chain[j].up) \cap Makes(m) = {}
    <3>1. \A j \in K : j \in I /\ j # n
      BY <1>1
    <3> QED
      BY <3>1 DEF Orderly
  <2> HIDE DEF m
  <2>3. Made(K) \cap Makes(m) = {}
    BY <2>2, InMade
  <2> QED
    BY <2>1, <2>3
<1>5. ASSUME NEW o \in Makes(m) PROVE TableOf(o) \in Made(K) \cup m.creates
  <2>1. Rooted(n)
    BY <1>1, NeatAreRooted
  <2>2. CASE \E j \in 1 .. 57 :
                 j # n /\ Descends(n, j) /\ TableOf(o) \in Makes(Chain[j].up)
    <3>1. PICK j \in 1 .. 57 : j # n /\ Descends(n, j) /\ TableOf(o) \in Makes(Chain[j].up)
      BY <2>2
    <3>2. j \in K
      BY <1>2, <3>1 DEF Grounded
    <3>3. TableOf(o) # Old
      BY OddOnes
    <3> QED
      BY <3>1, <3>2, <3>3, InMade
  <2> QED
    BY <2>1, <2>2 DEF Rooted
<1> QED
  BY <1>3, <1>4, <1>5 DEF Accepts

-----------------------------------------------------------------------------
(* Commands, as far as they come to neat revisions only.                   *)
Upto(I, J, k) == I \cup {j \in J : j <= k}
Downto(I, J, k) == {i \in I : i \in J => i < 58 - k}

LEMMA NeatIsPlain ==
    \A i \in Neat : Chain[i].up.unless = {} /\ (i # 33 => Chain[i].down.unless = {})
<1> SUFFICES ASSUME NEW i \in Neat
             PROVE  Chain[i].up.unless = {} /\ (i # 33 => Chain[i].down.unless = {})
  OBVIOUS
<1>1. CASE i = 22
  BY <1>1, NeatFacts, OddOnes
<1>2. CASE i = 33
  BY <1>2, NeatFacts, OddOnes
<1>3. CASE i # 22 /\ i # 33
  <2>1. Additive(Chain[i])
    BY <1>3, NeatFacts
  <2> QED
    BY <2>1, OddOnes DEF Additive
<1> QED
  BY <1>1, <1>2, <1>3

LEMMA UpAt ==
    \A n \in 1 .. 57 : At("up", n) = Chain[n] /\ Does("up", At("up", n)) = Chain[n].up
BY DEF At, Does

LEMMA DownPlaces ==
    \A n \in 1 .. 57 :
        /\ 58 - n \in 1 .. 57 /\ At("down", n) = Chain[58 - n]
        /\ Does("down", At("down", n)) = Chain[58 - n].down
BY DEF At, Does

LEMMA InPlaces == \A S : \A i : i \in Places(S) <=> i \in 1 .. 57 /\ Chain[i].id \in S
BY DEF Places

(* The revisions of J among the first N can be added to those of I.        *)
Fits(I, J, N) ==
    \A n \in 1 .. N : n \in J => n \in Neat /\ n \notin I /\ (n = 2 => 22 \notin I)

LEMMA UpMakes ==
    ASSUME NEW S, NEW d \in DbState, NEW w, GoodRun("up", d, S, w),
           NEW I, Orderly(I), d.schema = Made(I),
           NEW N \in 0 .. 57, Fits(I, Places(S), N)
    PROVE  /\ Orderly(Upto(I, Places(S), N))
           /\ w[N].schema = Made(Upto(I, Places(S), N))
<1> DEFINE J == Places(S)
           OK(k) == Orderly(Upto(I, J, k)) /\ w[k].schema = Made(Upto(I, J, k))
           T == {k \in Nat : k <= N => OK(k)}
<1>0. J \subseteq 1 .. 57
  BY InPlaces
<1>1. 0 \in T
  <2>1. Upto(I, J, 0) = I
    BY <1>0 DEF Upto
  <2>2. w[0].schema = Made(I)
    BY DEF GoodRun
  <2> QED
    BY <2>1, <2>2
<1>2. ASSUME NEW k \in Nat, k \in T PROVE k + 1 \in T
  <2> SUFFICES ASSUME k + 1 <= N PROVE OK(k + 1)
    OBVIOUS
  <2>1. PICK n \in 1 .. 57 : n = k + 1
    OBVIOUS
  <2> DEFINE K == Upto(I, J, k)
  <2>2. Orderly(K) /\ w[k].schema = Made(K) /\ n - 1 = k /\ n \in 1 .. N
    BY <1>2, <2>1
  <2>3. Does1("up", S, n, w[k], w[n])
    BY <2>2 DEF GoodRun
  <2>4. At("up", n) = Chain[n] /\ Does("up", At("up", n)) = Chain[n].up
    BY UpAt
  <2>5. CASE n \notin J
    <3>1. Upto(I, J, n) = K
      BY <1>0, <2>2, <2>5 DEF Upto
    <3>2. Chain[n].id \notin S
      BY <2>5, InPlaces
    <3>3. w[n].schema = w[k].schema
      BY <2>3, <2>4, <3>2 DEF Does1
    <3> QED
      BY <2>1, <2>2, <3>1, <3>3
  <2>6. CASE n \in J
    <3>1. n \in Neat /\ n \notin I /\ (n = 2 => 22 \notin I)
      BY <2>2, <2>6 DEF Fits
    <3>2. n \notin K /\ (n = 2 => 22 \notin K)
      BY <1>0, <2>2, <3>1 DEF Upto
    <3>3. Upto(I, J, n) = K \cup {n}
      BY <1>0, <2>2, <2>6 DEF Upto
    <3>4. Chain[n].id \in S
      BY <2>6, InPlaces
    <3>5. Accepts(w[k], Chain[n].up) /\ w[n].schema = After(w[k], Chain[n].up)
      BY <2>3, <2>4, <3>1, <3>4, NeatIsPlain DEF Does1
    <3> HIDE DEF K
    <3>6. Orderly(K \cup {n}) /\ After(w[k], Chain[n].up) = Made(K \cup {n})
      BY <2>2, <3>1, <3>2, <3>5, OneUp
    <3> QED
      BY <2>1, <3>3, <3>5, <3>6
  <2> QED
    BY <2>5, <2>6
<1>3. Nat \subseteq T
  <2> HIDE DEF T
  <2> QED
    BY <1>1, <1>2, NatInd
<1> QED
  BY <1>3

LEMMA OrderlyParts == ASSUME NEW I, Orderly(I), NEW K, K \subseteq I PROVE Orderly(K)
BY DEF Orderly

(* Down, if all that descends from a revision goes with it.                *)
LEMMA DownMakes ==
    ASSUME NEW S, NEW d \in DbState, NEW w, GoodRun("down", d, S, w),
           NEW I, Orderly(I), Grounded(I), d.schema = Made(I),
           \A i \in I, j \in Places(S) : Descends(i, j) => i \in Places(S)
    PROVE  Places(S) \subseteq I => w[57].schema = Made(I \ Places(S))
<1> SUFFICES ASSUME Places(S) \subseteq I PROVE w[57].schema = Made(I \ Places(S))
  OBVIOUS
<1> DEFINE J == Places(S)
           T == {k \in Nat : k <= 57 => w[k].schema = Made(Downto(I, J, k))}
<1>0. I \subseteq 1 .. 57
  BY NeatFacts DEF Orderly
<1>1. 0 \in T
  <2>1. Downto(I, J, 0) = I
    <3>1. \A i \in I : i < 58 - 0
      BY <1>0
    <3> QED
      BY <3>1, Zenon DEF Downto
  <2>2. w[0].schema = Made(I)
    BY DEF GoodRun
  <2> QED
    BY <2>1, <2>2
<1>2. ASSUME NEW k \in Nat, k \in T PROVE k + 1 \in T
  <2> SUFFICES ASSUME k + 1 <= 57 PROVE w[k + 1].schema = Made(Downto(I, J, k + 1))
    OBVIOUS
  <2>1. PICK m \in 1 .. 57 : m = k + 1
    OBVIOUS
  <2>2. PICK n \in 1 .. 57 : n = 58 - m
    OBVIOUS
  <2> DEFINE K == Downto(I, J, k)
  <2>3. w[k].schema = Made(K) /\ m - 1 = k
    BY <1>2, <2>1
  <2>4. Does1("down", S, m, w[k], w[m])
    BY <2>3 DEF GoodRun
  <2>5. At("down", m) = Chain[n] /\ Does("down", At("down", m)) = Chain[n].down
    BY <2>2, DownPlaces
  <2>6. \A i \in I : i \in K <=> (i \in J => i <= n)
    BY <1>0, <2>1, <2>2 DEF Downto
  <2>7. \A i \in I : i \in Downto(I, J, m) <=> (i \in J => i < n)
    BY <1>0, <2>2 DEF Downto
  <2>8. K \subseteq I /\ Downto(I, J, m) \subseteq I
    BY DEF Downto
  <2> HIDE DEF J, K
  <2>9. CASE n \notin J
    <3>1. \A i \in I : (i \in J => i <= n) <=> (i \in J => i < n)
      BY <1>0, <2>9
    <3>2. Downto(I, J, m) = K
      BY <2>6, <2>7, <2>8, <3>1, Zenon
    <3>3. Chain[n].id \notin S
      BY <2>9, InPlaces DEF J
    <3>4. w[m].schema = w[k].schema
      BY <2>4, <2>5, <3>3 DEF Does1
    <3> QED
      BY <2>1, <2>3, <3>2, <3>4
  <2>10. CASE n \in J
    <3>1. n \in I /\ n \in K
      BY <2>6, <2>10 DEF J
    <3>2. Downto(I, J, m) = K \ {n}
      <4>1. \A i \in I : (i \in J => i < n) <=> (i \in J => i <= n) /\ i # n
        BY <1>0, <2>10
      <4> QED
        BY <2>6, <2>7, <2>8, <4>1
    <3>3. Chain[n].id \in S
      BY <2>10, InPlaces DEF J
    <3>4. n \in Neat /\ n # 33
      BY <3>1 DEF Orderly
    <3>5. Accepts(w[k], Chain[n].down) /\ w[m].schema = After(w[k], Chain[n].down)
      BY <2>4, <2>5, <3>3, <3>4, NeatIsPlain DEF Does1
    <3>6. Orderly(K)
      BY <2>8, OrderlyParts
    <3>7. Grounded(K)
      <4> SUFFICES ASSUME NEW i \in K, NEW j \in 1 .. 57, Descends(i, j) PROVE j \in K
        BY DEF Grounded
      <4>1. i \in I /\ i \in 1 .. 57
        BY <1>0, <2>8
      <4>2. j \in I
        BY <4>1 DEF Grounded
      <4>3. ASSUME j \in J PROVE j <= n
        <5>1. i \in J
          BY <4>1, <4>3 DEF J
        <5>2. i <= n
          BY <2>6, <4>1, <5>1
        <5>3. j <= i
          BY <4>1, AncestorsComeFirst, Zenon DEF Descends
        <5> QED
          BY <4>1, <5>2, <5>3
      <4> QED
        BY <2>6, <4>2, <4>3
    <3>8. ASSUME NEW i \in K, i # n PROVE ~Descends(i, n)
      <4> SUFFICES ASSUME Descends(i, n) PROVE FALSE
        OBVIOUS
      <4>1. i \in I /\ i \in 1 .. 57
        BY <1>0, <2>8
      <4>2. i \in J
        BY <2>10, <4>1 DEF J
      <4>3. i <= n
        BY <2>6, <4>1, <4>2
      <4>4. n <= i
        BY <4>1, AncestorsComeFirst, Zenon DEF Descends
      <4> QED
        BY <3>8, <4>1, <4>3, <4>4
    <3>9. After(w[k], Chain[n].down) = Made(K \ {n})
      BY <2>3, <3>1, <3>5, <3>6, <3>7, <3>8, OneDown
    <3> QED
      BY <2>1, <3>2, <3>5, <3>9
  <2> QED
    BY <2>9, <2>10
<1>3. Nat \subseteq T
  <2> HIDE DEF T
  <2> QED
    BY <1>1, <1>2, NatInd
<1>4. w[57].schema = Made(Downto(I, J, 57))
  BY <1>3
<1>5. Downto(I, J, 57) = I \ J
  <2>1. \A i \in I : ~(i < 58 - 57)
    BY <1>0
  <2> HIDE DEF J
  <2> QED
    BY <2>1, Zenon DEF Downto
<1> QED
  BY <1>4, <1>5


(* A new database taken up to a set of revisions.                          *)
LEMMA FreshMakes ==
    ASSUME NEW S, Orderly(Places(S)), Grounded(Places(S))
    PROVE  /\ RunUp(Db({}, FALSE), S).ok
           /\ RunUp(Db({}, FALSE), S).schema = Made(Places(S))
<1> DEFINE d == Db({}, FALSE)
           I == Places(S)
<1>0. d \in DbState /\ d.ok /\ d.schema = {} /\ d.populated = FALSE
  BY DEF Db, DbState
<1> HIDE DEF d
<1>1. PICK w : Passes("up", d, S, w)
  BY <1>0, RunIsTyped
<1>2. /\ RunUp(d, S) = w[57] /\ w[0] = d
      /\ \A n \in 0 .. 57 : w[n] \in DbState
      /\ \A n \in 1 .. 57 :
            w[n] = IF Chain[n].id \in S THEN Migrate(w[n - 1], Chain[n].up) ELSE w[n - 1]
  BY <1>1, UpAt DEF Passes, RunOf
<1> DEFINE OK(k) == /\ w[k].ok /\ w[k].populated = FALSE
                    /\ w[k].schema = Made(Upto({}, I, k))
           T == {k \in Nat : k <= 57 => OK(k)}
<1>3. I \subseteq 1 .. 57
  BY InPlaces
<1>4. 0 \in T
  <2>1. Upto({}, I, 0) = {}
    BY <1>3 DEF Upto
  <2>2. Made({}) = {}
    BY DEF Made
  <2> QED
    BY <1>0, <1>2, <2>1, <2>2
<1> HIDE DEF OK
<1>5. ASSUME NEW k \in Nat, k \in T PROVE k + 1 \in T
  <2> SUFFICES ASSUME k + 1 <= 57 PROVE OK(k + 1)
    OBVIOUS
  <2>1. PICK n \in 1 .. 57 : n = k + 1
    OBVIOUS
  <2> DEFINE K == {j \in I : j < n}
  <2>2. K = Upto({}, I, k) /\ n - 1 = k /\ k \in 0 .. 57
    BY <1>3, <2>1 DEF Upto
  <2>3. /\ w[k].ok /\ w[k].populated = FALSE /\ w[k].schema = Made(K) /\ w[k] \in DbState
        /\ w[n] = IF Chain[n].id \in S THEN Migrate(w[k], Chain[n].up) ELSE w[k]
    <3>1. OK(k) /\ w[k] \in DbState
      BY <1>2, <1>5, <2>2
    <3>2. w[n] = IF Chain[n].id \in S THEN Migrate(w[k], Chain[n].up) ELSE w[k]
      BY <1>2, <2>2
    <3> HIDE DEF K
    <3> QED
      BY <2>2, <3>1, <3>2 DEF OK
  <2>4. CASE n \notin I
    <3>1. Upto({}, I, n) = K
      BY <1>3, <2>4 DEF Upto
    <3>2. w[n] = w[k]
      BY <2>3, <2>4, InPlaces
    <3> QED
      BY <2>1, <2>3, <3>1, <3>2 DEF OK
  <2>5. CASE n \in I
    <3>1. Upto({}, I, n) = K \cup {n}
      BY <1>3, <2>5 DEF Upto
    <3>2. K \subseteq I /\ n \notin K /\ (n = 2 => 22 \notin K)
      OBVIOUS
    <3>3. n \in Neat /\ Orderly(K)
      BY <2>5, <3>2, OrderlyParts DEF Orderly
    <3>4. Accepts(w[k], Chain[n].up)
      BY <2>3, <2>5, OneFresh
    <3> HIDE DEF K
    <3>5. After(w[k], Chain[n].up) = Made(K \cup {n})
      BY <2>3, <3>2, <3>3, <3>4, OneUp
    <3>6. w[n] = [w[k] EXCEPT !.schema = After(w[k], Chain[n].up)]
      <4>1. ~Skips(w[k], Chain[n].up)
        BY <3>3, NeatIsPlain DEF Skips
      <4>2. Chain[n].id \in S
        BY <2>5, InPlaces
      <4> QED
        BY <2>3, <3>4, <4>1, <4>2 DEF Migrate
    <3>7. w[n].ok /\ w[n].populated = FALSE /\ w[n].schema = Made(K \cup {n})
      BY <2>3, <3>5, <3>6 DEF DbState
    <3> QED
      BY <2>1, <3>1, <3>7 DEF OK
  <2> QED
    BY <2>4, <2>5
<1>6. Nat \subseteq T
  <2> HIDE DEF T
  <2> QED
    BY <1>4, <1>5, NatInd
<1>7. w[57].ok /\ w[57].schema = Made(Upto({}, I, 57))
  BY <1>6 DEF OK
<1>8. Upto({}, I, 57) = I
  <2>1. \A j \in I : j <= 57
    BY <1>3
  <2> HIDE DEF I
  <2> QED
    BY <2>1 DEF Upto
<1> QED
  BY <1>2, <1>7, <1>8 DEF d

LEMMA PlacesAreGrounded ==
    ASSUME NEW T, \A r \in T : Ancestors[r] \subseteq T
    PROVE  Grounded(Places(T))
BY InPlaces, SMTT(40) DEF Grounded, Descends

LEMMA PlainIsNeat ==
    ASSUME NEW T, T \subseteq Revisions, \A r \in T : Ancestors[r] \subseteq T,
           T \cap Culprits = {}
    PROVE  Places(T) \subseteq Neat
<1> SUFFICES ASSUME NEW n \in Places(T) PROVE n \in Neat
  OBVIOUS
<1>1. n \in 1 .. 57 /\ Chain[n].id \in T
  BY InPlaces
<1>2. ~Swayed(n)
  BY <1>1 DEF Swayed
<1> QED
  BY <1>1, <1>2, OnlyNeatUnswayed

LEMMA LastPlace == 57 \in 0 .. 57
OBVIOUS

(* A command that only comes to neat revisions, added to neat ones.        *)
LEMMA PlainUp ==
    ASSUME NEW S, NEW d \in DbState, RunOf("up", d, S).ok,
           NEW I, I \subseteq 1 .. 57, Orderly(I), d.schema = Made(I),
           Places(S) \subseteq Neat, Places(S) \cap I = {},
           2 \in Places(S) => 22 \notin I
    PROVE  /\ Orderly(I \cup Places(S))
           /\ RunOf("up", d, S).schema = Made(I \cup Places(S))
<1>1. PICK w : GoodRun("up", d, S, w)
  BY GoodRuns
<1>2. w[57] = RunOf("up", d, S)
  BY <1>1 DEF GoodRun
<1> DEFINE J == Places(S)
<1>3. J \subseteq 1 .. 57
  BY InPlaces
<1>4. J = Places(S)
  OBVIOUS
<1> HIDE DEF J
<1>5. PICK N \in 0 .. 57 : N = 57
  BY LastPlace
<1>6. Fits(I, J, N)
  BY <1>4 DEF Fits
<1>7. Orderly(Upto(I, J, N)) /\ w[N].schema = Made(Upto(I, J, N))
  BY <1>1, <1>4, <1>6, UpMakes
<1>8. Upto(I, J, N) = I \cup J
  <2>1. \A j \in J : j <= N
    BY <1>3, <1>5
  <2> QED
    BY <2>1, Zenon DEF Upto
<1> QED
  BY <1>2, <1>4, <1>5, <1>7, <1>8

(* So a schema that follows from plain revisions is what they make, and    *)
(* the other way round.                                                    *)
LEMMA FollowsIsMade ==
    ASSUME NEW objs, NEW T, T \subseteq Revisions, \A r \in T : Ancestors[r] \subseteq T,
           T \cap Culprits = {}, Follows(objs, T)
    PROVE  Orderly(Places(T)) /\ objs = Made(Places(T))
<1> DEFINE d == Db({}, FALSE)
<1>1. d \in DbState /\ d.schema = {}
  BY DEF Db, DbState
<1>2. RunOf("up", d, T).ok /\ RunOf("up", d, T).schema = objs
  BY DEF Follows, RunOf
<1> HIDE DEF d
<1>3. Orderly({}) /\ Made({}) = {}
  BY DEF Orderly, Made
<1>4. Places(T) \subseteq Neat
  BY PlainIsNeat
<1> DEFINE none == {}
<1>5. /\ none \subseteq 1 .. 57 /\ Orderly(none) /\ d.schema = Made(none)
      /\ Places(T) \cap none = {} /\ 22 \notin none /\ none \cup Places(T) = Places(T)
  BY <1>1, <1>3
<1> HIDE DEF none
<1>6. /\ Orderly(none \cup Places(T))
      /\ RunOf("up", d, T).schema = Made(none \cup Places(T))
  BY <1>1, <1>2, <1>4, <1>5, PlainUp
<1> QED
  BY <1>2, <1>5, <1>6

LEMMA MadeFollows ==
    ASSUME NEW T, \A r \in T : Ancestors[r] \subseteq T, Orderly(Places(T))
    PROVE  Follows(Made(Places(T)), T)
BY PlacesAreGrounded, FreshMakes DEF Follows

LEMMA UpgradeKeepsSchema ==
    ASSUME MigrationTypeOK, NEW g \in Revisions, Upgrade(g), applied' \cap Culprits = {},
           Orderly(Places(applied)), schema = Made(Places(applied))
    PROVE  Orderly(Places(applied')) /\ schema' = Made(Places(applied'))
<1> DEFINE S == Missing(g)
           d == Db(schema, populated)
           I == Places(applied)
           J == Places(S)
<1>1. d \in DbState /\ d.schema = schema
  BY DbIsTyped DEF Db
<1>2. RunOf("up", d, S).ok /\ schema' = RunOf("up", d, S).schema
  BY DEF Upgrade, UpgradeOf, RunOf
<1>3. applied' = applied \cup S /\ S = Ancestors[g] \ applied
  BY DEF Upgrade, Missing
<1>4. Grounded(I)
  BY PlacesAreGrounded DEF MigrationTypeOK
<1>5. I \cap J = {} /\ I \subseteq 1 .. 57 /\ Places(applied') = I \cup J
  BY <1>3, InPlaces DEF Places
<1>6. J \subseteq Neat
  <2>1. MigrationTypeOK'
    BY UpgradeTyped
  <2>2. Places(applied') \subseteq Neat
    BY <2>1, PlainIsNeat DEF MigrationTypeOK
  <2> QED
    BY <1>5, <2>2
<1> HIDE DEF S, d
<1>7. 2 \in J => 22 \notin I
  BY <1>4, <1>5, FirstOnes DEF Grounded
<1>8. d.schema = Made(I)
  BY <1>1
<1> HIDE DEF I
<1>9. Orderly(I \cup J) /\ RunOf("up", d, S).schema = Made(I \cup J)
  <2>1. Orderly(I)
    BY DEF I
  <2> QED
    BY <1>1, <1>2, <1>5, <1>6, <1>7, <1>8, <2>1, PlainUp
<1> QED
  BY <1>2, <1>5, <1>9

LEMMA DowngradeKeepsSchema ==
    ASSUME MigrationTypeOK, NEW g \in Revisions, Downgrade(g),
           Orderly(Places(applied)), schema = Made(Places(applied))
    PROVE  Orderly(Places(applied')) /\ schema' = Made(Places(applied'))
<1> DEFINE S == Undone(g)
           d == Db(schema, populated)
           I == Places(applied)
           J == Places(S)
<1>1. d \in DbState /\ d.schema = schema
  BY DbIsTyped DEF Db
<1>2. RunOf("down", d, S).ok /\ schema' = RunOf("down", d, S).schema
  BY DEF Downgrade, DowngradeOf, RunOf
<1>3. applied' = applied \ S /\ S = {r \in applied : g \in Ancestors[r]}
  BY DEF Downgrade, Undone
<1>5. Orderly(I) /\ schema = Made(I) /\ Grounded(I)
  BY PlacesAreGrounded DEF MigrationTypeOK
<1>6. J \subseteq I /\ Places(applied') = I \ J
  BY <1>3, InPlaces DEF Places
<1>7. \A i \in I, j \in J : Descends(i, j) => i \in J
  <2> SUFFICES ASSUME NEW i \in I, NEW j \in J, Descends(i, j) PROVE i \in J
    OBVIOUS
  <2>1. i \in 1 .. 57 /\ Chain[i].id \in applied /\ g \in Ancestors[Chain[j].id]
        /\ Chain[j].id \in Ancestors[Chain[i].id]
    BY <1>3, InPlaces DEF Descends
  <2>2. Chain[i].id \in Revisions
    BY <2>1 DEF MigrationTypeOK
  <2>3. g \in Ancestors[Chain[i].id]
    BY <2>1, <2>2, AncestorsOfAncestors
  <2> QED
    BY <1>3, <2>1, <2>3, InPlaces
<1> HIDE DEF S, d
<1>8. PICK w : GoodRun("down", d, S, w)
  BY <1>1, <1>2, GoodRuns
<1>9. w[57].schema = schema'
  BY <1>2, <1>8 DEF GoodRun
<1>10. w[57].schema = Made(I \ J)
  <2> HIDE DEF I
  <2> QED
    BY <1>1, <1>5, <1>6, <1>7, <1>8, DownMakes
<1>11. Orderly(I \ J)
  BY <1>5, OrderlyParts
<1> QED
  BY <1>6, <1>9, <1>10, <1>11

(* The schema follows from the revisions applied (SchemaFollowsRevisions), *)
(* in a database without 52b19ee00eaf and db67d696b6ab.                    *)
PlainStep ==
    /\ Follows(schema, applied)
    /\ (applied \cup applied') \cap Culprits = {}
    => Follows(schema', applied')

LEMMA EveryPlainStep ==
    ASSUME MigrationTypeOK, [MigrationNext]_migrationVars
    PROVE  PlainStep
<1> SUFFICES ASSUME Follows(schema, applied), (applied \cup applied') \cap Culprits = {}
             PROVE  Follows(schema', applied')
  BY DEF PlainStep
<1>1. Orderly(Places(applied)) /\ schema = Made(Places(applied))
  BY FollowsIsMade DEF MigrationTypeOK
<1>2. ASSUME Orderly(Places(applied')), schema' = Made(Places(applied'))
      PROVE  Follows(schema', applied')
  <2>1. MigrationTypeOK'
    BY MigrationTyped
  <2> QED
    BY <1>2, <2>1, MadeFollows DEF MigrationTypeOK
<1>3. ASSUME NEW g \in Goals, Upgrade(g) PROVE Follows(schema', applied')
  BY <1>1, <1>2, <1>3, UpgradeKeepsSchema, MigrationsAssumption
<1>4. ASSUME NEW g \in Goals, Downgrade(g) PROVE Follows(schema', applied')
  BY <1>1, <1>2, <1>4, DowngradeKeepsSchema, MigrationsAssumption
<1>5. CASE Populate
  BY <1>5 DEF Populate
<1>6. CASE StampSchema
  <2>1. Chain[20].id \in Revisions /\ Chain[20].id \in Culprits
    <3>1. PICK i \in 1 .. 57 : i = 20
      OBVIOUS
    <3> QED
      BY <3>1, ChildEdges, AllRevisions
  <2> QED
    BY <1>6, <2>1 DEF StampSchema
<1>7. CASE UNCHANGED migrationVars
  BY <1>7 DEF migrationVars
<1> QED
  BY <1>3, <1>4, <1>5, <1>6, <1>7 DEF MigrationNext

(* Whatever revisions commands name, and in whatever order: as long as a   *)
(* database has neither 52b19ee00eaf nor db67d696b6ab, nor any of the      *)
(* eighteen revisions built on them, every upgrade and downgrade that      *)
(* starts with the schema of a new database of the same revisions ends     *)
(* with one: each of the other thirty-seven undoes what it did or refuses  *)
(* to be undone, and in no order do two of them make the same object       *)
(* (alembic/versions, run by env.py in one transaction).                   *)
THEOREM SchemaFollowsPlainRevisions == MigrationSpec => [][PlainStep]_migrationVars
<1>1. MigrationTypeOK /\ [MigrationNext]_migrationVars => PlainStep
  BY EveryPlainStep
<1> QED
  BY <1>1, CommandsFollowTheGraph, PTL DEF MigrationSpec

-----------------------------------------------------------------------------
(* A database at the head.  The last revision is built on all but four:    *)
(* two that change nothing, and 8b65fe079d37 with 3d9f46ff44b8 on it,      *)
(* whose downgrade raises, as the last revision's does.                    *)
Under(i) == Descends(57, i)

LEMMA LastEdges == Child(57, 56) /\ Child(56, 55) /\ Child(55, 54) /\ Child(54, 53)
BY ChainAt, Edges, SMTT(60) DEF Child

LEMMA HeadEdges ==
    \A i \in {14, 15, 25, 26, 27, 29, 32, 36, 37, 38, 48, 49, 52} : Child(53, i)
BY ChainAt, Edges, SMTT(60) DEF Child

LEMMA FinalEdges == \A i \in {13, 18, 19, 33, 34, 39, 40, 41, 42, 43, 47} : Child(50, i)
BY ChainAt, Edges, SMTT(60) DEF Child

LEMMA OtherEdges ==
    /\ Child(32, 31) /\ Child(31, 30) /\ Child(30, 17) /\ Child(17, 7) /\ Child(15, 6)
    /\ Child(27, 9) /\ Child(25, 24) /\ Child(24, 20) /\ Child(24, 23) /\ Child(23, 22)
    /\ Child(29, 28) /\ Child(28, 10) /\ Child(52, 51) /\ Child(51, 50)
    /\ Child(47, 46) /\ Child(46, 44) /\ Child(44, 21) /\ Child(44, 35) /\ Child(48, 45)
    /\ Child(7, 4) /\ Child(7, 5) /\ Child(4, 3) /\ Child(3, 2) /\ Child(2, 1)
<1>1. /\ Child(32, 31) /\ Child(31, 30) /\ Child(30, 17) /\ Child(17, 7) /\ Child(15, 6)
      /\ Child(27, 9) /\ Child(25, 24) /\ Child(24, 20) /\ Child(24, 23) /\ Child(23, 22)
      /\ Child(29, 28) /\ Child(28, 10) /\ Child(52, 51) /\ Child(51, 50)
  BY ChainAt, Edges, SMTT(60) DEF Child
<1>2. /\ Child(47, 46) /\ Child(46, 44) /\ Child(44, 21) /\ Child(44, 35) /\ Child(48, 45)
      /\ Child(7, 4) /\ Child(7, 5) /\ Child(4, 3) /\ Child(3, 2) /\ Child(2, 1)
  BY ChainAt, Edges, SMTT(60) DEF Child, AuthAndAi
<1> QED
  BY <1>1, <1>2

LEMMA AllButFourUnder == \A i \in 1 .. 57 : i \in {8, 11, 12, 16} \/ Under(i)
<1>1. \A i, j \in 1 .. 57 : Child(i, j) /\ Under(i) => Under(j)
  <2>1. ASSUME NEW i \in 1 .. 57, NEW j \in 1 .. 57, Child(i, j), Under(i) PROVE Under(j)
    <3>1. Descends(i, j)
      BY <2>1, Descent, Zenon
    <3>2. PICK k \in 1 .. 57 : k = 57
      OBVIOUS
    <3>3. Descends(k, i)
      BY <2>1, <3>2 DEF Under
    <3>4. Descends(k, j)
      BY <3>1, <3>3, Descent, Zenon
    <3> QED
      BY <3>2, <3>4 DEF Under
  <2> QED
    BY <2>1
<1>2. Under(57)
  <2>1. PICK k \in 1 .. 57 : k = 57
    OBVIOUS
  <2>2. Descends(k, k)
    BY Descent, Zenon
  <2> QED
    BY <2>1, <2>2 DEF Under
<1>3. Under(56) /\ Under(55) /\ Under(54) /\ Under(53)
  <2>1. Under(56)
    BY <1>1, <1>2, LastEdges
  <2>2. Under(55)
    BY <1>1, <2>1, LastEdges
  <2>3. Under(54)
    BY <1>1, <2>2, LastEdges
  <2>4. Under(53)
    BY <1>1, <2>3, LastEdges
  <2> QED
    BY <2>1, <2>2, <2>3, <2>4
<1>4. ASSUME NEW i \in {14, 15, 25, 26, 27, 29, 32, 36, 37, 38, 48, 49, 52} PROVE Under(i)
  <2>1. i \in 1 .. 57 /\ Child(53, i)
    BY HeadEdges
  <2> QED
    BY <1>1, <1>3, <2>1
<1>5. /\ Under(31) /\ Under(6) /\ Under(9) /\ Under(24) /\ Under(28) /\ Under(51)
      /\ Under(45)
  <2>1. /\ Under(32) /\ Under(15) /\ Under(27) /\ Under(25) /\ Under(29) /\ Under(52)
        /\ Under(48)
    BY <1>4
  <2>2. Child(32, 31) /\ Child(15, 6) /\ Child(27, 9)
    BY OtherEdges
  <2>3. Child(25, 24) /\ Child(29, 28) /\ Child(52, 51) /\ Child(48, 45)
    BY OtherEdges
  <2>4. Under(31) /\ Under(6) /\ Under(9)
    BY <1>1, <2>1, <2>2
  <2>5. Under(24) /\ Under(28) /\ Under(51) /\ Under(45)
    BY <1>1, <2>1, <2>3
  <2> QED
    BY <2>4, <2>5
<1>6. Under(30) /\ Under(20) /\ Under(23) /\ Under(10) /\ Under(50)
  BY <1>1, <1>5, OtherEdges, SMTT(40)
<1>7. ASSUME NEW i \in {13, 18, 19, 33, 34, 39, 40, 41, 42, 43, 47} PROVE Under(i)
  <2>1. i \in 1 .. 57 /\ Child(50, i)
    BY FinalEdges
  <2> QED
    BY <1>1, <1>6, <2>1
<1>8. Under(17) /\ Under(22) /\ Under(46)
  <2>1. Under(47)
    BY <1>7
  <2> QED
    BY <1>1, <1>6, <2>1, OtherEdges, SMTT(40)
<1>9. Under(7) /\ Under(44)
  BY <1>1, <1>8, OtherEdges, SMTT(40)
<1>10. Under(4) /\ Under(5) /\ Under(21) /\ Under(35)
  BY <1>1, <1>9, OtherEdges, SMTT(40)
<1>11. Under(3)
  BY <1>1, <1>10, OtherEdges, SMTT(40)
<1>12. Under(2)
  BY <1>1, <1>11, OtherEdges, SMTT(40)
<1>13. Under(1)
  BY <1>1, <1>12, OtherEdges, SMTT(40)
<1>14. \A i \in 1 .. 57 :
          \/ i \in {1, 2, 3} \/ i \in {4, 5, 21, 35} \/ i \in {7, 44} \/ i \in {17, 22, 46}
          \/ i \in {13, 18, 19, 33, 34, 39, 40, 41, 42, 43, 47}
          \/ i \in {10, 20, 23, 30, 50} \/ i \in {6, 9, 24, 28, 31, 45, 51}
          \/ i \in {14, 15, 25, 26, 27, 29, 32, 36, 37, 38, 48, 49, 52}
          \/ i \in {53, 54, 55, 56, 57} \/ i \in {8, 11, 12, 16}
  BY SMTT(60)
<1> QED
  BY <1>2, <1>3, <1>4, <1>5, <1>6, <1>7, <1>8, <1>9, <1>10, <1>11, <1>12, <1>13, <1>14,
     SMTT(60)

(* A command that succeeds has passed no revision that raises, and one of  *)
(* revisions that change nothing leaves the schema as it is.               *)
LEMMA NoneRaised ==
    ASSUME NEW dir \in {"up", "down"}, NEW S, NEW d \in DbState, RunOf(dir, d, S).ok,
           NEW n \in 1 .. 57, Does(dir, At(dir, n)) = Raises
    PROVE  At(dir, n).id \notin S
<1>1. PICK w : GoodRun(dir, d, S, w)
  BY GoodRuns
<1>2. Does1(dir, S, n, w[n - 1], w[n])
  BY <1>1 DEF GoodRun
<1>3. Raises.unless = {}
  BY OddOnes
<1> QED
  BY <1>2, <1>3, RaisesRaises DEF Does1

LEMMA IdleRun ==
    ASSUME NEW dir \in {"up", "down"}, NEW S, NEW d \in DbState, RunOf(dir, d, S).ok,
           \A n \in 1 .. 57 : At(dir, n).id \in S => Does(dir, At(dir, n)) = NoChange
    PROVE  RunOf(dir, d, S).schema = d.schema
<1>1. PICK w : GoodRun(dir, d, S, w)
  BY GoodRuns
<1>2. NoChange.unless = {} /\ \A b : After(b, NoChange) = b.schema
  BY DEF NoChange, After, Makes
<1> DEFINE T == {k \in Nat : k <= 57 => w[k].schema = d.schema}
<1>3. 0 \in T
  BY <1>1 DEF GoodRun
<1>4. ASSUME NEW k \in Nat, k \in T PROVE k + 1 \in T
  <2> SUFFICES ASSUME k + 1 <= 57 PROVE w[k + 1].schema = d.schema
    OBVIOUS
  <2>1. PICK n \in 1 .. 57 : n = k + 1
    OBVIOUS
  <2>2. w[n - 1].schema = d.schema /\ Does1(dir, S, n, w[n - 1], w[n])
    BY <1>1, <1>4, <2>1 DEF GoodRun
  <2>3. w[n].schema = w[n - 1].schema
    BY <1>2, <2>2 DEF Does1
  <2> QED
    BY <2>1, <2>2, <2>3
<1>5. Nat \subseteq T
  <2> HIDE DEF T
  <2> QED
    BY <1>3, <1>4, NatInd
<1>6. w[57].schema = d.schema
  BY <1>5
<1> QED
  BY <1>1, <1>6 DEF GoodRun

Slug == AddTenantSlug.id
Loose == {MergeHeadsF0.id, AddOpportunityModel.id}

LEMMA HeadPlaces ==
    /\ Slug = Chain[33].id /\ Chain[33].up = Raises
    /\ LastRevision = Chain[57].id /\ Chain[57].down = Raises /\ Chain[16].down = Raises
    /\ Loose = {Chain[11].id, Chain[12].id}
    /\ \A n \in {11, 12} : Chain[n].up = NoChange /\ Chain[n].down = NoChange
    /\ Chain[8].id \in Ancestors[Chain[16].id] /\ Chain[16].id \in Ancestors[Chain[16].id]
<1>1. Slug = Chain[33].id /\ Chain[33].up = Raises
  BY ChainAt, NeverRuns DEF Slug
<1>2. LastRevision = Chain[57].id /\ Chain[57].down = Raises
  BY ChainAt, Ids DEF LastRevision, WorkflowNodesCascade, Revision
<1>3. Chain[16].down = Raises
  BY ChainAt DEF AddDashboard, Revision
<1>4. /\ Loose = {Chain[11].id, Chain[12].id}
      /\ \A n \in {11, 12} : Chain[n].up = NoChange /\ Chain[n].down = NoChange
  BY ChainAt DEF Loose, MergeHeadsF0, AddOpportunityModel, Joins, Revision
<1>5. Chain[8].id \in Ancestors[Chain[16].id] /\ Chain[16].id \in Ancestors[Chain[16].id]
  <2>1. PICK i \in 1 .. 57 : i = 16
    OBVIOUS
  <2>2. PICK j \in 1 .. 57 : j = 8
    OBVIOUS
  <2>3. Child(i, j)
    BY <2>1, <2>2, FirstEdges
  <2>4. Descends(i, j) /\ Descends(i, i)
    BY <2>3, Descent, Zenon
  <2> QED
    BY <2>1, <2>2, <2>4 DEF Descends
<1> QED
  BY <1>1, <1>2, <1>3, <1>4, <1>5

(* A revision, if it is not loose, is under the last one or 3d9f46ff44b8.  *)
LEMMA UnderOneOfTwo ==
    ASSUME NEW r \in Revisions, r \notin Loose
    PROVE  r \in Ancestors[LastRevision] \/ r \in Ancestors[Chain[16].id]
<1>1. PICK i \in 1 .. 57 : r = Chain[i].id
  BY AllRevisions, Zenon
<1>2. i \notin {11, 12}
  BY <1>1, HeadPlaces
<1>3. CASE i \in {8, 16}
  BY <1>1, <1>3, HeadPlaces
<1>4. CASE Under(i)
  BY <1>1, <1>4, HeadPlaces DEF Under, Descends
<1> QED
  BY <1>2, <1>3, <1>4, AllButFourUnder

LEMMA IdleIfLoose ==
    ASSUME NEW dir \in {"up", "down"}, NEW S, NEW d \in DbState, RunOf(dir, d, S).ok,
           S \subseteq Loose
    PROVE  RunOf(dir, d, S).schema = d.schema
<1>1. ASSUME NEW n \in 1 .. 57, Chain[n].id \in S PROVE Chain[n].up = NoChange /\ Chain[n].down = NoChange
  <2>1. Chain[n].id = Chain[11].id \/ Chain[n].id = Chain[12].id
    BY <1>1, HeadPlaces
  <2>2. n = 11 \/ n = 12
    BY <2>1, IdsDiffer, 11 \in 1 .. 57, 12 \in 1 .. 57, Zenon
  <2> QED
    BY <2>2, HeadPlaces
<1>2. ASSUME NEW n \in 1 .. 57, At(dir, n).id \in S PROVE Does(dir, At(dir, n)) = NoChange
  <2>1. CASE dir = "up"
    BY <1>1, <1>2, <2>1, UpAt
  <2>2. CASE dir = "down"
    <3>1. PICK j \in 1 .. 57 : j = 58 - n
      OBVIOUS
    <3>2. At("down", n) = Chain[j] /\ Does("down", At("down", n)) = Chain[j].down
      BY <3>1, DownPlaces
    <3> QED
      BY <1>1, <1>2, <2>2, <3>2
  <2> QED
    BY <2>1, <2>2
<1> QED
  BY <1>2, IdleRun

(* The inductive invariant: at the head only loose revisions come and go.  *)
HeadInv == Slug \in applied => schema = Declared /\ Revisions \ Loose \subseteq applied

LEMMA UpgradeKeepsHead ==
    ASSUME MigrationTypeOK, HeadInv, NEW g \in Revisions, Upgrade(g)
    PROVE  HeadInv'
<1> SUFFICES ASSUME Slug \in applied'
             PROVE  schema' = Declared /\ Revisions \ Loose \subseteq applied'
  BY DEF HeadInv
<1> DEFINE S == Missing(g)
           d == Db(schema, populated)
<1>1. d \in DbState /\ d.schema = schema
  BY DbIsTyped DEF Db
<1>2. RunOf("up", d, S).ok /\ schema' = RunOf("up", d, S).schema
  BY DEF Upgrade, UpgradeOf, RunOf
<1>3. applied' = applied \cup S /\ S = Ancestors[g] \ applied /\ S \subseteq Revisions
  BY AncestorsOfAncestors DEF Upgrade, Missing
<1> HIDE DEF S, d
<1>4. Slug \notin S
  <2>1. PICK n \in 1 .. 57 : n = 33
    OBVIOUS
  <2>2. At("up", n).id = Slug /\ Does("up", At("up", n)) = Raises
    BY <2>1, UpAt, HeadPlaces
  <2>3. At("up", n).id \notin S
    BY <1>1, <1>2, <2>2, NoneRaised
  <2> QED
    BY <2>2, <2>3
<1>5. schema = Declared /\ Revisions \ Loose \subseteq applied
  BY <1>3, <1>4 DEF HeadInv
<1>6. S \subseteq Loose
  BY <1>3, <1>5
<1>7. schema' = schema
  BY <1>1, <1>2, <1>6, IdleIfLoose
<1> QED
  BY <1>3, <1>5, <1>7

LEMMA DowngradeKeepsHead ==
    ASSUME MigrationTypeOK, HeadInv, NEW g \in Revisions, Downgrade(g)
    PROVE  HeadInv'
<1> SUFFICES ASSUME Slug \in applied'
             PROVE  schema' = Declared /\ Revisions \ Loose \subseteq applied'
  BY DEF HeadInv
<1> DEFINE S == Undone(g)
           d == Db(schema, populated)
<1>1. d \in DbState /\ d.schema = schema
  BY DbIsTyped DEF Db
<1>2. RunOf("down", d, S).ok /\ schema' = RunOf("down", d, S).schema
  BY DEF Downgrade, DowngradeOf, RunOf
<1>3. applied' = applied \ S /\ S = {r \in applied : g \in Ancestors[r]}
  BY DEF Downgrade, Undone
<1> HIDE DEF S, d
<1>4. schema = Declared /\ Revisions \ Loose \subseteq applied
  BY <1>3 DEF HeadInv
<1>5. LastRevision \notin S /\ Chain[16].id \notin S
  <2>1. PICK n \in 1 .. 57 : n = 1
    OBVIOUS
  <2>2. PICK k \in 1 .. 57 : k = 42
    OBVIOUS
  <2>3. At("down", n).id = LastRevision /\ Does("down", At("down", n)) = Raises
    BY <2>1, DownPlaces, HeadPlaces
  <2>4. At("down", k).id = Chain[16].id /\ Does("down", At("down", k)) = Raises
    BY <2>2, DownPlaces, HeadPlaces
  <2>5. At("down", n).id \notin S
    BY <1>1, <1>2, <2>3, NoneRaised
  <2>6. At("down", k).id \notin S
    BY <1>1, <1>2, <2>4, NoneRaised
  <2> QED
    BY <2>3, <2>4, <2>5, <2>6
<1>6. LastRevision \in applied /\ Chain[16].id \in applied
      /\ LastRevision \in Revisions /\ Chain[16].id \in Revisions
  <2>1. ASSUME NEW i \in {16, 57} PROVE Chain[i].id \in Revisions \ Loose
    <3>1. i \in 1 .. 57 /\ i # 11 /\ i # 12
      BY <2>1
    <3>2. Chain[i].id # Chain[11].id /\ Chain[i].id # Chain[12].id
      BY <3>1, IdsDiffer, 11 \in 1 .. 57, 12 \in 1 .. 57, Zenon
    <3> QED
      BY <3>1, <3>2, HeadPlaces, AllRevisions
  <2>2. Chain[16].id \in Revisions \ Loose /\ Chain[57].id \in Revisions \ Loose
    BY <2>1
  <2> QED
    BY <1>4, <2>2, HeadPlaces
<1>7. S \subseteq Loose
  <2> SUFFICES ASSUME NEW r \in S, r \notin Loose PROVE FALSE
    OBVIOUS
  <2>1. r \in Revisions /\ g \in Ancestors[r]
    BY <1>3 DEF MigrationTypeOK
  <2>2. g \in Ancestors[LastRevision] \/ g \in Ancestors[Chain[16].id]
    BY <1>6, <2>1, UnderOneOfTwo, AncestorsOfAncestors
  <2> QED
    BY <1>3, <1>5, <1>6, <2>2
<1>8. schema' = schema
  BY <1>1, <1>2, <1>7, IdleIfLoose
<1> QED
  BY <1>3, <1>4, <1>7, <1>8

LEMMA HeadHolds ==
    /\ MigrationInit => HeadInv
    /\ MigrationTypeOK /\ HeadInv /\ [MigrationNext]_migrationVars => HeadInv'
    /\ HeadInv => HeadIsAsDeclared
<1>1. MigrationInit => HeadInv
  BY DEF MigrationInit, HeadInv
<1>2. ASSUME MigrationTypeOK, HeadInv, [MigrationNext]_migrationVars PROVE HeadInv'
  <2>1. ASSUME NEW g \in Goals, Upgrade(g) PROVE HeadInv'
    BY <1>2, <2>1, UpgradeKeepsHead, MigrationsAssumption
  <2>2. ASSUME NEW g \in Goals, Downgrade(g) PROVE HeadInv'
    BY <1>2, <2>2, DowngradeKeepsHead, MigrationsAssumption
  <2>3. CASE Populate
    BY <1>2, <2>3 DEF Populate, HeadInv
  <2>4. CASE StampSchema
    BY <2>4 DEF StampSchema, HeadInv
  <2>5. CASE UNCHANGED migrationVars
    BY <1>2, <2>5 DEF migrationVars, HeadInv
  <2> QED
    BY <1>2, <2>1, <2>2, <2>3, <2>4, <2>5 DEF MigrationNext
<1>3. ASSUME HeadInv PROVE HeadIsAsDeclared
  <2>1. LastRevision \in Revisions \ Loose
    <3>1. PICK i \in 1 .. 57 : i = 57
      OBVIOUS
    <3>2. Chain[i].id # Chain[11].id /\ Chain[i].id # Chain[12].id
      BY <3>1, IdsDiffer, 11 \in 1 .. 57, 12 \in 1 .. 57, 57 # 11, 57 # 12, Zenon
    <3> QED
      BY <3>1, <3>2, HeadPlaces, AllRevisions
  <2> QED
    BY <1>3, <2>1 DEF HeadInv, HeadIsAsDeclared, Slug
<1> QED
  BY <1>1, <1>2, <1>3

(* Whatever revisions commands name: a database that records 9aad50c58f54  *)
(* was made and stamped by scripts/dev/create_schema.py; it records the    *)
(* last revision and keeps the schema that the models declare.  No upgrade *)
(* gets past 9aad50c58f54, and a downgrade that does not raise takes back  *)
(* only revisions that change nothing.                                     *)
THEOREM TheHeadIsAlwaysAsDeclared == MigrationSpec => []HeadIsAsDeclared
BY MigrationTyped, HeadHolds, PTL DEF MigrationSpec

-----------------------------------------------------------------------------
(* All of them together: what holds of the schema, of the rows and of the  *)
(* repository holds of the stored data as a whole, as none of them writes  *)
(* what another reads.                                                     *)
LEMMA PartsOfUpkeep == UpkeepSpec => MigrationSpec /\ DeletionsSpec /\ MemorySpec
<1>1. UpkeepInit => MigrationInit /\ DeletionsInit /\ MemoryInit
  BY DEF UpkeepInit
<1>2. [UpkeepNext]_<<part, migrationVars, rows, memoryVars>> =>
          [MigrationNext]_migrationVars /\ [DeletionsNext]_rows /\ [MemoryNext]_memoryVars
  BY DEF UpkeepNext, SchemaStep, RowsStep, MemoryStep
<1> QED
  BY <1>1, <1>2, PTL DEF UpkeepSpec, MigrationSpec, DeletionsSpec, MemorySpec

(* The type invariants of the three, for whatever revisions, tables, hosts *)
(* and results there are: the revisions applied are closed under the graph *)
(* and the schema holds only what some revision makes (env.py), every      *)
(* row's keys find rows (models), and the copies and branches of the       *)
(* repository hold only results that were written (pipeline.py).           *)
THEOREM StoredDataKeepsItsTypes == UpkeepSpec => []UpkeepTypeOK
BY PartsOfUpkeep, CommandsFollowTheGraph, KeysAlwaysFindTheirRows, MemoryKeepsItsTypes, PTL
   DEF UpkeepTypeOK

(* The promises of the three, in one specification: a database at the head *)
(* has the schema the models declare; without 52b19ee00eaf, db67d696b6ab   *)
(* and what is built on them, a schema depends on its revisions alone;     *)
(* only rules may hold a user back, and a user's deletion leaves the       *)
(* records; what is published never goes back.                             *)
THEOREM StoredDataKeepsItsPromises ==
    UpkeepSpec =>
        /\ []HeadIsAsDeclared
        /\ [][PlainStep]_migrationVars
        /\ []OnlyRulesHoldUsers /\ UserDeletionKeepsRecords
        /\ PublishedNeverGoesBack
BY PartsOfUpkeep, TheHeadIsAlwaysAsDeclared, SchemaFollowsPlainRevisions,
   OnlyRulesEverHoldUsers, UsersLeaveTheRecords, PublishedResultsNeverGoBack, PTL
=============================================================================
