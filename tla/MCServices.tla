----------------------------- MODULE MCServices -----------------------------
(* The CRM's services, one of them in each behaviour: their transactions   *)
(* meet in no row that two of these modules have, users and tokens apart.  *)
EXTENDS Passkeys, AccessControl, TicketDesk, Recommendations, Automation, LeadRouting, ChurnRisk, TLC

CONSTANT PasskeyClock    \* bound: the clock of the passkeys

VARIABLE service

Pool == <<"a1", "a2">>
OneTenant == [m \in Members |-> "t1"]
SystemDefaults == [n \in {"viewer"} |-> {CHOOSE p \in Permissions : TRUE}]
Actions == [r \in Rules |-> IF r = "r1" THEN 2 ELSE 1]

(* a company, and one whose name is a numeral                              *)
Companies == [l \in Incoming |-> IF l = "l1" THEN "acme" ELSE "7"]
Floats == [n \in {"5", "7", "9"} |-> IF n = "5" THEN 5 ELSE IF n = "7" THEN 7 ELSE 9]
Condition(field, operator, list, value) ==
    [field |-> field, operator |-> operator, list |-> list, value |-> value]
Text(conditions, type, id, priority) ==
    [conditions |-> conditions, assignee_type |-> type, assignee_id |-> id, priority |-> priority]
Texts == [r \in RuleIds |->
    IF r = "r1"
    THEN {Text({Condition("company", "equals", FALSE, <<"acme">>)}, "user", "u1", 1),
          Text({Condition("company", "between", TRUE, <<"5", "9">>),
                Condition("company", "not_in", TRUE, <<"acme">>)}, "team", "u1", 0)}
    ELSE {Text({Condition("created_date", "not_equals", FALSE, <<"7">>)}, "round_robin", None, 0)}]

(* Every kind of request has the same slots, passkeys apart; no behaviour  *)
(* has two kinds, nor a request beside an authenticator of its name.       *)
Slots == Permutations(RotationRequests) \cup Permutations(PasskeyRequests)

ServicesInit ==
    /\ service \in {"sessions", "passkeys", "access", "assignment", "replies", "sla", "advice", "automation", "routing", "churn"}
    /\ PasskeyInit
    /\ AccessInit
    /\ DeskInit
    /\ AdviceInit
    /\ AutomationInit
    /\ RoutingInit
    /\ ChurnInit

SessionsStep ==
    /\ service = "sessions"
    /\ SessionNext
    /\ UNCHANGED <<service, passkeyVars, accessVars, deskVars, adviceVars, automationVars, routingVars, churnVars>>

(* passkeys over the whole of a user's life, without passwords             *)
PasskeysStep ==
    /\ service = "passkeys"
    /\ PasskeyNext
    /\ clock' <= PasskeyClock
    /\ tokens' # tokens => challenges' # challenges \/ accounts' # accounts
    /\ rotating' = rotating
    /\ UNCHANGED <<service, accessVars, deskVars, adviceVars, automationVars, routingVars, churnVars>>

(* bound: what tenant 0 does meets no users' roles                         *)
OfTenantZero ==
    \/ replaced # {}
    \/ \E r \in roles : r[1] = System /\ ~SystemRole(r)
    \/ \E q \in RoleRequests : roleWork[q] # NoRoleWork /\ roleWork[q].tenant = System
OfUsers == grants # {} \/ \E q \in RoleRequests : roleWork[q].owner \in Members

AccessStep ==
    /\ service = "access"
    /\ AccessNext
    /\ ~(OfTenantZero' /\ OfUsers')
    /\ UNCHANGED <<service, accountVars, deskVars, adviceVars, automationVars, routingVars, churnVars>>

(* assignments, first responses and the summary share nothing but tickets  *)
DeskStep ==
    /\ \/ service = "assignment" /\ (CreateStep \/ AssignmentStep)
       \/ service = "replies" /\ (CreateStep \/ ReplyStep \/ HourPasses)
       \/ service = "sla" /\ (CreateStep \/ SlaStep \/ HourPasses)
    /\ UNCHANGED <<service, accountVars, accessVars, adviceVars, automationVars, routingVars, churnVars>>

(* bound: one opportunity changes hands                                    *)
AdviceStep ==
    /\ service = "advice"
    /\ AdviceNext
    /\ \A o \in Opportunities \ {"o1"} : customerOf'[o] \in {NoCustomer, "c1"}
    /\ UNCHANGED <<service, accountVars, accessVars, deskVars, automationVars, routingVars, churnVars>>

AutomationStep ==
    /\ service = "automation"
    /\ AutomationNext
    /\ UNCHANGED <<service, accountVars, accessVars, deskVars, adviceVars, routingVars, churnVars>>

RoutingStep ==
    /\ service = "routing"
    /\ RoutingNext
    /\ UNCHANGED <<service, accountVars, accessVars, deskVars, adviceVars, automationVars, churnVars>>

ChurnStep ==
    /\ service = "churn"
    /\ ChurnNext
    /\ UNCHANGED <<service, accountVars, accessVars, deskVars, adviceVars, automationVars, routingVars>>

ServicesNext ==
    \/ SessionsStep
    \/ PasskeysStep
    \/ AccessStep
    \/ DeskStep
    \/ AdviceStep
    \/ AutomationStep
    \/ RoutingStep
    \/ ChurnStep

servicesVars == <<service, accountVars, accessVars, deskVars, adviceVars, automationVars, routingVars, churnVars>>
ServicesSpec == ServicesInit /\ [][ServicesNext]_servicesVars

(* Each service keeps its type invariant.                                  *)
ServicesTypeOK ==
    /\ service \in {"sessions", "passkeys"} => SessionTypeOK /\ PasskeyTypeOK
    /\ service = "access" => AccessTypeOK
    /\ service \in {"assignment", "replies", "sla"} => DeskTypeOK
    /\ service = "advice" => AdviceTypeOK
    /\ service = "automation" => AutomationTypeOK
    /\ service = "routing" => RoutingTypeOK
    /\ service = "churn" => ChurnTypeOK
=============================================================================
