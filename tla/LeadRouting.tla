------------------------------ MODULE LeadRouting ------------------------------
(***************************************************************************)
(* Which owner a new lead gets (services/lead_routing_service.py), and the *)
(* rules that say so (api/routers/lead_routing.py).                        *)
(*                                                                         *)
(* A lead is inserted and routed in one READ COMMITTED transaction, of     *)
(* several statements: rules, users, their open leads, update.  Of a       *)
(* customer, only company and created_date are columns among the fields a  *)
(* condition may name; the others read as None.  A condition is the JSON a *)
(* rule was saved with: its value is a scalar, or a list of scalars.       *)
(* PUT /priority is never reached: /{rule_id} is declared before it.       *)
(***************************************************************************)
EXTENDS Integers, Sequences, FiniteSets

CONSTANTS
    Sellers,            \* the users of the tenant
    RuleIds,            \* ids of rules
    RuleTexts,          \* for each id: what the rule may say
    Incoming,           \* leads to come; CompanyOf gives the company of each
    CompanyOf,
    FloatOf,            \* float() of the scalars that are numerals
    MaxLoad,            \* max_load_per_rep of the tenant (20)
    RoutingRequests     \* slots for requests in flight

None == "none"
Instant == "instant"    \* a datetime: equal to no JSON value, and no float
Unowned == "unowned"      \* owner_id = 0

Operators == {"equals", "not_equals", "in", "not_in", "gt", "lt", "gte", "lte", "between"}
SupportedFields == {"region", "industry", "employee_count", "source", "created_date", "company"}
AssigneeTypes == {"user", "team", "round_robin"}

ASSUME RoutingAssumption ==
    /\ Unowned \notin Sellers
    /\ None \notin RuleIds
    /\ IsFiniteSet(Incoming)
    /\ MaxLoad \in Nat
    /\ FloatOf \in [DOMAIN FloatOf -> Int]
    /\ {None, Instant} \cap DOMAIN FloatOf = {}
    /\ DOMAIN CompanyOf = Incoming
    /\ \A r \in RuleIds : \A text \in RuleTexts[r] :
          /\ text.priority \in Nat
          /\ text.assignee_type \in AssigneeTypes
          /\ text.assignee_id \in Sellers \cup {None}
          /\ \A c \in text.conditions :
                /\ c.field \in SupportedFields
                /\ c.operator \in Operators
                /\ c.list \in BOOLEAN
                /\ ~c.list => Len(c.value) = 1
                /\ \A i \in DOMAIN c.value : c.value[i] # Instant

VARIABLES
    ruleRows,       \* the rows of routing_rules
    activeUsers,    \* users whose status is active
    leads,          \* the rows of customers, as far as routing goes
    routing         \* for each slot: how far the request has got

routingVars == <<ruleRows, activeUsers, leads, routing>>

NoText == [conditions |-> {}, assignee_type |-> "none", assignee_id |-> None, priority |-> 0]
NoRule == [text |-> NoText, is_active |-> FALSE]
NoLead == [status |-> "absent", owner |-> Unowned]
NotRouting == [at |-> "idle", lead |-> None, rule |-> NoRule, among |-> {}, assignee |-> Unowned, alone |-> TRUE]

-----------------------------------------------------------------------------

FieldOf(l, field) ==
    CASE field = "company" -> CompanyOf[l]
      [] field = "created_date" -> Instant
      [] OTHER -> None

(* evaluate_conditions, for one condition: with a None, a list where a     *)
(* number is due, or a text that is no numeral, comparisons are false      *)
Holds(c, l) ==
    LET v == FieldOf(l, c.field)
        values == {c.value[i] : i \in DOMAIN c.value}
        numbers == {v} \cup values \subseteq DOMAIN FloatOf
        compared == ~c.list /\ numbers
    IN
    \/ c.operator = "equals" /\ ~c.list /\ v \in values
    \/ c.operator = "not_equals" /\ (c.list \/ v \notin values)
    \/ c.operator = "in" /\ c.list /\ v \in values
    \/ c.operator = "not_in" /\ c.list /\ v \notin values
    \/ c.operator = "gt" /\ compared /\ FloatOf[v] > FloatOf[c.value[1]]
    \/ c.operator = "lt" /\ compared /\ FloatOf[v] < FloatOf[c.value[1]]
    \/ c.operator = "gte" /\ compared /\ FloatOf[v] >= FloatOf[c.value[1]]
    \/ c.operator = "lte" /\ compared /\ FloatOf[v] <= FloatOf[c.value[1]]
    \/ c.operator = "between" /\ c.list /\ Len(c.value) = 2 /\ numbers
         /\ FloatOf[v] \in FloatOf[c.value[1]]..FloatOf[c.value[2]]

Matching(l) ==
    {r \in RuleIds : ruleRows[r].is_active /\ \A c \in ruleRows[r].text.conditions : Holds(c, l)}

(* a mutated form of MatchingRule: the order by priority is ascending       *)
MatchingAscending(l) ==
    {r \in Matching(l) : \A s \in Matching(l) : ruleRows[r].text.priority <= ruleRows[s].text.priority}

(* get_matching_rule: nothing orders rules of one priority                 *)
MatchingRule(l) ==
    {r \in Matching(l) : \A s \in Matching(l) : ruleRows[s].text.priority <= ruleRows[r].text.priority}

(* the users a rule asks for: one, or all                                  *)
Asked(rule) ==
    IF rule # NoRule /\ rule.text.assignee_type = "user" /\ rule.text.assignee_id # None
    THEN {rule.text.assignee_id}
    ELSE Sellers

(* a team is looked for by comparing the name of a role with a number,     *)
(* which the driver refuses                                                *)
Refused(rule) ==
    rule # NoRule /\ rule.text.assignee_type = "team" /\ rule.text.assignee_id # None

OpenLeads(s) == Cardinality({l \in Incoming : leads[l].status = "lead" /\ leads[l].owner = s})
Least(S) == {s \in S : \A t \in S : OpenLeads(s) <= OpenLeads(t)}

(* _get_load_balanced_assignee: users below the threshold first            *)
Freest(S, threshold) ==
    LET under == {s \in S : OpenLeads(s) < threshold}
    IN Least(IF under # {} THEN under ELSE S)

-----------------------------------------------------------------------------

At(q, at, rule, among, assignee) ==
    [routing[q] EXCEPT !.at = at, !.rule = rule, !.among = among, !.assignee = assignee]
Go(q, step) == routing' = [routing EXCEPT ![q] = step]

(* q is done; what it, or another request, commits overtakes the others    *)
Committed(Q) ==
    routing' = [p \in RoutingRequests |->
        IF p \in Q \/ routing[p] = NotRouting THEN NotRouting ELSE [routing[p] EXCEPT !.alone = FALSE]]

(* create_customer: the insert, and the rules that are active              *)
ReceiveLead(q, l) ==
    /\ routing[q] = NotRouting
    /\ leads[l] = NoLead
    /\ \A p \in RoutingRequests : routing[p].lead # l
    /\ \E r \in IF Matching(l) = {} THEN {None} ELSE MatchingRule(l) :
          Go(q, [NotRouting EXCEPT !.at = "rule", !.lead = l,
                             !.rule = IF r = None THEN NoRule ELSE ruleRows[r]])
    /\ UNCHANGED <<ruleRows, activeUsers, leads>>

(* the active users the rule asks for                                      *)
ReadAsked(q) ==
    LET rule == routing[q].rule
        users == activeUsers \cap Asked(rule)
    IN
    /\ routing[q].at = "rule"
    /\ rule # NoRule
    /\ ~Refused(rule)
    /\ Go(q, IF users = {} THEN At(q, "rule", NoRule, {}, Unowned)
             ELSE At(q, "count", rule, users, Unowned))
    /\ UNCHANGED <<ruleRows, activeUsers, leads>>

(* _round_robin_assignee, without a rule or for lack of such users         *)
ReadActive(q) ==
    /\ routing[q].at = "rule"
    /\ routing[q].rule = NoRule
    /\ Go(q, At(q, IF activeUsers = {} THEN "write" ELSE "count", NoRule, activeUsers, Unowned))
    /\ UNCHANGED <<ruleRows, activeUsers, leads>>

CountLeads(q) ==
    LET among == routing[q].among IN
    /\ routing[q].at = "count"
    /\ \E s \in IF routing[q].rule = NoRule THEN Least(among) ELSE Freest(among, MaxLoad) :
          Go(q, At(q, "write", NoRule, {}, s))
    /\ UNCHANGED <<ruleRows, activeUsers, leads>>

(* the update, and the commit                                              *)
AssignLead(q) ==
    /\ routing[q].at = "write"
    /\ leads' = [leads EXCEPT ![routing[q].lead] =
                    [status |-> "lead", owner |-> routing[q].assignee]]
    /\ Committed({q})
    /\ UNCHANGED <<ruleRows, activeUsers>>

(* any error rolls the lead back with its routing                          *)
RoutingFails(q) ==
    /\ routing[q] # NotRouting
    /\ Go(q, NotRouting)
    /\ UNCHANGED <<ruleRows, activeUsers, leads>>

(* imported leads, and leads created with an owner, are not routed         *)
AddUnrouted(l, o) ==
    /\ leads[l] = NoLead
    /\ \A p \in RoutingRequests : routing[p].lead # l
    /\ leads' = [leads EXCEPT ![l] = [status |-> "lead", owner |-> o]]
    /\ Committed({})
    /\ UNCHANGED <<ruleRows, activeUsers>>

(* an edit, a reassignment, the recycling job                              *)
ChangeLead(l, status, o) ==
    /\ leads[l] # NoLead
    /\ leads' = [leads EXCEPT ![l] = [status |-> status, owner |-> o]]
    /\ Committed({})
    /\ UNCHANGED <<ruleRows, activeUsers>>

(* create_routing_rule, update_routing_rule                                *)
SaveRoutingRule(r, text, active) ==
    /\ ruleRows' = [ruleRows EXCEPT ![r] = [text |-> text, is_active |-> active]]
    /\ Committed({})
    /\ UNCHANGED <<activeUsers, leads>>

DeleteRoutingRule(r) ==
    /\ ruleRows[r] # NoRule
    /\ ruleRows' = [ruleRows EXCEPT ![r] = NoRule]
    /\ Committed({})
    /\ UNCHANGED <<activeUsers, leads>>

ToggleRoutingRule(r) ==
    /\ ruleRows[r] # NoRule
    /\ ruleRows' = [ruleRows EXCEPT ![r].is_active = ~@]
    /\ Committed({})
    /\ UNCHANGED <<activeUsers, leads>>

(* a user becomes active, or ceases to be                                  *)
ChangeUser(s) ==
    /\ activeUsers' = IF s \in activeUsers THEN activeUsers \ {s} ELSE activeUsers \cup {s}
    /\ Committed({})
    /\ UNCHANGED <<ruleRows, leads>>

RoutingInit ==
    /\ ruleRows = [r \in RuleIds |-> NoRule]
    /\ activeUsers = {}
    /\ leads = [l \in Incoming |-> NoLead]
    /\ routing = [q \in RoutingRequests |-> NotRouting]

RoutingNext ==
    \/ \E q \in RoutingRequests :
          \/ \E l \in Incoming : ReceiveLead(q, l)
          \/ ReadAsked(q) \/ ReadActive(q) \/ CountLeads(q)
          \/ AssignLead(q) \/ RoutingFails(q)
    \/ \E l \in Incoming, o \in Sellers \cup {Unowned} :
          \/ AddUnrouted(l, o)
          \/ \E status \in {"lead", "other"} : ChangeLead(l, status, o)
    \/ \E r \in RuleIds :
          \/ \E text \in RuleTexts[r], active \in BOOLEAN : SaveRoutingRule(r, text, active)
          \/ DeleteRoutingRule(r) \/ ToggleRoutingRule(r)
    \/ \E s \in Sellers : ChangeUser(s)

RoutingSpec == RoutingInit /\ [][RoutingNext]_routingVars

-----------------------------------------------------------------------------

RoutingTypeOK ==
    /\ \A r \in RuleIds : ruleRows[r] = NoRule \/ ruleRows[r].text \in RuleTexts[r]
    /\ activeUsers \subseteq Sellers
    /\ leads \in [Incoming -> [status : {"absent", "lead", "other"}, owner : Sellers \cup {Unowned}]]
    /\ \A q \in RoutingRequests :
          /\ routing[q].at \in {"idle", "rule", "count", "write"}
          /\ routing[q].among \subseteq Sellers
          /\ routing[q].assignee \in Sellers \cup {Unowned}

(* Rule r is for the lead l, and no rule before it.                        *)
Decides(r, l) ==
    /\ r \in Matching(l)
    /\ \A s \in RuleIds : ruleRows[s].text.priority > ruleRows[r].text.priority => s \notin Matching(l)

(* The lead l goes to o as one look at the database would have it: the     *)
(* rule that decides asks for o, or for nobody active, and no active user  *)
(* who comes into question has fewer open leads.                           *)
RoutedAsAWhole(l, o) ==
    \/ activeUsers = {} /\ o = Unowned
    \/ \E r \in RuleIds \cup {None} :
          LET asked == activeUsers \cap (IF r = None THEN Sellers ELSE Asked(ruleRows[r]))
              users == IF asked = {} THEN activeUsers ELSE asked
          IN
          /\ IF Matching(l) = {} THEN r = None ELSE r # None /\ Decides(r, l)
          /\ o \in users
          /\ \A s \in users : OpenLeads(o) <= OpenLeads(s)

(* Nobody is passed over for a colleague with more open leads, and no rule *)
(* for one of lower priority, unless something was committed while the     *)
(* lead was routed (auto_assign_lead, lead_routing_service.py:173).        *)
LeadsGoToTheFreest ==
    [][leads' # leads =>
          \A q \in RoutingRequests :
             routing[q].alone /\ routing[q].at = "write" /\ routing'[q] = NotRouting
                => RoutedAsAWhole(routing[q].lead, leads'[routing[q].lead].owner)]_leads
=============================================================================
