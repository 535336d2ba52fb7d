----------------------------- MODULE Automation -----------------------------
(***************************************************************************)
(* Automation rules and their execution logs                               *)
(* (src/services/automation_service.py, src/api/routers/automation.py).    *)
(*                                                                         *)
(* A request to /trigger reads the enabled rules of the event, runs the    *)
(* actions of each rule whose conditions match, and adds one log per rule; *)
(* everything it writes is one transaction.  An action never raises out    *)
(* of its own `except` clauses: it returns a status.  A statement that the *)
(* database refuses leaves the session unusable, so the request fails at   *)
(* its next flush.  Rules are switched, deleted and edited meanwhile by    *)
(* other requests; deleting one deletes its logs with it.                  *)
(***************************************************************************)
EXTENDS Naturals, Sequences, FiniteSets

CONSTANTS Rules,          \* rows of automation_rules that may come to exist
          Toggles,        \* concurrent /toggle requests
          ActionsOf,      \* how many actions each rule lists
          MaxEvents       \* bound: how many events are triggered

ASSUME AutomationAssumption ==
    /\ ActionsOf \in [Rules -> Nat \ {0}]
    /\ MaxEvents \in Nat

Events == 1 .. MaxEvents

(* What _execute_action returns: nothing ("null") for a notification sent, *)
(* "created" for a task, "assigned" (and "updated") for what is to be done *)
(* to a ticket, which nothing does, "skipped" for the actions left out or  *)
(* not implemented; "refused" is a statement the database refused, caught  *)
(* and returned as the status "error".                                     *)
ActionStatuses == {"null", "created", "assigned", "skipped", "error", "unknown"}
Outcomes == ActionStatuses \cup {"refused"}

(* the actions that write a row: a notification or a task                  *)
Effective == {"null", "created"}

VARIABLES rules,      \* rule -> "new", "on", "off" or "gone"
          events,     \* event -> its request
          toggling,   \* toggle request -> {} or what it read
          effects,    \* committed: <<event, rule, position of the action>>
          logs        \* committed rows of automation_logs

automationVars == <<rules, events, toggling, effects, logs>>

NotTriggered == [stage |-> "new", left |-> {}, now |-> {}, entries |-> <<>>,
                 effects |-> {}, logs |-> {}]
Answered(stage) == [NotTriggered EXCEPT !.stage = stage]

AutomationInit == /\ rules = [r \in Rules |-> "new"]
                  /\ events = [e \in Events |-> NotTriggered]
                  /\ toggling = [q \in Toggles |-> {}]
                  /\ effects = {}
                  /\ logs = {}

Exists(r) == rules[r] \in {"on", "off"}

(* create_rule, and update_rule when it sets `enabled`; ids are not reused *)
SaveRule(r, state) ==
    /\ rules[r] \notin {state, "gone"}
    /\ rules' = [rules EXCEPT ![r] = state]
    /\ UNCHANGED <<events, toggling, effects, logs>>

(* delete_rule.  A request that has logged the rule holds its row by the   *)
(* foreign key, and the deletion waits for that request to end.            *)
HeldBy(r) == {e \in Events : \E l \in events[e].logs : l.rule = r}

DeleteRule(r) ==
    /\ Exists(r) /\ HeldBy(r) = {}
    /\ rules' = [rules EXCEPT ![r] = "gone"]
    /\ logs' = {l \in logs : l.rule # r}
    /\ UNCHANGED <<events, toggling, effects>>

(* toggle_rule: the state is read, then its opposite is written by id *)
ToggleRead(q, r) ==
    /\ toggling[q] = {} /\ Exists(r)
    /\ toggling' = [toggling EXCEPT ![q] = {[rule |-> r, read |-> rules[r]]}]
    /\ UNCHANGED <<rules, events, effects, logs>>

Opposite(state) == IF state = "on" THEN "off" ELSE "on"

ToggleWrite(q) ==
    /\ \E t \in toggling[q] :
           rules' = IF Exists(t.rule)
                    THEN [rules EXCEPT ![t.rule] = Opposite(t.read)]
                    ELSE rules   \* no row is returned: scalar_one raises
    /\ toggling' = [toggling EXCEPT ![q] = {}]
    /\ UNCHANGED <<events, effects, logs>>

(* trigger_event: the enabled rules are read; which of them match is       *)
(* decided by the context of the event.                                    *)
TriggerEvent(e) ==
    /\ events[e].stage = "new"
    /\ \A d \in Events : d < e => events[d].stage # "new"
    /\ \E matched \in SUBSET {r \in Rules : rules[r] = "on"} :
           events' = [events EXCEPT ![e].stage = "running", ![e].left = matched]
    /\ UNCHANGED <<rules, toggling, effects, logs>>

(* The loop takes the rules in whatever order the query gave them. *)
NextRule(e) ==
    /\ events[e].stage = "running" /\ events[e].now = {}
    /\ \E r \in events[e].left :
           events' = [events EXCEPT ![e].left = @ \ {r}, ![e].now = {r}]
    /\ UNCHANGED <<rules, toggling, effects, logs>>

(* _execute_action.  The rule is the copy read by the query: switching it  *)
(* off or deleting it does not stop the loop.                              *)
RunAction(e) ==
    /\ events[e].stage = "running"
    /\ \E r \in events[e].now, out \in Outcomes :
           /\ Len(events[e].entries) < ActionsOf[r]
           /\ events' = [events EXCEPT
                  ![e].entries = Append(@, IF out = "refused" THEN "error" ELSE out),
                  ![e].stage = IF out = "refused" THEN "doomed" ELSE @,
                  ![e].effects = IF out \in Effective
                                 THEN @ \cup {<<r, Len(events[e].entries) + 1>>} ELSE @]
    /\ UNCHANGED <<rules, toggling, effects, logs>>

(* `errors` is filled by an AppException only, and _execute_action returns *)
(* those as a status: whatever the entries say, the list is empty.         *)
LogStatus(entries) == "success"

RanAll(e, r) == r \in events[e].now /\ Len(events[e].entries) = ActionsOf[r]

(* The log row is added and flushed, which needs the rule's row. *)
WriteLog(e) ==
    /\ events[e].stage = "running"
    /\ \E r \in Rules :
           /\ RanAll(e, r) /\ Exists(r)
           /\ events' = [events EXCEPT
                  ![e].now = {}, ![e].entries = <<>>,
                  ![e].logs = @ \cup {[event |-> e, rule |-> r,
                                       entries |-> events[e].entries,
                                       status |-> LogStatus(events[e].entries)]}]
    /\ UNCHANGED <<rules, toggling, effects, logs>>

(* a mutated form of TriggerFails: what the actions have done stays        *)
TriggerFailsHalfway(e) ==
    /\ events[e].stage \in {"running", "doomed"}
    /\ effects' = effects \cup {<<e, x[1], x[2]>> : x \in events[e].effects}
    /\ events' = [events EXCEPT ![e] = Answered("failed")]
    /\ UNCHANGED <<rules, toggling, logs>>

(* get_db rolls the request back: the rule is gone when its log is         *)
(* flushed, a refused statement has left the session unusable, or the      *)
(* database or the process fails.                                          *)
TriggerFails(e) ==
    /\ events[e].stage \in {"running", "doomed"}
    /\ events' = [events EXCEPT ![e] = Answered("failed")]
    /\ UNCHANGED <<rules, toggling, effects, logs>>

TriggerCommit(e) ==
    /\ events[e].stage = "running"
    /\ events[e].left = {} /\ events[e].now = {}
    /\ effects' = effects \cup {<<e, x[1], x[2]>> : x \in events[e].effects}
    /\ logs' = logs \cup events[e].logs
    /\ events' = [events EXCEPT ![e] = Answered("done")]
    /\ UNCHANGED <<rules, toggling>>

AutomationNext ==
    \/ \E r \in Rules, state \in {"on", "off"} : SaveRule(r, state)
    \/ \E r \in Rules : DeleteRule(r)
    \/ \E q \in Toggles, r \in Rules : ToggleRead(q, r)
    \/ \E q \in Toggles : ToggleWrite(q)
    \/ \E e \in Events : \/ TriggerEvent(e)
                         \/ NextRule(e)
                         \/ RunAction(e)
                         \/ WriteLog(e)
                         \/ TriggerFails(e)
                         \/ TriggerCommit(e)

AutomationSpec == AutomationInit /\ [][AutomationNext]_automationVars

----------------------------------------------------------------------------
LogRow == [event : Events, rule : Rules, entries : Seq(ActionStatuses), status : {"success", "failed"}]

(* Requests, effects and logs are well formed, and a request runs one rule *)
(* at a time (the loop of trigger_event).                                  *)
AutomationTypeOK ==
    /\ rules \in [Rules -> {"new", "on", "off", "gone"}]
    /\ toggling \in [Toggles -> SUBSET [rule : Rules, read : {"on", "off"}]]
    /\ effects \subseteq Events \X Rules \X Nat
    /\ logs \subseteq LogRow
    /\ \A e \in Events :
           /\ events[e].stage \in {"new", "running", "doomed", "done", "failed"}
           /\ events[e].left \subseteq Rules /\ events[e].now \subseteq Rules
           /\ Cardinality(events[e].now) <= 1
           /\ events[e].entries \in Seq(ActionStatuses)
           /\ events[e].effects \subseteq Rules \X Nat
           /\ events[e].logs \subseteq LogRow

(* The notifications and tasks of rules are those of which a log tells:    *)
(* while a rule exists, an action of it wrote one for an event exactly     *)
(* when a log of that event and rule has "created", or no status at all,   *)
(* for the action.  A request that fails half-way, in an action or because *)
(* a rule it runs was deleted, leaves neither (trigger_event and the       *)
(* transaction of get_db).                                                 *)
EffectsHaveLogs ==
    \A e \in Events, r \in Rules : Exists(r) =>
        \A k \in 1 .. ActionsOf[r] :
            <<e, r, k>> \in effects <=>
                \E l \in logs : l.event = e /\ l.rule = r /\ l.entries[k] \in Effective

(* A rule that ran an unknown or failing action is logged as failed        *)
(* (tests/integration/test_automation_rules_ui_integration.py:264 "the     *)
(* unknown action will fail, producing a "failed" log").                   *)
FailuresAreLogged ==
    \A l \in logs : (\E k \in DOMAIN l.entries : l.entries[k] \in {"error", "unknown"})
                        => l.status = "failed"
=============================================================================
