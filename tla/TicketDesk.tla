------------------------------- MODULE TicketDesk -------------------------------
(***************************************************************************)
(* Support tickets: assignment, replies, status and the SLA summary        *)
(* (services/ticket_service.py, sla_service.py, api/routers/tickets.py).   *)
(*                                                                         *)
(* One tenant.  A request is a READ COMMITTED transaction; no row is       *)
(* locked when it is read.  The requests that read, wait for the database  *)
(* and then write have a slot; the others write in one statement.          *)
(* Internal notes change nothing of this; in_progress, pending and closed  *)
(* count as "open" here.  No ticket is ever deleted, and no deadline is    *)
(* ever computed again.                                                    *)
(***************************************************************************)
EXTENDS Integers, Sequences, FiniteSets

CONSTANTS
    AgentPool,      \* the agents of the round robin, a sequence
    Windows,        \* hours the SLA levels leave for a first response
    AtRiskHours,    \* hours before its deadline that a ticket is at risk
    DeskRequests,   \* slots for requests in flight
    MaxTickets,     \* bound: tickets created
    MaxHour         \* bound: the clock

Agents == {AgentPool[i] : i \in DOMAIN AgentPool}
Nobody == "nobody"

(* _AGENT_POOL names each of its agents once                               *)
ASSUME DeskAssumption ==
    /\ DOMAIN AgentPool = 1..Len(AgentPool) /\ Len(AgentPool) \in Nat \ {0}
    /\ \A i, j \in DOMAIN AgentPool : AgentPool[i] = AgentPool[j] => i = j
    /\ Nobody \notin Agents
    /\ Windows \subseteq Nat
    /\ AtRiskHours \in Nat
    /\ MaxTickets \in Nat
    /\ MaxHour \in Nat \ {0}

VARIABLES
    tickets,    \* the rows of tickets, in order of creation
    deskWork,   \* for each slot: what the request has read or computed
    hour,
    disturbed   \* history: the round robin has been interfered with

deskVars == <<tickets, deskWork, hour, disturbed>>

Never == 0
Set == 1     \* a time that nothing is compared with
Statuses == {"open", "resolved"}

(* first_reply is history: an external reply has been committed            *)
Ticket == [status : Statuses, assigned_to : Agents \cup {Nobody}, response_deadline : Nat,
           first_response_at : 0..MaxHour, resolved_at : {Never, Set}, first_reply : {Never, Set}]

Idle == [kind |-> "idle", ticket |-> 0, agent |-> Nobody, time |-> 0, counted |-> 0]
Begin(q, kind, t, agent, time, counted) ==
    deskWork' = [deskWork EXCEPT ![q] =
        [kind |-> kind, ticket |-> t, agent |-> agent, time |-> time, counted |-> counted]]
Done(q) == deskWork' = [deskWork EXCEPT ![q] = Idle]
Free(q) == deskWork[q].kind = "idle"

Count(P(_)) == Cardinality({t \in DOMAIN tickets : P(tickets[t])})
Assigned(t) == t.assigned_to # Nobody
(* a mutated form of NextAgent: the tickets of nobody are counted          *)
NextByUnassigned == AgentPool[(Count(LAMBDA t : ~Assigned(t)) % Len(AgentPool)) + 1]

NextAgent == AgentPool[(Count(Assigned) % Len(AgentPool)) + 1]

(* the agent a request has counted its way to takes the ticket             *)
Disturbs(q) == disturbed' = (disturbed \/ deskWork[q].agent # NextAgent)

-----------------------------------------------------------------------------

(* the deadline is computed from the clock, then the tickets are counted   *)
CreateCount(q, window) ==
    /\ Free(q)
    /\ Begin(q, "create", 0, NextAgent, hour + window, 0)
    /\ UNCHANGED <<tickets, hour, disturbed>>

CreateCommit(q) ==
    /\ deskWork[q].kind = "create"
    /\ Len(tickets) < MaxTickets
    /\ tickets' = Append(tickets,
           [status |-> "open", assigned_to |-> deskWork[q].agent,
            response_deadline |-> deskWork[q].time, first_response_at |-> Never,
            resolved_at |-> Never, first_reply |-> Never])
    /\ Disturbs(q)
    /\ Done(q)
    /\ UNCHANGED hour

(* auto_assign: is anybody assigned, who is next, assign                   *)
AutoAssignRead(q, t) ==
    /\ Free(q)
    /\ ~Assigned(tickets[t])
    /\ Begin(q, "auto_assign", t, Nobody, 0, 0)
    /\ UNCHANGED <<tickets, hour, disturbed>>

AutoAssignCount(q) ==
    /\ deskWork[q].kind = "auto_assign"
    /\ deskWork[q].agent = Nobody
    /\ deskWork' = [deskWork EXCEPT ![q].agent = NextAgent]
    /\ UNCHANGED <<tickets, hour, disturbed>>

AutoAssignCommit(q) ==
    /\ deskWork[q].kind = "auto_assign"
    /\ deskWork[q].agent # Nobody
    /\ tickets' = [tickets EXCEPT ![deskWork[q].ticket].assigned_to = deskWork[q].agent]
    /\ disturbed' = (disturbed \/ Assigned(tickets[deskWork[q].ticket])
                               \/ deskWork[q].agent # NextAgent)
    /\ Done(q)
    /\ UNCHANGED hour

(* update_ticket for one ticket, for all those of a bulk update (one       *)
(* transaction), and for an explicit assignment                            *)
Assign(S, agent) ==
    /\ tickets' = [t \in DOMAIN tickets |->
           IF t \in S THEN [tickets[t] EXCEPT !.assigned_to = agent] ELSE tickets[t]]
    /\ disturbed' = TRUE
    /\ UNCHANGED <<deskWork, hour>>

BulkStatus(S, status) ==
    /\ tickets' = [t \in DOMAIN tickets |->
           IF t \in S THEN [tickets[t] EXCEPT !.status = status] ELSE tickets[t]]
    /\ UNCHANGED <<deskWork, hour, disturbed>>

ChangeStatus(t, status) ==
    /\ tickets' = [tickets EXCEPT
           ![t].status = status,
           ![t].resolved_at = IF status = "resolved" THEN Set ELSE @]
    /\ UNCHANGED <<deskWork, hour, disturbed>>

(* a mutated form of ReplyRead: every reply is a first response            *)
ReplyReadAlways(q, t) ==
    /\ Free(q)
    /\ Begin(q, "unanswered", t, Nobody, Never, 0)
    /\ UNCHANGED <<tickets, hour, disturbed>>

(* A customer-facing reply reads the ticket, and then the clock, which     *)
(* matters only if the ticket had no answer.                               *)
ReplyRead(q, t) ==
    /\ Free(q)
    /\ Begin(q, IF tickets[t].first_response_at = Never THEN "unanswered" ELSE "reply",
             t, Nobody, Never, 0)
    /\ UNCHANGED <<tickets, hour, disturbed>>

ReplyClock(q) ==
    /\ deskWork[q].kind = "unanswered"
    /\ deskWork' = [deskWork EXCEPT ![q].kind = "reply", ![q].time = hour]
    /\ UNCHANGED <<tickets, hour, disturbed>>

ReplyCommit(q) ==
    LET time == deskWork[q].time IN
    /\ deskWork[q].kind = "reply"
    /\ tickets' = [tickets EXCEPT
           ![deskWork[q].ticket].first_response_at = IF time # Never THEN time ELSE @,
           ![deskWork[q].ticket].first_reply = Set]
    /\ Done(q)
    /\ UNCHANGED <<hour, disturbed>>

-----------------------------------------------------------------------------

Overdue(t, now) == t.resolved_at = Never /\ t.response_deadline < now
(* a mutated form of AtRisk: late tickets count as well                    *)
AtRiskOrLate(t, now) ==
    t.resolved_at = Never /\ t.response_deadline <= now + AtRiskHours

AtRisk(t, now) ==
    t.resolved_at = Never /\ t.response_deadline \in now..(now + AtRiskHours)

(* get_sla_summary: three counts, three statements, one clock reading      *)
SummaryBreached(q) ==
    /\ Free(q)
    /\ Begin(q, "at_risk", 0, Nobody, hour, Count(LAMBDA t : Overdue(t, hour)))
    /\ UNCHANGED <<tickets, hour, disturbed>>

SummaryAtRisk(q) ==
    /\ deskWork[q].kind = "at_risk"
    /\ deskWork' = [deskWork EXCEPT
           ![q].kind = "total",
           ![q].counted = @ + Count(LAMBDA t : AtRisk(t, deskWork[q].time))]
    /\ UNCHANGED <<tickets, hour, disturbed>>

OnTrack(q) == Len(tickets) - deskWork[q].counted
SummaryTotal(q) ==
    /\ deskWork[q].kind = "total"
    /\ Done(q)
    /\ UNCHANGED <<tickets, hour, disturbed>>

(* a request that fails is rolled back                                     *)
DeskFails(q) ==
    /\ ~Free(q)
    /\ Done(q)
    /\ UNCHANGED <<tickets, hour, disturbed>>

HourPasses ==
    /\ hour < MaxHour
    /\ hour' = hour + 1
    /\ UNCHANGED <<tickets, deskWork, disturbed>>

DeskInit ==
    /\ tickets = <<>>
    /\ deskWork = [q \in DeskRequests |-> Idle]
    /\ hour = 1
    /\ disturbed = FALSE

CreateStep ==
    \E q \in DeskRequests :
        \/ \E w \in Windows : CreateCount(q, w)
        \/ CreateCommit(q)
        \/ DeskFails(q)

AssignmentStep ==
    \/ \E q \in DeskRequests :
          \/ \E t \in DOMAIN tickets : AutoAssignRead(q, t)
          \/ AutoAssignCount(q)
          \/ AutoAssignCommit(q)
    \/ \E S \in (SUBSET DOMAIN tickets) \ {{}}, a \in Agents \cup {Nobody} : Assign(S, a)

ReplyStep ==
    \E q \in DeskRequests :
        \/ \E t \in DOMAIN tickets : ReplyRead(q, t)
        \/ ReplyClock(q)
        \/ ReplyCommit(q)

SlaStep ==
    \/ \E q \in DeskRequests : SummaryBreached(q) \/ SummaryAtRisk(q) \/ SummaryTotal(q)
    \/ \E S \in (SUBSET DOMAIN tickets) \ {{}}, s \in Statuses : BulkStatus(S, s)
    \/ \E t \in DOMAIN tickets, s \in Statuses : ChangeStatus(t, s)

DeskNext == CreateStep \/ AssignmentStep \/ ReplyStep \/ SlaStep \/ HourPasses

DeskSpec == DeskInit /\ [][DeskNext]_deskVars

-----------------------------------------------------------------------------

DeskTypeOK ==
    /\ tickets \in Seq(Ticket)
    /\ Len(tickets) <= MaxTickets
    /\ deskWork \in [DeskRequests ->
           [kind : {"idle", "create", "auto_assign", "unanswered", "reply", "at_risk", "total"},
            ticket : 0..MaxTickets, agent : Agents \cup {Nobody}, time : Nat,
            counted : 0..MaxTickets]]
    /\ hour \in 1..MaxHour
    /\ disturbed \in BOOLEAN

(* The SLA card adds up: on_track, which get_sla_summary computes as what  *)
(* the other two counts leave of the total, is never negative, although    *)
(* tickets are created, resolved and grow late between the three           *)
(* statements (sla_service.py:67-91).                                      *)
SlaSummaryAddsUp ==
    \A q \in DeskRequests : deskWork[q].kind = "total" => OnTrack(q) >= 0

(* The replies under way that have found the ticket without an answer      *)
FirstReplies(t) ==
    {q \in DeskRequests :
        /\ deskWork[q].ticket = t
        /\ deskWork[q].kind = "unanswered" \/ (deskWork[q].kind = "reply" /\ deskWork[q].time # Never)}

Responded(t) == tickets[t].first_reply # Never /\ FirstReplies(t) = {}

(* Of the replies that overlap with the first one, the last to commit says *)
(* when the first response was (add_reply, ticket_service.py:236-255).     *)
(* Once the last of them has ended, the SLA has a first response to be     *)
(* measured by, and no reply to come changes it.                           *)
FirstResponseSettles ==
    [][\A t \in DOMAIN tickets : Responded(t) =>
          /\ tickets[t].first_response_at # Never
          /\ Responded(t)'
          /\ tickets'[t].first_response_at = tickets[t].first_response_at]_deskVars

(* While nobody is assigned by hand and no two automatic assignments       *)
(* overlap, no agent has two tickets more than another (_next_agent).      *)
RoundRobinIsEven ==
    ~disturbed =>
        \A a, b \in Agents :
            Count(LAMBDA t : t.assigned_to = a) <= Count(LAMBDA t : t.assigned_to = b) + 1

(* "Return all unresolved tickets whose response deadline has passed"      *)
(* (get_sla_breaches, ticket_service.py:411): no resolved ticket is listed. *)
BreachesAreUnresolved ==
    \A t \in DOMAIN tickets :
        Overdue(tickets[t], hour) => tickets[t].status # "resolved"
=============================================================================
