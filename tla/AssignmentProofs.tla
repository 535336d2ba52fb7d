--------------------------- MODULE AssignmentProofs ---------------------------
(***************************************************************************)
(* Theorems about TicketDesk: the first response settles, the SLA summary  *)
(* adds up and the round robin is even, for any agents, deadlines          *)
(* and number of requests.  Theorem about LeadRouting: for any rules,      *)
(* users and number of requests, a lead goes to whom one look at the       *)
(* database would have chosen.                                             *)
(***************************************************************************)
EXTENDS TicketDesk, LeadRouting, FiniteSetTheorems, SequenceTheorems, TLAPS

Job == [kind : {"idle", "create", "auto_assign", "unanswered", "reply", "at_risk", "total"},
        ticket : 0..MaxTickets, agent : Agents \cup {Nobody}, time : Nat,
        counted : 0..MaxTickets]

Late(now) == {t \in DOMAIN tickets : tickets[t].response_deadline < now}

(* A ticket that has had an answer has a time of its first response.       *)
AnswersAreMarked ==
    \A t \in DOMAIN tickets :
        tickets[t].first_response_at = Never <=> tickets[t].first_reply = Never

(* A reply about to be committed has read the clock, or the ticket had an  *)
(* answer before.                                                          *)
ReplyInOrder(job) ==
    /\ job.time <= hour
    /\ job.time = Never => tickets[job.ticket].first_reply # Never

(* What a summary has counted: of the tickets that were late at its time,  *)
(* then of these and those at risk, which are others.                      *)
JobOK(job) ==
    /\ job.kind \in {"auto_assign", "unanswered", "reply"} => job.ticket \in DOMAIN tickets
    /\ job.kind = "reply" => ReplyInOrder(job)
    /\ job.kind = "at_risk" => job.counted <= Cardinality(Late(job.time))
    /\ job.kind = "total" => job.counted <= Len(tickets)

IInv ==
    /\ DeskTypeOK
    /\ AnswersAreMarked
    /\ \A q \in DeskRequests : JobOK(deskWork[q])

-----------------------------------------------------------------------------

LEMMA UpTo ==
  ASSUME NEW n \in Nat
  PROVE  IsFiniteSet(1..n) /\ Cardinality(1..n) = n
<1>1. 1 \in Int /\ n \in Int
  OBVIOUS
<1>2. IsFiniteSet(1..n) /\ Cardinality(1..n) = IF 1 > n THEN 0 ELSE n - 1 + 1
  BY <1>1, FS_Interval
<1> QED BY <1>2

LEMMA CountBounded ==
  ASSUME tickets \in Seq(Ticket), NEW S \in SUBSET DOMAIN tickets
  PROVE  IsFiniteSet(S) /\ Cardinality(S) \in Nat /\ Cardinality(S) <= Len(tickets)
<1>1. Len(tickets) \in Nat /\ DOMAIN tickets = 1..Len(tickets)
  OBVIOUS
<1>2. IsFiniteSet(1..Len(tickets)) /\ Cardinality(1..Len(tickets)) = Len(tickets)
  BY <1>1, UpTo
<1> QED BY <1>1, <1>2, FS_Subset, FS_CardinalityType

LEMMA NextAgentIsAgent ==
  ASSUME tickets \in Seq(Ticket)
  PROVE  NextAgent \in Agents
<1> DEFINE S == {t \in DOMAIN tickets : Assigned(tickets[t])}
<1>1. Count(Assigned) = Cardinality(S)
  BY DEF Count
<1>2. Cardinality(S) \in Nat
  BY CountBounded
<1> HIDE DEF S
<1>3. (Cardinality(S) % Len(AgentPool)) + 1 \in DOMAIN AgentPool
  BY <1>2, DeskAssumption
<1> QED BY <1>1, <1>3 DEF NextAgent, Agents

(* Requests in flight are not disturbed by a step that keeps the deadlines *)
(* and forgets no reply.                                                   *)
TicketsGo ==
    /\ tickets' \in Seq(Ticket) /\ Len(tickets') <= MaxTickets
    /\ hour' \in 1..MaxHour /\ hour <= hour'
    /\ DOMAIN tickets \subseteq DOMAIN tickets'
    /\ \A t \in DOMAIN tickets :
          /\ tickets'[t].response_deadline = tickets[t].response_deadline
          /\ tickets[t].first_reply # Never => tickets'[t].first_reply # Never

LEMMA JobStaysOK ==
  ASSUME IInv, TicketsGo, NEW q \in DeskRequests, deskWork'[q] = deskWork[q]
  PROVE  JobOK(deskWork[q])'
<1> DEFINE job == deskWork[q]
<1>1. /\ job \in Job /\ JobOK(job) /\ tickets \in Seq(Ticket) /\ hour \in 1..MaxHour
      /\ deskWork'[q] = job
  BY DEF IInv, DeskTypeOK, Job
<1>2. job.time \in Nat /\ job.counted \in Nat /\ MaxHour \in Nat
  BY <1>1, DeskAssumption DEF Job
<1>3. Len(tickets) <= Len(tickets') /\ Len(tickets) \in Nat /\ Len(tickets') \in Nat
  <2>1. DOMAIN tickets = 1..Len(tickets) /\ DOMAIN tickets' = 1..Len(tickets')
        /\ Len(tickets) \in Nat /\ Len(tickets') \in Nat
    BY <1>1 DEF TicketsGo
  <2> QED BY <2>1 DEF TicketsGo
<1>4. Cardinality(Late(job.time)) <= Cardinality(Late(job.time)')
  <2>1. Late(job.time) \subseteq Late(job.time)'
    BY <1>1 DEF TicketsGo, Late
  <2>2. Late(job.time) \subseteq DOMAIN tickets /\ Late(job.time)' \subseteq DOMAIN tickets'
    BY <1>1 DEF Late
  <2>3. IsFiniteSet(Late(job.time)')
    <3>1. DOMAIN tickets' = 1..Len(tickets')
      BY DEF TicketsGo
    <3> QED BY <1>3, <2>2, <3>1, UpTo, FS_Subset
  <2> QED BY <2>1, <2>3, FS_Subset
<1>5. Cardinality(Late(job.time)) \in Nat /\ Cardinality(Late(job.time)') \in Nat
  <2>1. DOMAIN tickets' = 1..Len(tickets') /\ Late(job.time)' \subseteq DOMAIN tickets'
    BY <1>1 DEF TicketsGo, Late
  <2>2. IsFiniteSet(Late(job.time)')
    BY <1>3, <2>1, UpTo, FS_Subset
  <2>3. Late(job.time) \subseteq DOMAIN tickets
    BY DEF Late
  <2> QED BY <1>1, <2>2, <2>3, CountBounded, FS_CardinalityType
<1>6. job.kind = "reply" => ReplyInOrder(job)'
  <2> SUFFICES ASSUME job.kind = "reply"
               PROVE  ReplyInOrder(job)'
    OBVIOUS
  <2>1. job.ticket \in DOMAIN tickets /\ ReplyInOrder(job)
    BY <1>1 DEF JobOK
  <2> QED BY <1>1, <1>2, <2>1 DEF ReplyInOrder, TicketsGo, Never
<1>7. job.kind \in {"auto_assign", "unanswered", "reply"} => job.ticket \in DOMAIN tickets'
  BY <1>1 DEF JobOK, TicketsGo
<1>8. /\ job.kind = "at_risk" => job.counted <= Cardinality(Late(job.time)')
      /\ job.kind = "total" => job.counted <= Len(tickets')
  BY <1>1, <1>2, <1>3, <1>4, <1>5 DEF JobOK
<1> QED BY <1>1, <1>6, <1>7, <1>8 DEF JobOK

(* A step of one request: the others stay as they are.                     *)
LEMMA JobStep ==
  ASSUME IInv, TicketsGo, AnswersAreMarked', disturbed' \in BOOLEAN,
         NEW q \in DeskRequests, NEW job \in Job,
         deskWork' = [deskWork EXCEPT ![q] = job], JobOK(deskWork[q])'
  PROVE  IInv'
<1>1. deskWork \in [DeskRequests -> Job]
  BY DEF IInv, DeskTypeOK, Job
<1>2. deskWork' \in [DeskRequests -> Job]
  BY <1>1
<1>3. DeskTypeOK'
  BY <1>2 DEF DeskTypeOK, Job, TicketsGo
<1>4. \A r \in DeskRequests : JobOK(deskWork[r])'
  <2> SUFFICES ASSUME NEW r \in DeskRequests, r # q
               PROVE  JobOK(deskWork[r])'
    OBVIOUS
  <2>1. deskWork'[r] = deskWork[r]
    BY <1>1
  <2> QED BY <2>1, JobStaysOK
<1> QED BY <1>3, <1>4 DEF IInv

(* A step of no request.                                                   *)
LEMMA DeskTypedStep ==
  ASSUME IInv, TicketsGo, AnswersAreMarked', disturbed' \in BOOLEAN,
         UNCHANGED deskWork
  PROVE  IInv'
<1>1. DeskTypeOK'
  BY DEF IInv, DeskTypeOK, TicketsGo
<1>2. \A r \in DeskRequests : JobOK(deskWork[r])'
  BY JobStaysOK
<1> QED BY <1>1, <1>2 DEF IInv

LEMMA NoTicketTouched ==
  ASSUME IInv, UNCHANGED <<tickets, hour>>
  PROVE  TicketsGo /\ AnswersAreMarked'
<1>1. tickets \in Seq(Ticket) /\ Len(tickets) <= MaxTickets /\ hour \in 1..MaxHour
  BY DEF IInv, DeskTypeOK
<1>2. TicketsGo
  BY <1>1 DEF TicketsGo
<1>3. AnswersAreMarked'
  BY DEF IInv, AnswersAreMarked
<1> QED BY <1>2, <1>3

(* Tickets change in what no request in flight depends on.                 *)
LEMMA TicketsTouched ==
  ASSUME IInv, UNCHANGED hour, DOMAIN tickets' = DOMAIN tickets, tickets' \in Seq(Ticket),
         \A t \in DOMAIN tickets :
             /\ tickets'[t].response_deadline = tickets[t].response_deadline
             /\ tickets'[t].first_response_at = tickets[t].first_response_at
             /\ tickets'[t].first_reply = tickets[t].first_reply
  PROVE  TicketsGo /\ AnswersAreMarked'
<1>1. tickets \in Seq(Ticket) /\ Len(tickets) <= MaxTickets /\ hour \in 1..MaxHour
  BY DEF IInv, DeskTypeOK
<1>2. Len(tickets') = Len(tickets)
  <2>1. DOMAIN tickets' = 1..Len(tickets') /\ DOMAIN tickets = 1..Len(tickets)
        /\ Len(tickets) \in Nat /\ Len(tickets') \in Nat
    BY <1>1
  <2> QED BY <2>1, UpTo
<1>3. TicketsGo
  BY <1>1, <1>2 DEF TicketsGo
<1>4. AnswersAreMarked'
  BY DEF IInv, AnswersAreMarked
<1> QED BY <1>3, <1>4

LEMMA JobFields ==
  ASSUME IInv, NEW q \in DeskRequests
  PROVE  /\ deskWork[q] \in Job /\ JobOK(deskWork[q]) /\ deskWork \in [DeskRequests -> Job]
         /\ deskWork[q].time \in Nat /\ deskWork[q].agent \in Agents \cup {Nobody}
         /\ tickets \in Seq(Ticket) /\ hour \in 1..MaxHour /\ hour \in Nat /\ hour # 0
         /\ disturbed \in BOOLEAN
<1>1. /\ deskWork[q] \in Job /\ JobOK(deskWork[q]) /\ deskWork \in [DeskRequests -> Job]
      /\ tickets \in Seq(Ticket) /\ hour \in 1..MaxHour /\ disturbed \in BOOLEAN
  BY DEF IInv, DeskTypeOK, Job
<1> QED BY <1>1, DeskAssumption DEF Job

LEMMA DoneStep ==
  ASSUME IInv, TicketsGo, AnswersAreMarked', disturbed' \in BOOLEAN,
         NEW q \in DeskRequests, Done(q)
  PROVE  IInv'
<1>1. Idle \in Job
  BY DeskAssumption DEF Idle, Job
<1>2. deskWork'[q] = Idle
  BY JobFields DEF Done
<1>3. JobOK(deskWork[q])'
  BY <1>2 DEF JobOK, Idle
<1> QED BY <1>1, <1>3, JobStep DEF Done

LEMMA FailStep ==
  ASSUME IInv, NEW q \in DeskRequests, DeskFails(q) \/ SummaryTotal(q)
  PROVE  IInv'
BY NoTicketTouched, DoneStep, JobFields DEF DeskFails, SummaryTotal

LEMMA CreateCountStep ==
  ASSUME IInv, NEW q \in DeskRequests, NEW w \in Windows, CreateCount(q, w)
  PROVE  IInv'
<1> DEFINE job == [kind |-> "create", ticket |-> 0, agent |-> NextAgent, time |-> hour + w,
                   counted |-> 0]
<1>1. job \in Job
  BY JobFields, NextAgentIsAgent, DeskAssumption DEF Job
<1>2. deskWork' = [deskWork EXCEPT ![q] = job] /\ job.kind = "create"
  BY DEF CreateCount, Begin
<1> HIDE DEF job
<1>3. JobOK(deskWork[q])'
  BY <1>2, JobFields DEF JobOK
<1> QED BY <1>1, <1>2, <1>3, JobStep, NoTicketTouched, JobFields DEF CreateCount

LEMMA CreateCommitStep ==
  ASSUME IInv, NEW q \in DeskRequests, CreateCommit(q)
  PROVE  IInv'
<1> DEFINE new == [status |-> "open", assigned_to |-> deskWork[q].agent,
                   response_deadline |-> deskWork[q].time, first_response_at |-> Never,
                   resolved_at |-> Never, first_reply |-> Never]
<1>1. new \in Ticket /\ new.first_response_at = Never /\ new.first_reply = Never
  BY JobFields, DeskAssumption DEF Ticket, Never, Statuses, Set
<1>2. tickets' = Append(tickets, new) /\ Len(tickets) < MaxTickets /\ hour' = hour
  BY DEF CreateCommit
<1> HIDE DEF new
<1>3. /\ tickets' \in Seq(Ticket) /\ Len(tickets') = Len(tickets) + 1
      /\ DOMAIN tickets' = DOMAIN tickets \cup {Len(tickets) + 1}
      /\ \A t \in DOMAIN tickets : tickets'[t] = tickets[t]
      /\ tickets'[Len(tickets) + 1] = new
      /\ Len(tickets) \in Nat
  BY <1>1, <1>2, JobFields
<1>4. TicketsGo
  BY <1>2, <1>3, JobFields, DeskAssumption DEF TicketsGo
<1>5. AnswersAreMarked'
  BY <1>1, <1>3 DEF IInv, AnswersAreMarked, Never
<1> QED BY <1>4, <1>5, DoneStep, JobFields DEF CreateCommit, Disturbs

LEMMA AutoAssignReadStep ==
  ASSUME IInv, NEW q \in DeskRequests, NEW t \in DOMAIN tickets,
         AutoAssignRead(q, t) \/ ReplyRead(q, t)
  PROVE  IInv'
<1>1. t \in 0..MaxTickets
  BY DeskAssumption DEF IInv, DeskTypeOK
<1>2. PICK job \in Job :
          /\ deskWork' = [deskWork EXCEPT ![q] = job]
          /\ job.ticket = t
          /\ job.time = Never
          /\ \/ job.kind \in {"auto_assign", "unanswered"}
             \/ job.kind = "reply" /\ tickets[t].first_response_at # Never
  <2> DEFINE Made(kind) == [kind |-> kind, ticket |-> t, agent |-> Nobody, time |-> 0,
                            counted |-> 0]
  <2>1. Made("auto_assign") \in Job /\ Made("unanswered") \in Job /\ Made("reply") \in Job
    BY <1>1, DeskAssumption DEF Job
  <2> QED BY <2>1 DEF AutoAssignRead, ReplyRead, Begin, Never
<1>3. tickets' = tickets /\ hour' = hour /\ disturbed' = disturbed /\ deskWork'[q] = job
  BY <1>2, JobFields DEF AutoAssignRead, ReplyRead
<1>4. ASSUME job.kind = "reply"
      PROVE  ReplyInOrder(deskWork[q])'
  BY <1>2, <1>3, <1>4, JobFields DEF ReplyInOrder, Never, IInv, AnswersAreMarked
<1>5. JobOK(deskWork[q])'
  BY <1>2, <1>3, <1>4 DEF JobOK
<1> QED BY <1>2, <1>3, <1>5, JobStep, NoTicketTouched, JobFields

LEMMA ReplyClockStep ==
  ASSUME IInv, NEW q \in DeskRequests, ReplyClock(q)
  PROVE  IInv'
<1> DEFINE job == [deskWork[q] EXCEPT !.kind = "reply", !.time = hour]
<1>1. /\ job \in Job /\ job.kind = "reply" /\ job.ticket = deskWork[q].ticket
      /\ job.time = hour
  BY JobFields DEF Job
<1>2. deskWork' = [deskWork EXCEPT ![q] = job] /\ hour' = hour /\ tickets' = tickets
  BY DEF ReplyClock
<1> HIDE DEF job
<1>3. deskWork'[q] = job
  BY <1>2, JobFields
<1>4. ReplyInOrder(deskWork[q])'
  BY <1>1, <1>2, <1>3, JobFields DEF ReplyInOrder, Never
<1>5. job.ticket \in DOMAIN tickets
  BY <1>1, JobFields DEF JobOK, ReplyClock
<1>6. JobOK(deskWork[q])'
  BY <1>1, <1>2, <1>3, <1>4, <1>5 DEF JobOK
<1> QED BY <1>1, <1>2, <1>6, JobStep, NoTicketTouched, JobFields DEF ReplyClock

LEMMA AutoAssignCountStep ==
  ASSUME IInv, NEW q \in DeskRequests, AutoAssignCount(q)
  PROVE  IInv'
<1> DEFINE job == [deskWork[q] EXCEPT !.agent = NextAgent]
<1>1. job \in Job /\ job.kind = "auto_assign" /\ job.ticket = deskWork[q].ticket
  BY JobFields, NextAgentIsAgent DEF AutoAssignCount, Job
<1>2. deskWork' = [deskWork EXCEPT ![q] = job]
  BY DEF AutoAssignCount
<1> HIDE DEF job
<1>3. JobOK(deskWork[q])'
  BY <1>1, <1>2, JobFields DEF JobOK, AutoAssignCount
<1> QED BY <1>1, <1>2, <1>3, JobStep, NoTicketTouched, JobFields DEF AutoAssignCount

LEMMA AutoAssignCommitStep ==
  ASSUME IInv, NEW q \in DeskRequests, AutoAssignCommit(q)
  PROVE  IInv'
<1> DEFINE t == deskWork[q].ticket
           row == [tickets[t] EXCEPT !.assigned_to = deskWork[q].agent]
<1>1. t \in DOMAIN tickets /\ tickets[t] \in Ticket
  BY JobFields DEF AutoAssignCommit, JobOK
<1>2. row \in Ticket /\ row.response_deadline = tickets[t].response_deadline
      /\ row.first_response_at = tickets[t].first_response_at
      /\ row.first_reply = tickets[t].first_reply
  BY <1>1, JobFields DEF Ticket
<1>3. tickets' = [tickets EXCEPT ![t] = row]
  BY DEF AutoAssignCommit
<1> HIDE DEF row
<1>4. tickets' \in Seq(Ticket) /\ DOMAIN tickets' = DOMAIN tickets
  BY <1>1, <1>2, <1>3, JobFields, ExceptSeq
<1>5. TicketsGo /\ AnswersAreMarked'
  BY <1>1, <1>2, <1>3, <1>4, TicketsTouched DEF AutoAssignCommit
<1> QED BY <1>5, DoneStep, JobFields DEF AutoAssignCommit

(* update_ticket and bulk updates: the rows of a set change alike.         *)
LEMMA RowsStep ==
  ASSUME IInv, disturbed' \in BOOLEAN, UNCHANGED <<deskWork, hour>>,
         DOMAIN tickets' = DOMAIN tickets, tickets' \in [DOMAIN tickets -> Ticket],
         \A t \in DOMAIN tickets :
             /\ tickets'[t].response_deadline = tickets[t].response_deadline
             /\ tickets'[t].first_response_at = tickets[t].first_response_at
             /\ tickets'[t].first_reply = tickets[t].first_reply
  PROVE  IInv'
<1>1. tickets' \in Seq(Ticket)
  <2>1. tickets \in Seq(Ticket) /\ DOMAIN tickets = 1..Len(tickets) /\ Len(tickets) \in Nat
    BY DEF IInv, DeskTypeOK
  <2> QED BY <2>1, SeqDef
<1> QED BY <1>1, TicketsTouched, DeskTypedStep

LEMMA UpdateSteps ==
  ASSUME IInv
  PROVE  /\ \A S \in SUBSET DOMAIN tickets, a \in Agents \cup {Nobody} : Assign(S, a) => IInv'
         /\ \A S \in SUBSET DOMAIN tickets, s \in Statuses : BulkStatus(S, s) => IInv'
         /\ \A t \in DOMAIN tickets, s \in Statuses : ChangeStatus(t, s) => IInv'
<1>. tickets \in [DOMAIN tickets -> Ticket] /\ disturbed \in BOOLEAN
  BY DEF IInv, DeskTypeOK
<1>1. ASSUME NEW S \in SUBSET DOMAIN tickets, NEW a \in Agents \cup {Nobody}, Assign(S, a)
      PROVE  IInv'
  <2>1. \A t \in DOMAIN tickets : [tickets[t] EXCEPT !.assigned_to = a] \in Ticket
    BY DEF Ticket
  <2>2. tickets' \in [DOMAIN tickets -> Ticket]
    BY <1>1, <2>1 DEF Assign
  <2> QED BY <1>1, <2>2, RowsStep DEF Assign, Ticket
<1>2. ASSUME NEW S \in SUBSET DOMAIN tickets, NEW s \in Statuses, BulkStatus(S, s)
      PROVE  IInv'
  <2>1. \A t \in DOMAIN tickets : [tickets[t] EXCEPT !.status = s] \in Ticket
    BY DEF Ticket
  <2>2. tickets' \in [DOMAIN tickets -> Ticket]
    BY <1>2, <2>1 DEF BulkStatus
  <2> QED BY <1>2, <2>2, RowsStep DEF BulkStatus, Ticket
<1>3. ASSUME NEW t \in DOMAIN tickets, NEW s \in Statuses, ChangeStatus(t, s)
      PROVE  IInv'
  <2> DEFINE resolved == IF s = "resolved" THEN Set ELSE tickets[t].resolved_at
  <2>1. [tickets[t] EXCEPT !.status = s, !.resolved_at = resolved] \in Ticket
    BY DEF Ticket
  <2>2. tickets' \in [DOMAIN tickets -> Ticket]
    BY <1>3, <2>1 DEF ChangeStatus
  <2> QED BY <1>3, <2>2, RowsStep DEF ChangeStatus, Ticket
<1> QED BY <1>1, <1>2, <1>3

(* What a reply makes of its ticket                                        *)
Replied(ticket, time) ==
    [ticket EXCEPT !.first_response_at = IF time # Never THEN time ELSE @, !.first_reply = Set]

LEMMA ReplyCommitStep ==
  ASSUME IInv, NEW q \in DeskRequests, ReplyCommit(q)
  PROVE  IInv'
<1> DEFINE t == deskWork[q].ticket
           time == deskWork[q].time
           old == tickets[t]
           first == IF time # Never THEN time ELSE old.first_response_at
           row == [old EXCEPT !.first_response_at = first, !.first_reply = Set]
<1>1. t \in DOMAIN tickets /\ old \in Ticket /\ ReplyInOrder(deskWork[q])
  BY JobFields DEF ReplyCommit, JobOK
<1>2. time \in 0..MaxHour
  BY <1>1, JobFields, DeskAssumption DEF ReplyInOrder
<1>3. old.first_response_at = Never <=> old.first_reply = Never
  BY <1>1 DEF IInv, AnswersAreMarked
<1>9. first \in 0..MaxHour /\ first # Never
  <2>1. old.first_response_at \in 0..MaxHour
    BY <1>1 DEF Ticket
  <2> QED BY <1>1, <1>2, <1>3, <2>1 DEF ReplyInOrder
<1>5. tickets' = [tickets EXCEPT ![t] = row] /\ hour' = hour /\ disturbed' = disturbed
  BY DEF ReplyCommit
<1> HIDE DEF first
<1>4. /\ row \in Ticket /\ row.response_deadline = old.response_deadline
      /\ row.first_response_at # Never /\ row.first_reply # Never
  <2>1. row \in Ticket
    BY <1>1, <1>9 DEF Ticket, Never, Set
  <2>2. row.first_response_at = first /\ row.first_reply = Set
        /\ row.response_deadline = old.response_deadline
    BY <1>1 DEF Ticket
  <2> QED BY <1>9, <2>1, <2>2 DEF Never, Set
<1> HIDE DEF row
<1>6. tickets' \in Seq(Ticket) /\ DOMAIN tickets' = DOMAIN tickets
      /\ Len(tickets') = Len(tickets)
  BY <1>1, <1>4, <1>5, JobFields, ExceptSeq
<1>7. TicketsGo
  <2>1. Len(tickets) <= MaxTickets
    BY DEF IInv, DeskTypeOK
  <2> QED BY <1>1, <1>4, <1>5, <1>6, <2>1, JobFields DEF TicketsGo
<1>8. AnswersAreMarked'
  BY <1>1, <1>4, <1>5, <1>6 DEF IInv, AnswersAreMarked
<1> QED BY <1>5, <1>7, <1>8, DoneStep, JobFields DEF ReplyCommit

LEMMA HourStep ==
  ASSUME IInv, HourPasses
  PROVE  IInv'
<1>1. tickets \in Seq(Ticket) /\ Len(tickets) <= MaxTickets /\ hour \in 1..MaxHour
      /\ disturbed \in BOOLEAN
  BY DEF IInv, DeskTypeOK
<1>2. TicketsGo
  BY <1>1, DeskAssumption DEF HourPasses, TicketsGo
<1>3. AnswersAreMarked'
  BY DEF HourPasses, IInv, AnswersAreMarked
<1> QED BY <1>1, <1>2, <1>3, DeskTypedStep DEF HourPasses

(* The three statements of get_sla_summary.                                *)
LEMMA SummaryBreachedStep ==
  ASSUME IInv, NEW q \in DeskRequests, SummaryBreached(q)
  PROVE  IInv'
<1> DEFINE S == {t \in DOMAIN tickets : Overdue(tickets[t], hour)}
           job == [kind |-> "at_risk", ticket |-> 0, agent |-> Nobody, time |-> hour,
                   counted |-> Cardinality(S)]
<1>1. S \subseteq Late(hour) /\ Late(hour) \subseteq DOMAIN tickets
  BY DEF Overdue, Late
<1>2. /\ Cardinality(S) \in Nat /\ Cardinality(S) <= Len(tickets)
      /\ Cardinality(S) <= Cardinality(Late(hour))
  <2>1. IsFiniteSet(Late(hour))
    BY <1>1, JobFields, CountBounded
  <2> HIDE DEF S
  <2> QED BY <1>1, <2>1, JobFields, CountBounded, FS_Subset
<1>3. Cardinality(S) \in 0..MaxTickets
  <2> HIDE DEF S
  <2> QED BY <1>2, DeskAssumption DEF IInv, DeskTypeOK
<1>4. deskWork' = [deskWork EXCEPT ![q] = job]
  BY DEF SummaryBreached, Begin, Count
<1> HIDE DEF S
<1>5. job \in Job
  BY <1>3, JobFields, DeskAssumption DEF Job
<1>6. JobOK(deskWork[q])'
  <2>1. /\ deskWork'[q].kind = "at_risk" /\ deskWork'[q].time = hour /\ tickets' = tickets
        /\ deskWork'[q].counted = Cardinality(S)
    BY <1>4, JobFields DEF SummaryBreached
  <2>2. Late(deskWork[q].time)' = Late(hour)
    BY <2>1 DEF Late
  <2> QED BY <1>2, <2>1, <2>2 DEF JobOK
<1> QED BY <1>4, <1>5, <1>6, JobStep, NoTicketTouched, JobFields DEF SummaryBreached

LEMMA SummaryAtRiskStep ==
  ASSUME IInv, NEW q \in DeskRequests, SummaryAtRisk(q)
  PROVE  IInv'
<1> DEFINE now == deskWork[q].time
           S == {t \in DOMAIN tickets : AtRisk(tickets[t], now)}
           counted == deskWork[q].counted + Cardinality(S)
           job == [deskWork[q] EXCEPT !.kind = "total", !.counted = counted]
<1>1. S \subseteq DOMAIN tickets /\ Late(now) \subseteq DOMAIN tickets
  BY DEF Late
<1>2. S \cap Late(now) = {}
  <2> SUFFICES ASSUME NEW t \in DOMAIN tickets, AtRisk(tickets[t], now), t \in Late(now)
               PROVE  FALSE
    OBVIOUS
  <2>1. tickets[t] \in Ticket
    BY DEF IInv, DeskTypeOK
  <2>2. tickets[t].response_deadline \in Nat /\ now \in Nat
    BY <2>1, JobFields DEF Ticket
  <2> QED BY <2>2, DeskAssumption DEF AtRisk, Late
<1>3. /\ IsFiniteSet(S) /\ IsFiniteSet(Late(now))
      /\ Cardinality(S) \in Nat /\ Cardinality(Late(now)) \in Nat
      /\ Cardinality(S \cup Late(now)) <= Len(tickets)
  <2> HIDE DEF S
  <2> QED BY <1>1, JobFields, CountBounded
<1>4. Cardinality(S \cup Late(now)) = Cardinality(S) + Cardinality(Late(now))
  <2>1. Cardinality(S \cup Late(now)) = Cardinality(S) + Cardinality(Late(now)) - Cardinality({})
    <3> HIDE DEF S
    <3> QED BY <1>2, <1>3, FS_Union
  <2> HIDE DEF S
  <2> QED BY <1>3, <2>1, FS_EmptySet
<1>5. deskWork[q].kind = "at_risk" /\ deskWork[q].counted <= Cardinality(Late(now))
      /\ deskWork[q].counted \in Nat
  BY JobFields, DeskAssumption DEF SummaryAtRisk, JobOK, Job
<1>6. deskWork' = [deskWork EXCEPT ![q].kind = "total", ![q].counted = counted]
  BY DEF SummaryAtRisk, Count
<1> HIDE DEF S
<1>7. counted <= Len(tickets) /\ counted \in Nat /\ Len(tickets) \in Nat
      /\ Len(tickets) <= MaxTickets
  BY <1>3, <1>4, <1>5, JobFields DEF IInv, DeskTypeOK
<1>8. counted \in 0..MaxTickets
  BY <1>7, DeskAssumption
<1> HIDE DEF counted
<1>9. job \in Job /\ job.kind = "total" /\ job.counted = counted
  BY <1>8, JobFields DEF Job
<1>10. deskWork' = [deskWork EXCEPT ![q] = job]
  BY <1>6
<1> HIDE DEF job
<1>11. JobOK(deskWork[q])'
  <2>1. deskWork'[q] = job /\ tickets' = tickets
    BY <1>10, JobFields DEF SummaryAtRisk
  <2> QED BY <1>7, <1>9, <2>1 DEF JobOK
<1> QED BY <1>9, <1>10, <1>11, JobStep, NoTicketTouched, JobFields DEF SummaryAtRisk

-----------------------------------------------------------------------------

LEMMA InitIInv == DeskInit => IInv
<1> SUFFICES ASSUME DeskInit
             PROVE  IInv
  OBVIOUS
<1>1. Idle \in Job
  BY DeskAssumption DEF Idle, Job
<1>2. AnswersAreMarked /\ \A q \in DeskRequests : JobOK(deskWork[q])
  BY DEF DeskInit, AnswersAreMarked, JobOK, Idle
<1>3. hour \in 1..MaxHour
  BY DeskAssumption DEF DeskInit
<1>4. DeskTypeOK
  <2>1. tickets \in Seq(Ticket) /\ Len(tickets) = 0
    BY EmptySeq DEF DeskInit
  <2>2. Len(tickets) <= MaxTickets
    BY <2>1, DeskAssumption
  <2>3. deskWork \in [DeskRequests -> Job] /\ disturbed \in BOOLEAN
    BY <1>1 DEF DeskInit
  <2> QED BY <1>3, <2>1, <2>2, <2>3 DEF DeskTypeOK, Job
<1> QED BY <1>2, <1>4 DEF IInv

LEMMA StepIInv == IInv /\ [DeskNext]_deskVars => IInv'
<1> SUFFICES ASSUME IInv, [DeskNext]_deskVars
             PROVE  IInv'
  OBVIOUS
<1>1. CASE UNCHANGED deskVars
  <2>1. disturbed \in BOOLEAN
    BY DEF IInv, DeskTypeOK
  <2> QED BY <1>1, <2>1, NoTicketTouched, DeskTypedStep DEF deskVars
<1>2. CASE CreateStep
  BY <1>2, CreateCountStep, CreateCommitStep, FailStep DEF CreateStep
<1>3. CASE AssignmentStep
  BY <1>3, AutoAssignReadStep, AutoAssignCountStep, AutoAssignCommitStep, UpdateSteps
  DEF AssignmentStep
<1>4. CASE ReplyStep
  BY <1>4, AutoAssignReadStep, ReplyClockStep, ReplyCommitStep DEF ReplyStep
<1>5. CASE SlaStep
  BY <1>5, SummaryBreachedStep, SummaryAtRiskStep, FailStep, UpdateSteps DEF SlaStep
<1> QED BY <1>1, <1>2, <1>3, <1>4, <1>5, HourStep DEF DeskNext

(* A step takes no first response to a ticket that has had one and is      *)
(* waiting for no other, and keeps its time.                               *)
Opens(job, t) ==
    /\ job.ticket = t
    /\ job.kind = "unanswered" \/ (job.kind = "reply" /\ job.time # Never)

LEMMA NobodyOpens ==
  ASSUME NEW t
  PROVE  /\ FirstReplies(t) = {} <=> \A q \in DeskRequests : ~Opens(deskWork[q], t)
         /\ FirstReplies(t)' = {} <=> \A q \in DeskRequests : ~Opens(deskWork'[q], t)
BY DEF FirstReplies, Opens

Settled(t) ==
    /\ tickets[t].first_response_at # Never
    /\ Responded(t)'
    /\ tickets'[t].first_response_at = tickets[t].first_response_at

LEMMA OthersSettle ==
  ASSUME IInv, NEW t \in DOMAIN tickets, Responded(t),
         tickets'[t].first_response_at = tickets[t].first_response_at,
         tickets'[t].first_reply # Never,
         NEW q \in DeskRequests, \A r \in DeskRequests \ {q} : deskWork'[r] = deskWork[r],
         ~Opens(deskWork'[q], t)
  PROVE  Settled(t)
<1>1. tickets[t].first_response_at # Never
  BY DEF IInv, AnswersAreMarked, Responded
<1>2. \A r \in DeskRequests : ~Opens(deskWork'[r], t)
  BY NobodyOpens DEF Responded
<1> QED BY <1>1, <1>2, NobodyOpens DEF Settled, Responded

LEMMA RequestsSettle ==
  ASSUME IInv, NEW t \in DOMAIN tickets, Responded(t), NEW q \in DeskRequests
  PROVE  /\ \A w \in Windows : CreateCount(q, w) => Settled(t)
         /\ CreateCommit(q) => Settled(t)
         /\ DeskFails(q) => Settled(t)
         /\ \A u \in DOMAIN tickets : AutoAssignRead(q, u) => Settled(t)
         /\ AutoAssignCount(q) => Settled(t)
         /\ SummaryBreached(q) \/ SummaryAtRisk(q) \/ SummaryTotal(q) => Settled(t)
<1>1. /\ deskWork \in [DeskRequests -> Job] /\ tickets[t].first_reply # Never
      /\ \A r \in DeskRequests : ~Opens(deskWork[r], t)
      /\ tickets \in Seq(Ticket)
  BY JobFields, NobodyOpens DEF Responded
<1>2. ASSUME NEW job, deskWork' = [deskWork EXCEPT ![q] = job], ~Opens(job, t),
             tickets' = tickets
      PROVE  Settled(t)
  BY <1>1, <1>2, OthersSettle
<1>3. ~Opens(Idle, t)
  BY DEF Opens, Idle
<1>4. ASSUME NEW w \in Windows, CreateCount(q, w)
      PROVE  Settled(t)
  BY <1>2, <1>4 DEF CreateCount, Begin, Opens
<1>5. ASSUME CreateCommit(q)
      PROVE  Settled(t)
  <2>1. tickets'[t] = tickets[t]
    BY <1>1, <1>5 DEF CreateCommit
  <2>2. deskWork' = [deskWork EXCEPT ![q] = Idle]
    BY <1>5 DEF CreateCommit, Done
  <2>3. deskWork'[q] = Idle /\ \A r \in DeskRequests \ {q} : deskWork'[r] = deskWork[r]
    BY <1>1, <2>2
  <2> QED BY <1>1, <1>3, <2>1, <2>3, OthersSettle
<1>6. ASSUME DeskFails(q) \/ SummaryTotal(q)
      PROVE  Settled(t)
  BY <1>2, <1>3, <1>6 DEF DeskFails, SummaryTotal, Done
<1>7. ASSUME NEW u \in DOMAIN tickets, AutoAssignRead(q, u)
      PROVE  Settled(t)
  BY <1>2, <1>7 DEF AutoAssignRead, Begin, Opens
<1>8. ASSUME AutoAssignCount(q)
      PROVE  Settled(t)
  <2> DEFINE job == [deskWork[q] EXCEPT !.agent = NextAgent]
  <2>1. job.kind = "auto_assign"
    BY <1>8, JobFields DEF AutoAssignCount, Job
  <2>2. deskWork' = [deskWork EXCEPT ![q] = job] /\ tickets' = tickets
    BY <1>8 DEF AutoAssignCount
  <2> HIDE DEF job
  <2> QED BY <1>2, <2>1, <2>2 DEF Opens
<1>9. ASSUME SummaryBreached(q)
      PROVE  Settled(t)
  BY <1>2, <1>9 DEF SummaryBreached, Begin, Opens
<1>10. ASSUME SummaryAtRisk(q)
       PROVE  Settled(t)
  <2>1. PICK job \in Job : job.kind = "total" /\ deskWork' = [deskWork EXCEPT ![q] = job]
                           /\ tickets' = tickets
    <3> DEFINE counted == deskWork[q].counted + Count(LAMBDA u : AtRisk(u, deskWork[q].time))
               new == [deskWork[q] EXCEPT !.kind = "total", !.counted = counted]
    <3>1. deskWork' = [deskWork EXCEPT ![q] = new] /\ tickets' = tickets
      BY <1>10 DEF SummaryAtRisk
    <3> HIDE DEF counted
    <3>2. IInv'
      BY <1>10, SummaryAtRiskStep
    <3>3. deskWork'[q] \in Job
      BY <3>2 DEF IInv, DeskTypeOK, Job
    <3>4. new.kind = "total"
      BY JobFields DEF Job
    <3>5. deskWork'[q] = new
      BY <1>1, <3>1
    <3> HIDE DEF new
    <3> QED BY <3>1, <3>3, <3>4, <3>5
  <2> QED BY <1>2, <2>1 DEF Opens
<1> QED BY <1>4, <1>5, <1>6, <1>7, <1>8, <1>9, <1>10

LEMMA TicketsSettle ==
  ASSUME IInv, NEW t \in DOMAIN tickets, Responded(t), UNCHANGED deskWork,
         tickets'[t].first_response_at = tickets[t].first_response_at,
         tickets'[t].first_reply = tickets[t].first_reply
  PROVE  Settled(t)
BY NobodyOpens DEF Settled, Responded, IInv, AnswersAreMarked

LEMMA UpdatesSettle ==
  ASSUME IInv, NEW t \in DOMAIN tickets, Responded(t)
  PROVE  /\ \A S \in SUBSET DOMAIN tickets, a \in Agents \cup {Nobody} :
                Assign(S, a) => Settled(t)
         /\ \A S \in SUBSET DOMAIN tickets, s \in Statuses : BulkStatus(S, s) => Settled(t)
         /\ \A u \in DOMAIN tickets, s \in Statuses : ChangeStatus(u, s) => Settled(t)
<1>1. tickets[t] \in Ticket /\ tickets \in Seq(Ticket)
  BY DEF IInv, DeskTypeOK
<1>2. ASSUME NEW S \in SUBSET DOMAIN tickets, NEW a \in Agents \cup {Nobody}, Assign(S, a)
      PROVE  Settled(t)
  BY <1>1, <1>2, TicketsSettle DEF Assign, Ticket
<1>3. ASSUME NEW S \in SUBSET DOMAIN tickets, NEW s \in Statuses, BulkStatus(S, s)
      PROVE  Settled(t)
  BY <1>1, <1>3, TicketsSettle DEF BulkStatus, Ticket
<1>4. ASSUME NEW u \in DOMAIN tickets, NEW s \in Statuses, ChangeStatus(u, s)
      PROVE  Settled(t)
  BY <1>1, <1>4, TicketsSettle DEF ChangeStatus, Ticket
<1> QED BY <1>2, <1>3, <1>4

LEMMA AssigningSettles ==
  ASSUME IInv, NEW t \in DOMAIN tickets, Responded(t), NEW q \in DeskRequests,
         AutoAssignCommit(q)
  PROVE  Settled(t)
<1>1. deskWork \in [DeskRequests -> Job] /\ tickets[t] \in Ticket /\ tickets \in Seq(Ticket)
      /\ deskWork[q].ticket \in DOMAIN tickets
  BY JobFields DEF AutoAssignCommit, JobOK, IInv, DeskTypeOK
<1>2. /\ tickets'[t].first_response_at = tickets[t].first_response_at
      /\ tickets'[t].first_reply = tickets[t].first_reply
  BY <1>1 DEF AutoAssignCommit, Ticket
<1>3. deskWork'[q] = Idle /\ \A r \in DeskRequests \ {q} : deskWork'[r] = deskWork[r]
  BY <1>1 DEF AutoAssignCommit, Done
<1> QED BY <1>2, <1>3, OthersSettle DEF Opens, Idle, Responded

LEMMA RepliesSettle ==
  ASSUME IInv, NEW t \in DOMAIN tickets, Responded(t), NEW q \in DeskRequests
  PROVE  /\ \A u \in DOMAIN tickets : ReplyRead(q, u) => Settled(t)
         /\ ReplyClock(q) => Settled(t)
         /\ ReplyCommit(q) => Settled(t)
<1>1. /\ deskWork \in [DeskRequests -> Job] /\ tickets[t].first_reply # Never
      /\ tickets[t].first_response_at # Never
      /\ ~Opens(deskWork[q], t) /\ tickets[t] \in Ticket /\ tickets \in Seq(Ticket)
  <2>1. tickets[t].first_reply # Never /\ ~Opens(deskWork[q], t)
    BY NobodyOpens DEF Responded
  <2>2. tickets[t].first_response_at # Never
    BY <2>1 DEF IInv, AnswersAreMarked
  <2> QED BY <2>1, <2>2, JobFields
<1>2. ASSUME NEW u \in DOMAIN tickets, ReplyRead(q, u)
      PROVE  Settled(t)
  <2> DEFINE job == [kind |-> IF tickets[u].first_response_at = Never
                              THEN "unanswered" ELSE "reply",
                     ticket |-> u, agent |-> Nobody, time |-> Never, counted |-> 0]
  <2>1. deskWork' = [deskWork EXCEPT ![q] = job] /\ tickets' = tickets
    BY <1>2 DEF ReplyRead, Begin
  <2>2. ~Opens(job, t)
    BY <1>1 DEF Opens
  <2> HIDE DEF job
  <2>3. deskWork'[q] = job /\ \A r \in DeskRequests \ {q} : deskWork'[r] = deskWork[r]
    BY <1>1, <2>1
  <2> QED BY <1>1, <2>1, <2>2, <2>3, OthersSettle
<1>3. ASSUME ReplyClock(q)
      PROVE  Settled(t)
  <2> DEFINE job == [deskWork[q] EXCEPT !.kind = "reply", !.time = hour]
  <2>1. job.ticket = deskWork[q].ticket /\ deskWork[q].ticket # t
    BY <1>1, <1>3, JobFields DEF ReplyClock, Opens, Job
  <2>2. deskWork' = [deskWork EXCEPT ![q] = job] /\ tickets' = tickets
    BY <1>3 DEF ReplyClock
  <2> HIDE DEF job
  <2>3. deskWork'[q] = job /\ \A r \in DeskRequests \ {q} : deskWork'[r] = deskWork[r]
    BY <1>1, <2>2
  <2> QED BY <1>1, <2>1, <2>2, <2>3, OthersSettle DEF Opens
<1>4. ASSUME ReplyCommit(q)
      PROVE  Settled(t)
  <2> DEFINE u == deskWork[q].ticket
             row == Replied(tickets[u], deskWork[q].time)
  <2>1. u \in DOMAIN tickets /\ tickets[u] \in Ticket
    BY <1>4, JobFields DEF ReplyCommit, JobOK
  <2>2. tickets' = [tickets EXCEPT ![u] = row]
    BY <1>4 DEF ReplyCommit, Replied
  <2>3. u = t => deskWork[q].time = Never
    BY <1>1, <1>4 DEF ReplyCommit, Opens
  <2>4. /\ row.first_reply # Never
        /\ u = t => row.first_response_at = tickets[t].first_response_at
    BY <2>1, <2>3 DEF Replied, Ticket, Never, Set
  <2> HIDE DEF row
  <2>5. /\ tickets'[t].first_response_at = tickets[t].first_response_at
        /\ tickets'[t].first_reply # Never
    BY <1>1, <2>1, <2>2, <2>4
  <2>6. deskWork'[q] = Idle /\ \A r \in DeskRequests \ {q} : deskWork'[r] = deskWork[r]
    BY <1>1, <1>4 DEF ReplyCommit, Done
  <2> QED BY <2>5, <2>6, OthersSettle DEF Opens, Idle
<1> QED BY <1>2, <1>3, <1>4

LEMMA StepSettles ==
  ASSUME IInv, [DeskNext]_deskVars, NEW t \in DOMAIN tickets, Responded(t)
  PROVE  Settled(t)
<1>1. CASE UNCHANGED deskVars
  BY <1>1, TicketsSettle DEF deskVars
<1>2. CASE CreateStep
  BY <1>2, RequestsSettle DEF CreateStep
<1>3. CASE AssignmentStep
  BY <1>3, RequestsSettle, AssigningSettles, UpdatesSettle DEF AssignmentStep
<1>4. CASE ReplyStep
  BY <1>4, RepliesSettle DEF ReplyStep
<1>5. CASE SlaStep
  BY <1>5, RequestsSettle, UpdatesSettle DEF SlaStep
<1>6. CASE HourPasses
  BY <1>6, TicketsSettle DEF HourPasses
<1> QED BY <1>1, <1>2, <1>3, <1>4, <1>5, <1>6 DEF DeskNext

(* However many replies overlap and whatever the order in which they read  *)
(* the ticket and the clock and commit, the first response of a ticket is  *)
(* settled once the last reply that found it unanswered has ended          *)
(* (add_reply, ticket_service.py).                                         *)
THEOREM FirstResponseAlwaysSettles == DeskSpec => FirstResponseSettles
<1>1. IInv /\ [DeskNext]_deskVars =>
        [\A t \in DOMAIN tickets : Responded(t) =>
            /\ tickets[t].first_response_at # Never
            /\ Responded(t)'
            /\ tickets'[t].first_response_at = tickets[t].first_response_at]_deskVars
  BY StepSettles DEF Settled
<1> QED BY InitIInv, StepIInv, <1>1, PTL DEF DeskSpec, FirstResponseSettles

(* on_track is never negative, whatever happens to the tickets between the *)
(* statements of a summary (get_sla_summary, sla_service.py).              *)
THEOREM SlaSummaryAlwaysAddsUp == DeskSpec => []SlaSummaryAddsUp
<1>1. IInv => SlaSummaryAddsUp
  <2> SUFFICES ASSUME IInv, NEW q \in DeskRequests, deskWork[q].kind = "total"
               PROVE  OnTrack(q) >= 0
    BY DEF SlaSummaryAddsUp
  <2>1. deskWork[q].counted <= Len(tickets) /\ deskWork[q].counted \in Nat /\ Len(tickets) \in Nat
    BY JobFields, DeskAssumption DEF JobOK, Job
  <2> QED BY <2>1 DEF OnTrack
<1> QED BY InitIInv, StepIInv, <1>1, PTL DEF DeskSpec

-----------------------------------------------------------------------------
(* The round robin.                                                        *)

TicketsOf(a) == {t \in DOMAIN tickets : tickets[t].assigned_to = a}
AssignedTickets == {t \in DOMAIN tickets : Assigned(tickets[t])}

(* The first agents of the pool, as many as the rest of the division says, *)
(* have a ticket more than the others.                                     *)
Even ==
    \E k \in Nat : \A i \in DOMAIN AgentPool :
        Cardinality(TicketsOf(AgentPool[i]))
            = k + (IF i <= (Cardinality(AssignedTickets) % Len(AgentPool)) THEN 1 ELSE 0)

LEMMA ModNext ==
  ASSUME NEW N \in Nat, NEW L \in Nat \ {0}
  PROVE  /\ (N % L) \in 0..(L - 1)
         /\ ((N + 1) % L) = IF (N % L) + 1 = L THEN 0 ELSE (N % L) + 1
<1> DEFINE q == N \div L
           r == N % L
           q1 == (N + 1) \div L
           r1 == (N + 1) % L
<1>1. r \in 0..(L - 1) /\ N = L * q + r /\ q \in Int
  OBVIOUS
<1>2. r1 \in 0..(L - 1) /\ N + 1 = L * q1 + r1 /\ q1 \in Int
  OBVIOUS
<1> HIDE DEF q, r, q1, r1
<1>3. L * (q1 - q) = r + 1 - r1
  BY <1>1, <1>2
<1>4. q1 - q \in {0, 1}
  BY <1>1, <1>2, <1>3
<1>5. r1 = IF r + 1 = L THEN 0 ELSE r + 1
  BY <1>1, <1>2, <1>3, <1>4
<1> QED BY <1>1, <1>5 DEF r, r1

LEMMA NextIsAfterTheRest ==
  NextAgent = AgentPool[(Cardinality(AssignedTickets) % Len(AgentPool)) + 1]
BY DEF NextAgent, Count, AssignedTickets

(* Who is assigned stays so: then the round robin stays even.              *)
LEMMA SameAssignments ==
  ASSUME Even, DOMAIN tickets' = DOMAIN tickets,
         \A t \in DOMAIN tickets : tickets'[t].assigned_to = tickets[t].assigned_to
  PROVE  Even'
<1>1. \A a \in Agents : TicketsOf(a)' = TicketsOf(a)
  BY DEF TicketsOf
<1>2. AssignedTickets' = AssignedTickets
  BY DEF AssignedTickets, Assigned
<1> QED BY <1>1, <1>2 DEF Even, Agents

(* One ticket more, or one that nobody had, goes to the next agent.        *)
LEMMA OneMoreAssigned ==
  ASSUME Even, tickets \in Seq(Ticket), NEW n, NEW next, next = NextAgent,
         DOMAIN tickets' = DOMAIN tickets \cup {n}, n \notin AssignedTickets,
         \A t \in DOMAIN tickets \ {n} : tickets'[t].assigned_to = tickets[t].assigned_to,
         tickets'[n].assigned_to = next
  PROVE  Even'
<1> DEFINE N == Cardinality(AssignedTickets)
           L == Len(AgentPool)
           r == N % L
<1>1. /\ IsFiniteSet(AssignedTickets) /\ N \in Nat
      /\ \A a \in Agents : IsFiniteSet(TicketsOf(a)) /\ Cardinality(TicketsOf(a)) \in Nat
  BY CountBounded DEF AssignedTickets, TicketsOf
<1>2. r \in 0..(L - 1) /\ ((N + 1) % L) = IF r + 1 = L THEN 0 ELSE r + 1
  BY <1>1, ModNext, DeskAssumption
<1>3. next = AgentPool[r + 1] /\ r + 1 \in DOMAIN AgentPool /\ next \in Agents /\ next # Nobody
  BY <1>2, NextIsAfterTheRest, DeskAssumption DEF Agents
<1>4. AssignedTickets' = AssignedTickets \cup {n}
  BY <1>3 DEF AssignedTickets, Assigned
<1>5. Cardinality(AssignedTickets') = N + 1
  BY <1>1, <1>4, FS_AddElement
<1>6. TicketsOf(next)' = TicketsOf(next) \cup {n} /\ n \notin TicketsOf(next)
  <2>1. n \notin TicketsOf(next)
    BY <1>3 DEF TicketsOf, AssignedTickets, Assigned
  <2>2. \A t \in DOMAIN tickets : t # n =>
            (t \in TicketsOf(next) <=> tickets'[t].assigned_to = next)
    BY DEF TicketsOf
  <2>3. TicketsOf(next) \subseteq DOMAIN tickets
    BY DEF TicketsOf
  <2>4. \A t : t \in TicketsOf(next)' <=> t \in DOMAIN tickets' /\ tickets'[t].assigned_to = next
    BY DEF TicketsOf
  <2> QED BY <2>1, <2>2, <2>3, <2>4
<1>7. Cardinality(TicketsOf(next)') = Cardinality(TicketsOf(next)) + 1
  BY <1>1, <1>3, <1>6, FS_AddElement
<1>8. ASSUME NEW a \in Agents \ {next}
      PROVE  TicketsOf(a)' = TicketsOf(a)
  <2>1. n \notin TicketsOf(a)
    BY DeskAssumption DEF TicketsOf, AssignedTickets, Assigned
  <2>2. n \notin TicketsOf(a)'
    BY DEF TicketsOf
  <2>3. \A t \in DOMAIN tickets : t # n => (t \in TicketsOf(a) <=> t \in TicketsOf(a)')
    BY DEF TicketsOf
  <2>4. TicketsOf(a) \subseteq DOMAIN tickets /\ TicketsOf(a)' \subseteq DOMAIN tickets \cup {n}
    BY DEF TicketsOf
  <2>5. \A t : t \in TicketsOf(a)' <=> t \in TicketsOf(a)
    BY <2>1, <2>2, <2>3, <2>4
  <2> QED BY <2>5
<1>9. \A i \in DOMAIN AgentPool :
          /\ AgentPool[i] \in Agents
          /\ Cardinality(TicketsOf(AgentPool[i])')
                = Cardinality(TicketsOf(AgentPool[i])) + (IF i = r + 1 THEN 1 ELSE 0)
  <2> SUFFICES ASSUME NEW i \in DOMAIN AgentPool
               PROVE  /\ AgentPool[i] \in Agents
                      /\ Cardinality(TicketsOf(AgentPool[i])')
                            = Cardinality(TicketsOf(AgentPool[i])) + (IF i = r + 1 THEN 1 ELSE 0)
    OBVIOUS
  <2>1. AgentPool[i] \in Agents /\ i \in Nat
    BY DeskAssumption DEF Agents
  <2>2. CASE i = r + 1
    BY <1>3, <1>7, <2>1, <2>2
  <2>3. CASE i # r + 1
    <3>1. AgentPool[i] # next
      BY <1>3, <2>3, DeskAssumption
    <3>2. TicketsOf(AgentPool[i])' = TicketsOf(AgentPool[i])
      BY <1>8, <2>1, <3>1
    <3>3. Cardinality(TicketsOf(AgentPool[i])) \in Nat
      BY <1>1, <2>1
    <3> QED BY <2>1, <2>3, <3>2, <3>3
  <2> QED BY <2>2, <2>3
<1>10. PICK k \in Nat : \A i \in DOMAIN AgentPool :
           Cardinality(TicketsOf(AgentPool[i])) = k + (IF i <= r THEN 1 ELSE 0)
  BY DEF Even
<1> DEFINE k1 == IF r + 1 = L THEN k + 1 ELSE k
           r1 == IF r + 1 = L THEN 0 ELSE r + 1
<1> HIDE DEF N, r
<1>11. k1 \in Nat /\ \A i \in DOMAIN AgentPool :
           Cardinality(TicketsOf(AgentPool[i])') = k1 + (IF i <= r1 THEN 1 ELSE 0)
  <2>1. k1 \in Nat
    BY <1>10
  <2> SUFFICES ASSUME NEW i \in DOMAIN AgentPool
               PROVE  Cardinality(TicketsOf(AgentPool[i])') = k1 + (IF i <= r1 THEN 1 ELSE 0)
    BY <2>1
  <2>2. Cardinality(TicketsOf(AgentPool[i])')
            = k + (IF i <= r THEN 1 ELSE 0) + (IF i = r + 1 THEN 1 ELSE 0)
    BY <1>9, <1>10
  <2>3. i \in 1..L /\ r \in 0..(L - 1) /\ L \in Nat
    BY <1>2, DeskAssumption
  <2> QED BY <1>10, <2>2, <2>3
<1>12. (Cardinality(AssignedTickets') % Len(AgentPool)) = r1
  BY <1>2, <1>5
<1> HIDE DEF k1, r1
<1>13. \A i \in DOMAIN AgentPool : Cardinality(TicketsOf(AgentPool[i]))'
           = k1 + (IF i <= (Cardinality(AssignedTickets)' % Len(AgentPool)) THEN 1 ELSE 0)
  BY <1>11, <1>12
<1> QED BY <1>11, <1>13 DEF Even

RInv == IInv /\ (disturbed \/ Even)

LEMMA InitRInv == DeskInit => RInv
<1> SUFFICES ASSUME DeskInit
             PROVE  Even
  BY InitIInv DEF RInv
<1>1. DOMAIN tickets = {}
  BY DEF DeskInit
<1>2. AssignedTickets = {} /\ \A a \in Agents : TicketsOf(a) = {}
  BY <1>1 DEF AssignedTickets, TicketsOf
<1>3. Cardinality(AssignedTickets) = 0 /\ \A a \in Agents : Cardinality(TicketsOf(a)) = 0
  BY <1>2, FS_EmptySet
<1>4. (0 % Len(AgentPool)) = 0
  BY DeskAssumption
<1>5. \A i \in DOMAIN AgentPool : i \in Nat /\ i > 0 /\ AgentPool[i] \in Agents
  BY DeskAssumption DEF Agents
<1>6. \A i \in DOMAIN AgentPool : Cardinality(TicketsOf(AgentPool[i])) = 0 + 0
  BY <1>3, <1>5
<1> QED BY <1>3, <1>4, <1>5, <1>6 DEF Even

LEMMA CreateKeepsEven ==
  ASSUME RInv, NEW q \in DeskRequests, CreateCommit(q), ~disturbed'
  PROVE  Even'
<1> DEFINE n == Len(tickets) + 1
           new == [status |-> "open", assigned_to |-> deskWork[q].agent,
                   response_deadline |-> deskWork[q].time, first_response_at |-> Never,
                   resolved_at |-> Never, first_reply |-> Never]
<1>1. Even /\ tickets \in Seq(Ticket) /\ deskWork[q].agent = NextAgent
  BY JobFields DEF RInv, CreateCommit, Disturbs
<1>2. new \in Ticket
  BY JobFields, DeskAssumption DEF Ticket, Never, Statuses, Set, RInv
<1>3. tickets' = Append(tickets, new) /\ new.assigned_to = NextAgent
  BY <1>1 DEF CreateCommit
<1> HIDE DEF new
<1>4. /\ DOMAIN tickets' = DOMAIN tickets \cup {n} /\ n \notin DOMAIN tickets
      /\ \A t \in DOMAIN tickets : tickets'[t] = tickets[t]
      /\ tickets'[n].assigned_to = NextAgent
  BY <1>1, <1>2, <1>3
<1> HIDE DEF n
<1>5. n \notin AssignedTickets
  BY <1>4 DEF AssignedTickets
<1> QED BY <1>1, <1>4, <1>5, OneMoreAssigned

LEMMA AutoAssignKeepsEven ==
  ASSUME RInv, NEW q \in DeskRequests, AutoAssignCommit(q), ~disturbed'
  PROVE  Even'
<1> DEFINE n == deskWork[q].ticket
<1>1. Even /\ tickets \in Seq(Ticket) /\ deskWork[q].agent = NextAgent /\ ~Assigned(tickets[n])
  BY JobFields DEF RInv, AutoAssignCommit
<1>2. n \in DOMAIN tickets /\ tickets[n] \in Ticket
  BY JobFields DEF RInv, AutoAssignCommit, JobOK
<1>3. tickets' = [tickets EXCEPT ![n].assigned_to = NextAgent]
  BY <1>1 DEF AutoAssignCommit
<1> HIDE DEF n
<1>4. /\ DOMAIN tickets' = DOMAIN tickets \cup {n}
      /\ \A t \in DOMAIN tickets \ {n} : tickets'[t].assigned_to = tickets[t].assigned_to
      /\ tickets'[n].assigned_to = NextAgent
  BY <1>1, <1>2, <1>3 DEF Ticket
<1>5. n \notin AssignedTickets
  BY <1>1 DEF AssignedTickets
<1> QED BY <1>1, <1>4, <1>5, OneMoreAssigned

(* All other steps leave the assignments alone, or disturb the round robin. *)
LEMMA StepRInv == RInv /\ [DeskNext]_deskVars => RInv'
<1> SUFFICES ASSUME RInv, [DeskNext]_deskVars, ~disturbed'
             PROVE  Even'
  BY StepIInv DEF RInv
<1>0. \A q \in DeskRequests : disturbed /\ (CreateCommit(q) \/ AutoAssignCommit(q)) => disturbed'
  BY DEF CreateCommit, Disturbs, AutoAssignCommit
<1>1. ASSUME NEW q \in DeskRequests, CreateCommit(q)
      PROVE  Even'
  BY <1>1, CreateKeepsEven
<1>2. ASSUME NEW q \in DeskRequests, AutoAssignCommit(q)
      PROVE  Even'
  BY <1>2, AutoAssignKeepsEven
<1>3. ASSUME UNCHANGED disturbed, DOMAIN tickets' = DOMAIN tickets,
             \A t \in DOMAIN tickets : tickets'[t].assigned_to = tickets[t].assigned_to
      PROVE  Even'
  BY <1>3, SameAssignments DEF RInv
<1>4. ASSUME UNCHANGED <<tickets, disturbed>>
      PROVE  Even'
  BY <1>3, <1>4
<1>5. ASSUME NEW q \in DeskRequests, ReplyCommit(q)
      PROVE  Even'
  <2> DEFINE t == deskWork[q].ticket
             time == deskWork[q].time
             old == tickets[t]
             row == Replied(old, time)
  <2>1. t \in DOMAIN tickets /\ old \in Ticket /\ tickets \in Seq(Ticket)
    BY <1>5, JobFields DEF RInv, ReplyCommit, JobOK
  <2>2. tickets' = [tickets EXCEPT ![t] = row] /\ disturbed' = disturbed
    BY <1>5 DEF ReplyCommit, Replied
  <2>3. row.assigned_to = old.assigned_to
    BY <2>1 DEF Ticket, Replied
  <2> HIDE DEF row
  <2> QED BY <1>3, <2>1, <2>2, <2>3
<1>6. ASSUME NEW S \in SUBSET DOMAIN tickets, NEW s \in Statuses, BulkStatus(S, s)
      PROVE  Even'
  <2>1. \A t \in DOMAIN tickets : tickets[t] \in Ticket
    BY DEF RInv, IInv, DeskTypeOK
  <2>2. \A t \in DOMAIN tickets : tickets'[t].assigned_to = tickets[t].assigned_to
    BY <1>6, <2>1 DEF BulkStatus, Ticket
  <2> QED BY <1>3, <1>6, <2>2 DEF BulkStatus
<1>7. ASSUME NEW t \in DOMAIN tickets, NEW s \in Statuses, ChangeStatus(t, s)
      PROVE  Even'
  <2>1. tickets \in Seq(Ticket) /\ tickets[t] \in Ticket
    BY DEF RInv, IInv, DeskTypeOK
  <2> DEFINE row == [tickets[t] EXCEPT !.status = s,
                        !.resolved_at = IF s = "resolved" THEN Set ELSE @]
  <2>2. tickets' = [tickets EXCEPT ![t] = row] /\ disturbed' = disturbed
    BY <1>7 DEF ChangeStatus
  <2>3. row.assigned_to = tickets[t].assigned_to
    BY <2>1 DEF Ticket
  <2> HIDE DEF row
  <2> QED BY <1>3, <2>1, <2>2, <2>3
<1>8. CASE UNCHANGED deskVars
  BY <1>4, <1>8 DEF deskVars
<1>9. CASE CreateStep
  BY <1>1, <1>4, <1>9 DEF CreateStep, CreateCount, DeskFails
<1>10. CASE AssignmentStep
  BY <1>2, <1>4, <1>10 DEF AssignmentStep, AutoAssignRead, AutoAssignCount, Assign
<1>11. CASE ReplyStep
  BY <1>4, <1>5, <1>11 DEF ReplyStep, ReplyRead, ReplyClock
<1>12. CASE SlaStep
  BY <1>4, <1>6, <1>7, <1>12 DEF SlaStep, SummaryBreached, SummaryAtRisk, SummaryTotal
<1>13. CASE HourPasses
  BY <1>4, <1>13 DEF HourPasses
<1> QED BY <1>8, <1>9, <1>10, <1>11, <1>12, <1>13 DEF DeskNext

(* No agent has two tickets more than another, for any pool of agents and  *)
(* however many tickets are created and assigned automatically, as long as *)
(* nobody is assigned by hand and no two automatic assignments overlap     *)
(* (_next_agent, ticket_service.py:65).                                    *)
THEOREM RoundRobinStaysEven == DeskSpec => []RoundRobinIsEven
<1>1. RInv => RoundRobinIsEven
  <2> SUFFICES ASSUME Even, NEW a \in Agents, NEW b \in Agents
               PROVE  Cardinality(TicketsOf(a)) <= Cardinality(TicketsOf(b)) + 1
    BY DEF RInv, RoundRobinIsEven, Count, TicketsOf
  <2>0. PICK k \in Nat : \A i \in DOMAIN AgentPool :
            Cardinality(TicketsOf(AgentPool[i]))
                = k + (IF i <= (Cardinality(AssignedTickets) % Len(AgentPool)) THEN 1 ELSE 0)
    BY DEF Even
  <2>1. \A i \in DOMAIN AgentPool :
            \/ Cardinality(TicketsOf(AgentPool[i])) = k
            \/ Cardinality(TicketsOf(AgentPool[i])) = k + 1
    BY <2>0
  <2>2. \A c \in Agents :
            \/ Cardinality(TicketsOf(c)) = k
            \/ Cardinality(TicketsOf(c)) = k + 1
    BY <2>1 DEF Agents
  <2> QED BY <2>2
<1> QED BY InitRInv, StepRInv, <1>1, PTL DEF DeskSpec

-----------------------------------------------------------------------------
(* Lead routing.                                                           *)

AnyText == {NoText} \cup UNION {RuleTexts[r] : r \in RuleIds}
Rule == [text : AnyText, is_active : BOOLEAN]
Request == [at : {"idle", "rule", "count", "write"}, lead : Incoming \cup {None}, rule : Rule,
            among : SUBSET Sellers, assignee : Sellers \cup {Unowned}, alone : BOOLEAN]

RoutingTyped ==
    /\ ruleRows \in [RuleIds -> Rule]
    /\ activeUsers \subseteq Sellers
    /\ leads \in [Incoming -> [status : {"absent", "lead", "other"}, owner : Sellers \cup {Unowned}]]
    /\ routing \in [RoutingRequests -> Request]

(* The rule one look at the database would choose for l, if any, and the   *)
(* users who come into question then.                                      *)
Chosen(r, l) == IF Matching(l) = {} THEN r = None ELSE r # None /\ Decides(r, l)
Candidates(r) ==
    LET asked == activeUsers \cap (IF r = None THEN Sellers ELSE Asked(ruleRows[r]))
    IN  IF asked = {} THEN activeUsers ELSE asked

(* What a request has read is what it would read now.                      *)
UpToDate(w) ==
    /\ w.at = "rule" /\ w.rule # NoRule =>
          \E r \in RuleIds : Chosen(r, w.lead) /\ w.rule = ruleRows[r]
    /\ w.at = "rule" /\ w.rule = NoRule =>
          \E r \in RuleIds \cup {None} : Chosen(r, w.lead) /\ Candidates(r) = activeUsers
    /\ w.at = "count" =>
          /\ w.among # {}
          /\ \E r \in RuleIds \cup {None} : Chosen(r, w.lead) /\ Candidates(r) = w.among
    /\ w.at = "write" => RoutedAsAWhole(w.lead, w.assignee)

LInv ==
    /\ RoutingTyped
    /\ \A q \in RoutingRequests, w \in Request :
          routing[q] = w /\ w.at # "idle" => w.lead \in Incoming /\ (w.alone => UpToDate(w))

LEMMA RulesTyped ==
  /\ NoRule \in Rule /\ NotRouting \in Request
  /\ \A text \in AnyText : text.priority \in Nat
<1>1. NoText \in AnyText /\ NoText.priority \in Nat
  BY DEF AnyText, NoText
<1>2. NoRule \in Rule
  BY <1>1 DEF NoRule, Rule
<1>3. NotRouting \in Request
  BY <1>2 DEF NotRouting, Request
<1> QED BY <1>1, <1>2, <1>3, RoutingAssumption DEF AnyText

LEMMA LoadsAreNumbers == \A s \in Sellers : OpenLeads(s) \in Nat
<1> SUFFICES ASSUME NEW s \in Sellers
             PROVE  OpenLeads(s) \in Nat
  OBVIOUS
<1> DEFINE S == {l \in Incoming : leads[l].status = "lead" /\ leads[l].owner = s}
<1>1. IsFiniteSet(S)
  BY RoutingAssumption, FS_Subset
<1> QED BY <1>1, FS_CardinalityType DEF OpenLeads

(* One of the least loaded below the threshold, if there are any, is one   *)
(* of the least loaded.                                                    *)
LEMMA FreestIsLeast ==
  ASSUME NEW S \in SUBSET Sellers, NEW threshold \in Nat, NEW s \in Freest(S, threshold)
  PROVE  s \in S /\ \A t \in S : OpenLeads(s) <= OpenLeads(t)
<1> DEFINE under == {t \in S : OpenLeads(t) < threshold}
<1>1. CASE under # {}
  <2>1. s \in under /\ \A t \in under : OpenLeads(s) <= OpenLeads(t)
    BY <1>1 DEF Freest, Least
  <2> QED BY <2>1, LoadsAreNumbers
<1>2. CASE under = {}
  BY <1>2 DEF Freest, Least
<1> QED BY <1>1, <1>2

LEMMA MatchingRuleDecides ==
  ASSUME RoutingTyped, NEW l, NEW r \in MatchingRule(l)
  PROVE  r \in RuleIds /\ Decides(r, l) /\ ruleRows[r] # NoRule
<1>1. r \in Matching(l) /\ r \in RuleIds
  BY DEF MatchingRule, Matching
<1>2. \A s \in RuleIds : ruleRows[s].text.priority \in Nat
  BY RulesTyped DEF RoutingTyped, Rule
<1>3. ruleRows[r].is_active
  BY <1>1 DEF Matching
<1> QED BY <1>1, <1>2, <1>3 DEF Decides, MatchingRule, NoRule

-----------------------------------------------------------------------------

(* What a request has read says the same of the same database.             *)
LEMMA SameReading ==
  ASSUME UNCHANGED <<ruleRows, activeUsers, leads>>, NEW w, UpToDate(w)
  PROVE  UpToDate(w)'
<1>1. ASSUME NEW l PROVE Matching(l)' = Matching(l)
  BY DEF Matching
<1>2. ASSUME NEW s PROVE OpenLeads(s)' = OpenLeads(s)
  BY DEF OpenLeads
<1>3. ASSUME NEW r, NEW l PROVE Decides(r, l)' <=> Decides(r, l)
  BY <1>1 DEF Decides
<1>4. ASSUME NEW r, NEW l PROVE Chosen(r, l)' <=> Chosen(r, l)
  BY <1>1, <1>3 DEF Chosen
<1>5. ASSUME NEW r PROVE Candidates(r)' = Candidates(r)
  BY DEF Candidates, Asked
<1>6. ASSUME NEW l, NEW o PROVE RoutedAsAWhole(l, o)' <=> RoutedAsAWhole(l, o)
  BY <1>1, <1>2, <1>3 DEF RoutedAsAWhole, Asked
<1> QED BY <1>4, <1>5, <1>6 DEF UpToDate

(* A request that reads; the database stays as it is.                      *)
LEMMA ReadStep ==
  ASSUME LInv, NEW q \in RoutingRequests, NEW w \in Request, Go(q, w),
         UNCHANGED <<ruleRows, activeUsers, leads>>,
         w.at # "idle" => w.lead \in Incoming /\ (w.alone => UpToDate(w))
  PROVE  LInv'
<1>1. routing' = [routing EXCEPT ![q] = w] /\ routing \in [RoutingRequests -> Request]
  BY DEF Go, LInv, RoutingTyped
<1>2. RoutingTyped'
  BY <1>1 DEF LInv, RoutingTyped
<1>3. ASSUME NEW p \in RoutingRequests, NEW v \in Request, routing'[p] = v, v.at # "idle"
      PROVE  v.lead \in Incoming /\ (v.alone => UpToDate(v)')
  <2>1. CASE p = q
    BY <1>1, <1>3, <2>1, SameReading
  <2>2. CASE p # q
    BY <1>1, <1>3, <2>2, SameReading DEF LInv
  <2> QED BY <2>1, <2>2
<1> QED BY <1>2, <1>3 DEF LInv

(* After a commit nobody else is alone any more.                           *)
LEMMA CommitStep ==
  ASSUME LInv, NEW Q \in SUBSET RoutingRequests, Committed(Q),
         ruleRows' \in [RuleIds -> Rule], activeUsers' \subseteq Sellers,
         leads' \in [Incoming -> [status : {"absent", "lead", "other"}, owner : Sellers \cup {Unowned}]]
  PROVE  LInv'
<1>1. \A p \in RoutingRequests : routing[p] \in Request
  BY DEF LInv, RoutingTyped
<1>2. \A p \in RoutingRequests :
          \/ routing'[p] = NotRouting
          \/ routing'[p] = [routing[p] EXCEPT !.alone = FALSE]
  BY DEF Committed
<1>3. \A p \in RoutingRequests : [routing[p] EXCEPT !.alone = FALSE] \in Request
  BY <1>1 DEF Request
<1>4. RoutingTyped'
  <2>1. \A p \in RoutingRequests : routing'[p] \in Request
    BY <1>2, <1>3, RulesTyped
  <2>2. routing' = [p \in RoutingRequests |-> routing'[p]]
    BY DEF Committed
  <2>3. routing' \in [RoutingRequests -> Request]
    BY <2>1, <2>2
  <2> QED BY <2>3 DEF RoutingTyped
<1>5. ASSUME NEW p \in RoutingRequests, NEW v \in Request, routing'[p] = v, v.at # "idle"
      PROVE  v.lead \in Incoming /\ ~v.alone
  <2>0. NotRouting.at = "idle"
    BY DEF NotRouting
  <2>1. v = [routing[p] EXCEPT !.alone = FALSE]
    BY <1>2, <1>5, <2>0
  <2>2. v.lead = routing[p].lead /\ v.at = routing[p].at /\ v.alone = FALSE
    BY <1>1, <2>1 DEF Request
  <2>3. routing[p].lead \in Incoming
    BY <1>1, <1>5, <2>2 DEF LInv
  <2> QED BY <2>2, <2>3
<1> QED BY <1>4, <1>5 DEF LInv

(* The rule a new lead is matched with, and whom it asks for.               *)
LEMMA ReceiveKeepsLInv ==
  ASSUME LInv, NEW q \in RoutingRequests, NEW l \in Incoming, ReceiveLead(q, l)
  PROVE  LInv'
<1>1. PICK r \in IF Matching(l) = {} THEN {None} ELSE MatchingRule(l) :
          Go(q, [NotRouting EXCEPT !.at = "rule", !.lead = l,
                             !.rule = IF r = None THEN NoRule ELSE ruleRows[r]])
  BY DEF ReceiveLead
<1> DEFINE w == [NotRouting EXCEPT !.at = "rule", !.lead = l,
                             !.rule = IF r = None THEN NoRule ELSE ruleRows[r]]
<1>2. /\ w.at = "rule" /\ w.lead = l /\ w.alone
      /\ w.rule = IF r = None THEN NoRule ELSE ruleRows[r]
      /\ Go(q, w)
  BY <1>1 DEF NotRouting
<1>3. CASE Matching(l) = {}
  <2>1. r = None /\ w.rule = NoRule
    BY <1>1, <1>2, <1>3
  <2>2. Chosen(None, l)
    BY <1>3 DEF Chosen
  <2>3. Candidates(None) = activeUsers
    BY DEF Candidates, LInv, RoutingTyped
  <2>4. UpToDate(w)
    BY <1>2, <2>1, <2>2, <2>3 DEF UpToDate
  <2>5. w \in Request
    BY <1>2, <2>1, RulesTyped DEF NotRouting, Request
  <2> HIDE DEF w
  <2> QED BY <1>2, <2>4, <2>5, ReadStep DEF ReceiveLead
<1>4. CASE Matching(l) # {}
  <2>1. r \in MatchingRule(l)
    BY <1>1, <1>4
  <2>2. r \in RuleIds /\ Decides(r, l) /\ ruleRows[r] # NoRule
    BY <2>1, MatchingRuleDecides DEF LInv
  <2>3. r # None /\ w.rule = ruleRows[r]
    BY <1>2, <2>2, RoutingAssumption
  <2>4. Chosen(r, l)
    BY <1>4, <2>2, <2>3 DEF Chosen
  <2>5. UpToDate(w)
    BY <1>2, <2>2, <2>3, <2>4 DEF UpToDate
  <2>6. ruleRows[r] \in Rule
    BY <2>2 DEF LInv, RoutingTyped
  <2>7. w \in Request
    BY <1>2, <2>3, <2>6, RulesTyped DEF NotRouting, Request
  <2> HIDE DEF w
  <2> QED BY <1>2, <2>5, <2>7, ReadStep DEF ReceiveLead
<1> QED BY <1>3, <1>4

(* What the steps of a request that is under way may use.                  *)
LEMMA RequestUnderWay ==
  ASSUME LInv, NEW q \in RoutingRequests, routing[q].at # "idle"
  PROVE  /\ routing[q] \in Request
         /\ routing[q].lead \in Incoming
         /\ routing[q].alone => UpToDate(routing[q])
BY DEF LInv, RoutingTyped

LEMMA AtFields ==
  ASSUME NEW q \in RoutingRequests, routing[q] \in Request,
         NEW at \in {"idle", "rule", "count", "write"}, NEW rule \in Rule,
         NEW among \in SUBSET Sellers, NEW assignee \in Sellers \cup {Unowned}
  PROVE  LET w == At(q, at, rule, among, assignee)
         IN  /\ w \in Request
             /\ w.at = at /\ w.rule = rule /\ w.among = among /\ w.assignee = assignee
             /\ w.lead = routing[q].lead /\ w.alone = routing[q].alone
BY DEF At, Request

LEMMA ReadAskedKeepsLInv ==
  ASSUME LInv, NEW q \in RoutingRequests, ReadAsked(q)
  PROVE  LInv'
<1> DEFINE old == routing[q]
           users == activeUsers \cap Asked(old.rule)
<1>1. /\ old \in Request /\ old.lead \in Incoming
      /\ old.at = "rule" /\ old.rule # NoRule
      /\ old.alone => UpToDate(old)
  BY RequestUnderWay DEF ReadAsked
<1>2. users \subseteq Sellers
  BY DEF LInv, RoutingTyped
<1>3. ASSUME old.alone
      PROVE  \E r \in RuleIds : /\ Chosen(r, old.lead)
                                /\ Candidates(r) = IF users = {} THEN activeUsers ELSE users
  <2>1. PICK r \in RuleIds : Chosen(r, old.lead) /\ old.rule = ruleRows[r]
    BY <1>1, <1>3 DEF UpToDate
  <2>2. r # None
    BY RoutingAssumption
  <2>3. Candidates(r) = IF users = {} THEN activeUsers ELSE users
    BY <2>1, <2>2 DEF Candidates
  <2> QED BY <2>1, <2>3
<1>4. CASE users = {}
  <2> DEFINE w == At(q, "rule", NoRule, {}, Unowned)
  <2>1. /\ w \in Request /\ w.at = "rule" /\ w.rule = NoRule
        /\ w.lead = old.lead /\ w.alone = old.alone
    BY <1>1, AtFields, RulesTyped
  <2>2. Go(q, w)
    BY <1>4 DEF ReadAsked
  <2> HIDE DEF w
  <2>3. w.alone => UpToDate(w)
    BY <1>3, <1>4, <2>1 DEF UpToDate
  <2> QED BY <1>1, <2>1, <2>2, <2>3, ReadStep DEF ReadAsked
<1>5. CASE users # {}
  <2> DEFINE w == At(q, "count", old.rule, users, Unowned)
  <2>0. old.rule \in Rule
    BY <1>1 DEF Request
  <2>1. /\ w \in Request /\ w.at = "count" /\ w.among = users
        /\ w.lead = old.lead /\ w.alone = old.alone
    BY <1>1, <1>2, <2>0, AtFields
  <2>2. Go(q, w)
    BY <1>5 DEF ReadAsked
  <2> HIDE DEF w
  <2>3. w.alone => UpToDate(w)
    BY <1>3, <1>5, <2>1 DEF UpToDate
  <2> QED BY <1>1, <2>1, <2>2, <2>3, ReadStep DEF ReadAsked
<1> QED BY <1>4, <1>5

LEMMA ReadActiveKeepsLInv ==
  ASSUME LInv, NEW q \in RoutingRequests, ReadActive(q)
  PROVE  LInv'
<1> DEFINE old == routing[q]
           at == IF activeUsers = {} THEN "write" ELSE "count"
           w == At(q, at, NoRule, activeUsers, Unowned)
<1>1. /\ old \in Request /\ old.lead \in Incoming
      /\ old.at = "rule" /\ old.rule = NoRule
      /\ old.alone => UpToDate(old)
  BY RequestUnderWay DEF ReadActive
<1>2. activeUsers \in SUBSET Sellers /\ at \in {"idle", "rule", "count", "write"}
  BY DEF LInv, RoutingTyped
<1>3. /\ w \in Request /\ w.at = at /\ w.among = activeUsers /\ w.assignee = Unowned
      /\ w.lead = old.lead /\ w.alone = old.alone
  BY <1>1, <1>2, AtFields, RulesTyped
<1>4. Go(q, w)
  BY DEF ReadActive
<1> HIDE DEF w
<1>5. w.alone => UpToDate(w)
  BY <1>1, <1>3 DEF UpToDate, RoutedAsAWhole
<1>6. w.at # "idle"
  BY <1>3
<1> QED BY <1>1, <1>3, <1>4, <1>5, ReadStep DEF ReadActive

LEMMA CountKeepsLInv ==
  ASSUME LInv, NEW q \in RoutingRequests, CountLeads(q)
  PROVE  LInv'
<1> DEFINE old == routing[q]
<1>1. PICK s \in IF old.rule = NoRule THEN Least(old.among) ELSE Freest(old.among, MaxLoad) :
          Go(q, At(q, "write", NoRule, {}, s))
  BY DEF CountLeads
<1>2. /\ old \in Request /\ old.lead \in Incoming /\ old.at = "count"
      /\ old.alone => UpToDate(old)
  BY RequestUnderWay DEF CountLeads
<1>3. old.among \in SUBSET Sellers
  BY <1>2 DEF Request
<1>4. s \in old.among /\ \A t \in old.among : OpenLeads(s) <= OpenLeads(t)
  <2>1. CASE old.rule = NoRule
    BY <1>1, <2>1 DEF Least
  <2>2. CASE old.rule # NoRule
    BY <1>1, <1>3, <2>2, FreestIsLeast, RoutingAssumption
  <2> QED BY <2>1, <2>2
<1> DEFINE w == At(q, "write", NoRule, {}, s)
<1>5. /\ w \in Request /\ w.at = "write" /\ w.assignee = s
      /\ w.lead = old.lead /\ w.alone = old.alone
  BY <1>2, <1>3, <1>4, AtFields, RulesTyped
<1>6. ASSUME w.alone
      PROVE  RoutedAsAWhole(old.lead, s)
  <2>1. PICK r \in RuleIds \cup {None} : Chosen(r, old.lead) /\ Candidates(r) = old.among
    BY <1>2, <1>5, <1>6 DEF UpToDate
  <2> QED BY <1>4, <2>1 DEF RoutedAsAWhole, Chosen, Candidates
<1> HIDE DEF w
<1>7. w.alone => UpToDate(w)
  BY <1>5, <1>6 DEF UpToDate
<1> QED BY <1>1, <1>2, <1>5, <1>7, ReadStep DEF CountLeads, w

LEMMA AssignKeepsLInv ==
  ASSUME LInv, NEW q \in RoutingRequests, AssignLead(q)
  PROVE  LInv'
<1>1. routing[q].assignee \in Sellers \cup {Unowned}
  BY DEF LInv, RoutingTyped, Request
<1>2. /\ ruleRows' \in [RuleIds -> Rule] /\ activeUsers' \subseteq Sellers
      /\ leads' \in [Incoming -> [status : {"absent", "lead", "other"}, owner : Sellers \cup {Unowned}]]
  BY <1>1 DEF AssignLead, LInv, RoutingTyped
<1> QED BY <1>2, CommitStep DEF AssignLead

LEMMA FailureKeepsLInv ==
  ASSUME LInv, NEW q \in RoutingRequests, RoutingFails(q)
  PROVE  LInv'
<1>1. NotRouting.at = "idle"
  BY DEF NotRouting
<1> QED BY <1>1, RulesTyped, ReadStep DEF RoutingFails

(* The steps of others: leads that are not routed here, rules, users.      *)
LEMMA OthersKeepLInv ==
  ASSUME LInv,
         \/ \E l \in Incoming, o \in Sellers \cup {Unowned} :
               \/ AddUnrouted(l, o)
               \/ \E status \in {"lead", "other"} : ChangeLead(l, status, o)
         \/ \E r \in RuleIds :
               \/ \E text \in RuleTexts[r], active \in BOOLEAN : SaveRoutingRule(r, text, active)
               \/ DeleteRoutingRule(r) \/ ToggleRoutingRule(r)
         \/ \E s \in Sellers : ChangeUser(s)
  PROVE  LInv'
<1>0. Committed({})
  BY DEF AddUnrouted, ChangeLead, SaveRoutingRule, DeleteRoutingRule, ToggleRoutingRule, ChangeUser
<1>1. RoutingTyped
  BY DEF LInv
<1>2. ASSUME NEW l \in Incoming, NEW o \in Sellers \cup {Unowned}, NEW status \in {"lead", "other"},
             leads' = [leads EXCEPT ![l] = [status |-> status, owner |-> o]],
             UNCHANGED <<ruleRows, activeUsers>>
      PROVE  LInv'
  <2>1. /\ ruleRows' \in [RuleIds -> Rule] /\ activeUsers' \subseteq Sellers
        /\ leads' \in [Incoming -> [status : {"absent", "lead", "other"}, owner : Sellers \cup {Unowned}]]
    BY <1>1, <1>2 DEF RoutingTyped
  <2> QED BY <1>0, <2>1, CommitStep
<1>3. ASSUME NEW r \in RuleIds, NEW rule \in Rule, ruleRows' = [ruleRows EXCEPT ![r] = rule],
             UNCHANGED <<activeUsers, leads>>
      PROVE  LInv'
  <2>1. /\ ruleRows' \in [RuleIds -> Rule] /\ activeUsers' \subseteq Sellers
        /\ leads' \in [Incoming -> [status : {"absent", "lead", "other"}, owner : Sellers \cup {Unowned}]]
    BY <1>1, <1>3 DEF RoutingTyped
  <2> QED BY <1>0, <2>1, CommitStep
<1>4. ASSUME NEW l \in Incoming, NEW o \in Sellers \cup {Unowned},
             AddUnrouted(l, o) \/ \E status \in {"lead", "other"} : ChangeLead(l, status, o)
      PROVE  LInv'
  BY <1>2, <1>4 DEF AddUnrouted, ChangeLead
<1>5. ASSUME NEW r \in RuleIds, NEW text \in RuleTexts[r], NEW active \in BOOLEAN,
             SaveRoutingRule(r, text, active)
      PROVE  LInv'
  <2>1. [text |-> text, is_active |-> active] \in Rule
    BY DEF Rule, AnyText
  <2> QED BY <1>3, <1>5, <2>1 DEF SaveRoutingRule
<1>6. ASSUME NEW r \in RuleIds, DeleteRoutingRule(r)
      PROVE  LInv'
  BY <1>3, <1>6, RulesTyped DEF DeleteRoutingRule
<1>7. ASSUME NEW r \in RuleIds, ToggleRoutingRule(r)
      PROVE  LInv'
  <2> DEFINE rule == [ruleRows[r] EXCEPT !.is_active = ~@]
  <2>1. ruleRows[r] \in Rule
    BY <1>1 DEF RoutingTyped
  <2>2. rule \in Rule
    BY <2>1 DEF Rule
  <2>3. ruleRows' = [ruleRows EXCEPT ![r] = rule]
    BY <1>7 DEF ToggleRoutingRule
  <2> HIDE DEF rule
  <2> QED BY <1>3, <1>7, <2>2, <2>3 DEF ToggleRoutingRule
<1>8. ASSUME NEW s \in Sellers, ChangeUser(s)
      PROVE  LInv'
  <2>1. /\ ruleRows' \in [RuleIds -> Rule] /\ activeUsers' \subseteq Sellers
        /\ leads' \in [Incoming -> [status : {"absent", "lead", "other"}, owner : Sellers \cup {Unowned}]]
    BY <1>1, <1>8 DEF RoutingTyped, ChangeUser
  <2> QED BY <1>0, <2>1, CommitStep
<1> QED BY <1>4, <1>5, <1>6, <1>7, <1>8

LEMMA InitLInv == RoutingInit => LInv
<1> SUFFICES ASSUME RoutingInit
             PROVE  LInv
  OBVIOUS
<1>1. RoutingTyped
  BY RulesTyped DEF RoutingInit, RoutingTyped, NoLead
<1>2. NotRouting.at = "idle"
  BY DEF NotRouting
<1> QED BY <1>1, <1>2 DEF RoutingInit, LInv

LEMMA StepLInv == LInv /\ [RoutingNext]_routingVars => LInv'
<1> SUFFICES ASSUME LInv, [RoutingNext]_routingVars
             PROVE  LInv'
  OBVIOUS
<1>1. CASE UNCHANGED routingVars
  <2>1. RoutingTyped'
    BY <1>1 DEF LInv, RoutingTyped, routingVars
  <2>2. ASSUME NEW p \in RoutingRequests, NEW w \in Request, routing'[p] = w, w.at # "idle"
        PROVE  w.lead \in Incoming /\ (w.alone => UpToDate(w)')
    BY <1>1, <2>2, SameReading DEF LInv, routingVars
  <2> QED BY <2>1, <2>2 DEF LInv
<1>2. ASSUME NEW q \in RoutingRequests,
             \/ \E l \in Incoming : ReceiveLead(q, l)
             \/ ReadAsked(q) \/ ReadActive(q) \/ CountLeads(q)
             \/ AssignLead(q) \/ RoutingFails(q)
      PROVE  LInv'
  BY <1>2, ReceiveKeepsLInv, ReadAskedKeepsLInv, ReadActiveKeepsLInv, CountKeepsLInv,
     AssignKeepsLInv, FailureKeepsLInv
<1> QED BY <1>1, <1>2, OthersKeepLInv DEF RoutingNext

(* For any rules, sellers and leads: a lead that is routed while nothing   *)
(* else is committed goes to the owner the database, looked at once, would *)
(* have given it (auto_assign_lead, lead_routing_service.py:173).          *)
THEOREM LeadsAlwaysGoToTheFreest == RoutingSpec => LeadsGoToTheFreest
<1> DEFINE Good ==
      leads' # leads =>
          \A q \in RoutingRequests :
             routing[q].alone /\ routing[q].at = "write" /\ routing'[q] = NotRouting
                => RoutedAsAWhole(routing[q].lead, leads'[routing[q].lead].owner)
<1>1. LInv /\ [RoutingNext]_routingVars => Good
  <2> SUFFICES ASSUME LInv, RoutingNext, leads' # leads,
                      NEW q \in RoutingRequests, routing[q].alone, routing[q].at = "write",
                      routing'[q] = NotRouting
               PROVE  RoutedAsAWhole(routing[q].lead, leads'[routing[q].lead].owner)
    BY DEF routingVars
  <2>1. /\ routing[q] \in Request /\ routing[q].lead \in Incoming
        /\ RoutedAsAWhole(routing[q].lead, routing[q].assignee)
    BY RequestUnderWay DEF UpToDate
  <2>2. NotRouting.at = "idle"
    BY DEF NotRouting
  <2>3. ~Committed({})
    <3>1. [routing[q] EXCEPT !.alone = FALSE].at = "write"
      BY <2>1 DEF Request
    <3> QED BY <2>2, <3>1 DEF Committed
  <2>4. PICK p \in RoutingRequests : AssignLead(p)
    BY <2>3 DEF RoutingNext, ReceiveLead, ReadAsked, ReadActive, CountLeads, RoutingFails,
       AddUnrouted, ChangeLead, SaveRoutingRule, DeleteRoutingRule, ToggleRoutingRule, ChangeUser
  <2>5. p = q
    <3> SUFFICES ASSUME p # q PROVE FALSE
      OBVIOUS
    <3>1. routing'[q] = [routing[q] EXCEPT !.alone = FALSE]
      BY <2>2, <2>4 DEF AssignLead, Committed
    <3> QED BY <2>1, <2>2, <3>1 DEF Request
  <2>6. leads'[routing[q].lead].owner = routing[q].assignee
    BY <2>1, <2>4, <2>5 DEF AssignLead, LInv, RoutingTyped
  <2> QED BY <2>1, <2>6
<1>2. LInv /\ [RoutingNext]_routingVars => [Good]_leads
  BY <1>1
<1> QED BY InitLInv, StepLInv, <1>2, PTL DEF RoutingSpec, LeadsGoToTheFreest

(* A rule says what it may say, or was never saved.                        *)
TextsSaved == \A r \in RuleIds : ruleRows[r] = NoRule \/ ruleRows[r].text \in RuleTexts[r]

LEMMA StepTexts == RoutingTyped /\ TextsSaved /\ [RoutingNext]_routingVars => TextsSaved'
<1> SUFFICES ASSUME RoutingTyped, TextsSaved, [RoutingNext]_routingVars
             PROVE  TextsSaved'
  OBVIOUS
<1>1. ASSUME NEW r \in RuleIds, NEW text \in RuleTexts[r], NEW active \in BOOLEAN,
             SaveRoutingRule(r, text, active)
      PROVE  TextsSaved'
  <2>1. ruleRows' = [ruleRows EXCEPT ![r] = [text |-> text, is_active |-> active]]
    BY <1>1 DEF SaveRoutingRule
  <2>2. ruleRows'[r].text = text /\ \A s \in RuleIds \ {r} : ruleRows'[s] = ruleRows[s]
    BY <2>1 DEF RoutingTyped
  <2> QED BY <2>2 DEF TextsSaved
<1>2. ASSUME NEW r \in RuleIds, DeleteRoutingRule(r)
      PROVE  TextsSaved'
  <2>1. ruleRows' = [ruleRows EXCEPT ![r] = NoRule]
    BY <1>2 DEF DeleteRoutingRule
  <2>2. ruleRows'[r] = NoRule /\ \A s \in RuleIds \ {r} : ruleRows'[s] = ruleRows[s]
    BY <2>1 DEF RoutingTyped
  <2> QED BY <2>2 DEF TextsSaved
<1>3. ASSUME NEW r \in RuleIds, ToggleRoutingRule(r)
      PROVE  TextsSaved'
  <2>1. ruleRows' = [ruleRows EXCEPT ![r].is_active = ~@] /\ ruleRows[r] # NoRule
    BY <1>3 DEF ToggleRoutingRule
  <2>2. ruleRows'[r].text = ruleRows[r].text /\ \A s \in RuleIds \ {r} : ruleRows'[s] = ruleRows[s]
    BY <2>1 DEF RoutingTyped, Rule
  <2> QED BY <2>1, <2>2 DEF TextsSaved
<1>4. CASE UNCHANGED ruleRows
  BY <1>4 DEF TextsSaved
<1>5. \/ UNCHANGED ruleRows
      \/ \E r \in RuleIds :
            \/ \E text \in RuleTexts[r], active \in BOOLEAN : SaveRoutingRule(r, text, active)
            \/ DeleteRoutingRule(r) \/ ToggleRoutingRule(r)
  <2>1. ASSUME NEW q \in RoutingRequests,
               \/ \E l \in Incoming : ReceiveLead(q, l)
               \/ ReadAsked(q) \/ ReadActive(q) \/ CountLeads(q)
               \/ AssignLead(q) \/ RoutingFails(q)
        PROVE  UNCHANGED ruleRows
    BY <2>1 DEF ReceiveLead, ReadAsked, ReadActive, CountLeads, AssignLead, RoutingFails
  <2>2. ASSUME NEW l \in Incoming, NEW o,
               AddUnrouted(l, o) \/ \E status \in {"lead", "other"} : ChangeLead(l, status, o)
        PROVE  UNCHANGED ruleRows
    BY <2>2 DEF AddUnrouted, ChangeLead
  <2>3. ASSUME NEW s \in Sellers, ChangeUser(s)
        PROVE  UNCHANGED ruleRows
    BY <2>3 DEF ChangeUser
  <2>4. CASE UNCHANGED routingVars
    BY <2>4 DEF routingVars
  <2> QED BY <2>1, <2>2, <2>3, <2>4 DEF RoutingNext
<1> QED BY <1>1, <1>2, <1>3, <1>4, <1>5

(* Rules, leads and requests keep their types: a saved rule is one of the  *)
(* rules that may be saved, and an owner is a seller or nobody.            *)
THEOREM RoutingKeepsItsTypes == RoutingSpec => []RoutingTypeOK
<1>1. RoutingInit => TextsSaved
  BY DEF RoutingInit, TextsSaved
<1>2. LInv => RoutingTyped
  BY DEF LInv
<1>3. RoutingTyped /\ TextsSaved => RoutingTypeOK
  <2> SUFFICES ASSUME RoutingTyped, TextsSaved
               PROVE  RoutingTypeOK
    OBVIOUS
  <2>1. \A q \in RoutingRequests : routing[q] \in Request
    BY DEF RoutingTyped
  <2> QED BY <2>1 DEF RoutingTyped, TextsSaved, RoutingTypeOK, Request
<1> QED BY InitLInv, StepLInv, StepTexts, <1>1, <1>2, <1>3, PTL DEF RoutingSpec
=============================================================================
