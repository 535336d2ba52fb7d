-------------------------------- MODULE LeadPool --------------------------------
(***************************************************************************)
(* Leads, their owners and their recycling: lead_routing_service.py,       *)
(* customer_service.py and db/repositories/customer.py.                    *)
(*                                                                         *)
(* Every request is one database transaction at READ COMMITTED: it reads   *)
(* the row of a lead, and later updates the same row by id with values     *)
(* computed from what it read.  The ORM writes only the columns whose      *)
(* value it changed; an updated row is locked until the commit.  The       *)
(* recycling job (check_and_recycle_leads) is one transaction too, over    *)
(* all leads: it scans, updates row by row, scans again and commits.       *)
(*                                                                         *)
(* A status is "lead", "disqualified" or one of the others ("other"); of   *)
(* assigned_at it only matters whether it is null, or older than the stale *)
(* window; of a history entry only previous_owner_id.  Which owner the     *)
(* routing rules pick is left open.                                        *)
(***************************************************************************)
EXTENDS Integers, Sequences

CONSTANTS
    Leads, Owners,
    NoOwner,    \* owner_id = 0
    Workers,    \* requests that can be in progress at a time
    Ops,        \* the kinds of request
    MaxRecycle, \* max_recycle of the job (3)
    MaxCount    \* bound on recycle_count for requests, for model checking

Kinds == {"assign", "edit", "reassign", "bulk"}

ASSUME PoolConstants ==
    /\ NoOwner \notin Owners
    /\ Ops \subseteq Kinds
    /\ MaxRecycle \in Nat
    /\ MaxCount \in Nat

VARIABLES
    lead,       \* the rows of the customers table, as committed
    request,    \* the request each worker serves
    job,        \* the recycling job
    told,       \* leads whose owner got a notification of the recycling
    overtaken   \* history: leads a bulk_recycle wrote although their history
                \* had changed since it read them

vars == <<lead, request, job, told, overtaken>>

Statuses == {"absent", "lead", "other", "disqualified", "deleted"}
Clocks == {"none", "fresh", "stale"}
Rows == [status : Statuses, owner : Owners \cup {NoOwner}, clock : Clocks,
         count : Nat, history : Seq(Owners \cup {NoOwner})]
NoRow == [status |-> "absent", owner |-> NoOwner, clock |-> "none",
          count |-> 0, history |-> <<>>]

Requests == [op : Kinds \cup {"none"}, lead : Leads, row : Rows]
Jobs == [at : {"off", "scanned", "updated"}, rows : [Leads -> Rows],
         stale : SUBSET Leads, over : SUBSET Leads]
JobOff == [at |-> "off", rows |-> [l \in Leads |-> NoRow],
           stale |-> {}, over |-> {}]

There(l) == lead[l].status \notin {"absent", "deleted"}
Busy(w) == request[w].op # "none"

TypeOK ==
    /\ lead \in [Leads -> Rows]
    /\ request \in [Workers -> Requests]
    /\ job \in Jobs
    /\ told \in SUBSET Leads
    /\ overtaken \in SUBSET Leads

Init ==
    /\ lead = [l \in Leads |-> NoRow]
    /\ \E l \in Leads :
          request = [w \in Workers |-> [op |-> "none", lead |-> l, row |-> NoRow]]
    /\ job = JobOff
    /\ told = {}
    /\ overtaken = {}

-----------------------------------------------------------------------------

(* rows the job has updated and not yet committed                          *)
Locked(l) == job.at = "updated" /\ l \in job.stale

(* create_customer: a lead without an owner goes through auto_assign_lead  *)
(* in the same transaction, which leaves it unowned if no user is active;  *)
(* an owner that came with the request has no assigned_at                  *)
CreateLead(l) ==
    /\ lead[l] = NoRow
    /\ \E o \in Owners \cup {NoOwner} :
          \E c \in IF o = NoOwner THEN {"none"} ELSE {"none", "fresh"} :
             lead' = [lead EXCEPT ![l] =
                        [NoRow EXCEPT !.status = "lead", !.owner = o, !.clock = c]]
    /\ UNCHANGED <<request, job, told, overtaken>>

(* a customer of another status is not routed                              *)
CreateOther(l) ==
    /\ lead[l] = NoRow
    /\ \E o \in Owners \cup {NoOwner} :
          lead' = [lead EXCEPT ![l] = [NoRow EXCEPT !.status = "other", !.owner = o]]
    /\ UNCHANGED <<request, job, told, overtaken>>

(* one statement; ids are not used again                                   *)
DeleteLead(l) ==
    /\ There(l)
    /\ ~Locked(l)
    /\ lead' = [lead EXCEPT ![l] = [NoRow EXCEPT !.status = "deleted"]]
    /\ UNCHANGED <<request, job, told, overtaken>>

(* 24 hours have passed since assigned_at                                  *)
TurnStale(l) ==
    /\ lead[l].clock = "fresh"
    /\ lead' = [lead EXCEPT ![l].clock = "stale"]
    /\ UNCHANGED <<request, job, told, overtaken>>

(* the columns of the row that the request will use                        *)
Used(op, row) ==
    IF op = "assign" THEN [NoRow EXCEPT !.owner = row.owner, !.clock = row.clock]
    ELSE IF op = "edit" THEN [NoRow EXCEPT !.owner = row.owner, !.status = row.status]
    ELSE [NoRow EXCEPT !.owner = row.owner, !.count = row.count, !.history = row.history]

(* the request has read the row; bulk_recycle reads owned leads only       *)
ReadRow(w, l, op) ==
    /\ ~Busy(w)
    /\ There(l)
    /\ op = "bulk" => lead[l].status = "lead" /\ lead[l].owner # NoOwner
    /\ request' = [request EXCEPT ![w] = [op |-> op, lead |-> l, row |-> Used(op, lead[l])]]
    /\ UNCHANGED <<lead, job, told, overtaken>>

(* the row's new value is committed and the request ends                   *)
Commit(w, row) ==
    /\ There(request[w].lead)
    /\ ~Locked(request[w].lead)
    /\ lead' = [lead EXCEPT ![request[w].lead] = row]
    /\ request' = [request EXCEPT ![w].op = "none", ![w].row = NoRow]
    /\ UNCHANGED <<job, told>>

(* the ORM writes a column only if its value differs from the one read     *)
Column(read, new, current) == IF new = read THEN current ELSE new

(* update_owner: assigned_at is set only if it was null                    *)
AssignOwner(w) ==
    LET read == request[w].row  now == lead[request[w].lead] IN
    /\ request[w].op = "assign"
    /\ \E o \in Owners \cup {NoOwner} :
          Commit(w, [now EXCEPT
                       !.owner = Column(read.owner, o, @),
                       !.clock = IF read.clock = "none" THEN "fresh" ELSE @])
    /\ UNCHANGED overtaken

(* a mutated form of EditCustomer: the status is not validated             *)
EditUnchecked(w) ==
    LET read == request[w].row  now == lead[request[w].lead] IN
    /\ request[w].op = "edit"
    /\ \E o \in Owners \cup {NoOwner}, s \in {"lead", "other", "unknown"} :
          Commit(w, [now EXCEPT
                       !.owner = Column(read.owner, o, @),
                       !.status = Column(read.status, s, @)])
    /\ UNCHANGED overtaken

(* update_customer and update_status                                       *)
EditCustomer(w) ==
    LET read == request[w].row  now == lead[request[w].lead] IN
    /\ request[w].op = "edit"
    /\ \E o \in Owners \cup {NoOwner}, s \in {"lead", "other"} :
          Commit(w, [now EXCEPT
                       !.owner = Column(read.owner, o, @),
                       !.status = Column(read.status, s, @)])
    /\ UNCHANGED overtaken

(* a mutated form of ReassignLead: the entry is appended to the row as it  *)
(* is, the count is taken from the row as it was read                      *)
ReassignFreshHistory(w) ==
    LET read == request[w].row  now == lead[request[w].lead] IN
    /\ request[w].op = "reassign"
    /\ read.count < MaxCount
    /\ \E o \in Owners \cup {NoOwner} :
          Commit(w, [now EXCEPT
                       !.owner = Column(read.owner, o, @),
                       !.clock = "fresh",
                       !.count = read.count + 1,
                       !.history = Append(now.history, read.owner)])
    /\ UNCHANGED overtaken

(* reassign_lead                                                           *)
ReassignLead(w) ==
    LET read == request[w].row  now == lead[request[w].lead] IN
    /\ request[w].op = "reassign"
    /\ read.count < MaxCount
    /\ \E o \in Owners \cup {NoOwner} :
          Commit(w, [now EXCEPT
                       !.owner = Column(read.owner, o, @),
                       !.clock = "fresh",
                       !.count = read.count + 1,
                       !.history = Append(read.history, read.owner)])
    /\ UNCHANGED overtaken

(* a mutated form of BulkRecycle: without the refresh                      *)
BulkRecycleAsRead(w) ==
    LET read == request[w].row  now == lead[request[w].lead] IN
    /\ request[w].op = "bulk"
    /\ read.count < MaxCount
    /\ Commit(w, [now EXCEPT
                    !.owner = NoOwner,
                    !.clock = "none",
                    !.count = read.count + 1,
                    !.history = Append(read.history, read.owner)])
    /\ UNCHANGED overtaken

(* bulk_recycle, for one of its rows: updates, then refreshes the row and  *)
(* appends the owner it finds by then, which is the one just written       *)
BulkRecycle(w) ==
    LET read == request[w].row  now == lead[request[w].lead] IN
    /\ request[w].op = "bulk"
    /\ read.count < MaxCount
    /\ Commit(w, [now EXCEPT
                    !.owner = NoOwner,
                    !.clock = "none",
                    !.count = read.count + 1,
                    !.history = Append(now.history, NoOwner)])
    /\ overtaken' = IF read.history = now.history THEN overtaken
                    ELSE overtaken \cup {request[w].lead}

(* the request fails and is rolled back: the row is gone, or any error     *)
RollBack(w) ==
    /\ Busy(w)
    /\ request' = [request EXCEPT ![w].op = "none", ![w].row = NoRow]
    /\ UNCHANGED <<lead, job, told, overtaken>>

-----------------------------------------------------------------------------
(* check_and_recycle_leads *)

(* a mutated form of IsStale: off by one                                   *)
IsStaleBelowCap(l) ==
    /\ lead[l].status = "lead"
    /\ lead[l].owner # NoOwner
    /\ lead[l].clock = "stale"
    /\ lead[l].count + 1 < MaxRecycle

(* a mutated form of IsStale: no cap                                       *)
IsStaleUncapped(l) ==
    /\ lead[l].status = "lead"
    /\ lead[l].owner # NoOwner
    /\ lead[l].clock = "stale"

(* the WHERE clause of recycle_stale_leads                                 *)
IsStale(l) ==
    /\ lead[l].status = "lead"
    /\ lead[l].owner # NoOwner
    /\ lead[l].clock = "stale"
    /\ lead[l].count < MaxRecycle

JobScans ==
    /\ job.at = "off"
    /\ job' = [at |-> "scanned",
               rows |-> [l \in Leads |-> IF IsStale(l) THEN lead[l] ELSE NoRow],
               stale |-> {l \in Leads : IsStale(l)}, over |-> {}]
    /\ UNCHANGED <<lead, request, told, overtaken>>

(* The row of a recycled lead as the job writes it.                        *)
Recycled(l) ==
    [lead[l] EXCEPT !.owner = NoOwner,
                    !.clock = "none",
                    !.count = job.rows[l].count + 1,
                    !.history = Append(job.rows[l].history, job.rows[l].owner)]

(* The stale rows are updated, by id and whatever became of them since the *)
(* scan, and disqualify_overcycled_leads scans.                            *)
JobUpdates ==
    /\ job.at = "scanned"
    /\ LET stale == {l \in job.stale : There(l)}
           seen(l) == IF l \in stale THEN Recycled(l) ELSE lead[l]
       IN job' = [job EXCEPT !.at = "updated",
                             !.stale = stale,
                             !.over = {l \in Leads : /\ seen(l).status = "lead"
                                                     /\ seen(l).count >= MaxRecycle}]
    /\ UNCHANGED <<lead, request, told, overtaken>>

(* the channels NotificationService accepts                                *)
Channels == {"in_app", "email", "sms", "push"}

(* send_notification(..., notification_type, ...): a refused one is logged *)
Notify(notificationType, leads) ==
    told' = IF notificationType \in Channels THEN told \cup leads ELSE told

JobCommits ==
    /\ job.at = "updated"
    /\ lead' = [l \in Leads |->
                  LET row == IF l \in job.stale THEN Recycled(l) ELSE lead[l] IN
                  IF l \in job.over /\ There(l)
                  THEN [row EXCEPT !.status = "disqualified"] ELSE row]
    /\ Notify("lead_recycled", job.stale)
    /\ job' = JobOff
    /\ UNCHANGED <<request, overtaken>>

(* a database error, or the job is killed: nothing is committed            *)
JobAborts ==
    /\ job.at # "off"
    /\ job' = JobOff
    /\ UNCHANGED <<lead, request, told, overtaken>>

Job == JobScans \/ JobUpdates \/ JobCommits

Finish(w) ==
    \/ AssignOwner(w)
    \/ EditCustomer(w)
    \/ ReassignLead(w)
    \/ BulkRecycle(w)

Next ==
    \/ \E l \in Leads :
          \/ CreateLead(l)
          \/ CreateOther(l)
          \/ DeleteLead(l)
          \/ TurnStale(l)
          \/ \E w \in Workers, op \in Ops : ReadRow(w, l, op)
    \/ \E w \in Workers : Finish(w) \/ RollBack(w)
    \/ Job
    \/ JobAborts

Spec == Init /\ [][Next]_vars

(* The scheduler runs the job again and again, and a job that gets as far  *)
(* as its updates, or its commit, again and again is not aborted each time.*)
FairSpec == Spec /\ WF_vars(Job) /\ SF_vars(JobUpdates) /\ SF_vars(JobCommits)

-----------------------------------------------------------------------------

(* recycle_count counts the entries of recycle_history, whatever requests  *)
(* and the job overwrite of each other.  Only a bulk_recycle can part the  *)
(* two columns, for its count is from before its update and its history    *)
(* from after: and only of a lead whose history another transaction has    *)
(* written between the two.                                                *)
HistoryMatchesCount ==
    \A l \in Leads \ overtaken : lead[l].count = Len(lead[l].history)

(* the histories from which a transaction in progress will write one       *)
Pending(l) ==
    {request[w].row.history :
        w \in {v \in Workers : request[v].op = "reassign" /\ request[v].lead = l}}
    \cup (IF l \in job.stale THEN {job.rows[l].history} ELSE {})

Agree(h, k, n) == n <= Len(k) /\ \A i \in 1..n : h[i] = k[i]

(* "Reassign a lead with reason logged to recycle_history" (customers.py): *)
(* what is logged stays logged while the lead exists, as far as the        *)
(* reassignments and the job in progress have found it in the row.  An     *)
(* entry is lost only to a transaction that read the row before the entry  *)
(* was there, never once those have ended, and never from the middle.      *)
HistoryIsKept ==
    [][\A l \in Leads :
          There(l) /\ lead'[l].status # "deleted" =>
              \A n \in 1..Len(lead[l].history) :
                  (\A k \in Pending(l) : Agree(lead[l].history, k, n))
                      => Agree(lead[l].history, lead'[l].history, n)]_vars

(* Only requests drive a count above the cap: the job recycles no lead     *)
(* beyond it, however old the counts it acts on.                           *)
JobKeepsToCap ==
    [][job.at = "updated" /\ job'.at = "off" =>
          \A l \in Leads :
              lead'[l].count <= MaxRecycle \/ lead'[l].count = lead[l].count]_vars

(* "Recycle leads with no response within the stale window"                *)
(* (recycle_stale_leads): when the job updates a row, the lead is still a  *)
(* stale lead.  Refuted: the update is by id, and a lead reassigned or     *)
(* converted since the scan loses its owner.                               *)
OnlyStaleAreRecycled ==
    job.at = "updated" =>
        \A l \in job.stale : lead[l].status = "lead" /\ lead[l].clock = "stale"

(* "and triggers notifications for each recycled lead"                     *)
(* (check_and_recycle_leads).  Refuted: "lead_recycled" is no channel.     *)
RecycledOwnersAreTold ==
    [][job.at = "updated" /\ (\E l \in job.stale : lead'[l] # lead[l])
          => job.stale \subseteq told']_vars

(* No lead stays with an owner who does not respond: a stale lead is       *)
(* recycled, disqualified, or taken up by a request.                       *)
StaleLeadsMoveOn ==
    \A l \in Leads :
        lead[l].status = "lead" /\ lead[l].owner # NoOwner
                /\ lead[l].clock = "stale"
            ~> \/ lead[l].status # "lead"
               \/ lead[l].owner = NoOwner
               \/ lead[l].clock # "stale"

=============================================================================
