----------------------------- MODULE LeadPoolProofs -----------------------------
(***************************************************************************)
(* What holds of LeadPool for every set of leads, owners and concurrent    *)
(* requests, and with no bound on how their transactions overlap.          *)
(***************************************************************************)
EXTENDS LeadPool, SequenceTheorems, TLAPS

(* A row that is typed keeps its type when one column is written.          *)
LEMMA EmptyRow == NoRow \in Rows /\ NoRow.count = Len(NoRow.history)
BY SMT DEF NoRow, Rows, Statuses, Clocks

LEMMA RowFields ==
    ASSUME NEW r \in Rows
    PROVE  /\ r.status \in Statuses
           /\ r.owner \in Owners \cup {NoOwner}
           /\ r.clock \in Clocks
           /\ r.count \in Nat
           /\ r.history \in Seq(Owners \cup {NoOwner})
BY DEF Rows

LEMMA ColumnType ==
    ASSUME NEW S, NEW r \in S, NEW n \in S, NEW c \in S
    PROVE  Column(r, n, c) \in S
BY DEF Column

LEMMA TypeInit == Init => TypeOK
<1> SUFFICES ASSUME Init PROVE TypeOK
  OBVIOUS
<1>1. lead \in [Leads -> Rows]
  BY EmptyRow DEF Init
<1>2. request \in [Workers -> Requests]
  BY EmptyRow DEF Init, Requests
<1>3. job \in Jobs
  BY EmptyRow DEF Init, JobOff, Jobs
<1>4. told \in SUBSET Leads /\ overtaken \in SUBSET Leads
  BY DEF Init
<1> QED
  BY <1>1, <1>2, <1>3, <1>4 DEF TypeOK

(* The commit of a typed row, which ends the request.                      *)
LEMMA CommitType ==
    ASSUME TypeOK, NEW w \in Workers, NEW row \in Rows, Commit(w, row),
           overtaken' \in {overtaken, overtaken \cup {request[w].lead}}
    PROVE  TypeOK'
<1>1. request[w] \in Requests /\ request[w].lead \in Leads
  BY DEF TypeOK, Requests
<1>2. lead' \in [Leads -> Rows]
  BY <1>1 DEF TypeOK, Commit
<1>3. request' \in [Workers -> Requests]
  BY <1>1, EmptyRow DEF TypeOK, Commit, Requests
<1>4. job' \in Jobs /\ told' \in SUBSET Leads /\ overtaken' \in SUBSET Leads
  BY <1>1 DEF TypeOK, Commit
<1> QED
  BY <1>2, <1>3, <1>4 DEF TypeOK

LEMMA UsedType ==
    ASSUME NEW r \in Rows, NEW op
    PROVE  Used(op, r) \in Rows
BY EmptyRow DEF Used, Rows

LEMMA RowsOfRequest ==
    ASSUME TypeOK, NEW w \in Workers
    PROVE  /\ request[w] \in Requests
           /\ request[w].lead \in Leads
           /\ request[w].row \in Rows
           /\ lead[request[w].lead] \in Rows
BY DEF TypeOK, Requests

LEMMA RecycledType ==
    ASSUME TypeOK, NEW l \in Leads
    PROVE  Recycled(l) \in Rows
<1>1. lead[l] \in Rows /\ job.rows[l] \in Rows
  BY DEF TypeOK, Jobs
<1>2. /\ job.rows[l].count + 1 \in Nat
      /\ Append(job.rows[l].history, job.rows[l].owner) \in Seq(Owners \cup {NoOwner})
  BY <1>1, RowFields
<1>3. "none" \in Clocks /\ NoOwner \in Owners \cup {NoOwner}
  BY DEF Clocks
<1> QED
  BY <1>1, <1>2, <1>3 DEF Recycled, Rows

LEMMA TypeNext == TypeOK /\ [Next]_vars => TypeOK'
<1> SUFFICES ASSUME TypeOK, [Next]_vars PROVE TypeOK'
  OBVIOUS
<1>1. ASSUME NEW l \in Leads, CreateLead(l) PROVE TypeOK'
  <2>1. PICK o \in Owners \cup {NoOwner}, c \in {"none", "fresh"} :
          lead' = [lead EXCEPT ![l] = [NoRow EXCEPT !.status = "lead",
                                         !.owner = o, !.clock = c]]
    BY <1>1 DEF CreateLead
  <2>2. [NoRow EXCEPT !.status = "lead", !.owner = o, !.clock = c] \in Rows
    BY EmptyRow DEF Rows, Statuses, Clocks
  <2> QED
    BY <1>1, <2>1, <2>2 DEF CreateLead, TypeOK
<1>2. ASSUME NEW l \in Leads, CreateOther(l) PROVE TypeOK'
  <2>1. PICK o \in Owners \cup {NoOwner} :
          lead' = [lead EXCEPT ![l] = [NoRow EXCEPT !.status = "other", !.owner = o]]
    BY <1>2 DEF CreateOther
  <2>2. [NoRow EXCEPT !.status = "other", !.owner = o] \in Rows
    BY EmptyRow DEF Rows, Statuses
  <2> QED
    BY <1>2, <2>1, <2>2 DEF CreateOther, TypeOK
<1>3. ASSUME NEW l \in Leads, DeleteLead(l) PROVE TypeOK'
  <2>1. [NoRow EXCEPT !.status = "deleted"] \in Rows
    BY EmptyRow DEF Rows, Statuses
  <2> QED
    BY <1>3, <2>1 DEF DeleteLead, TypeOK
<1>4. ASSUME NEW l \in Leads, TurnStale(l) PROVE TypeOK'
  <2>1. [lead[l] EXCEPT !.clock = "stale"] \in Rows
    BY DEF TypeOK, Rows, Clocks
  <2>2. lead' = [lead EXCEPT ![l] = [lead[l] EXCEPT !.clock = "stale"]]
    BY <1>4 DEF TurnStale
  <2> QED
    BY <1>4, <2>1, <2>2 DEF TurnStale, TypeOK
<1>5. ASSUME NEW l \in Leads, NEW w \in Workers, NEW op \in Ops, ReadRow(w, l, op)
      PROVE TypeOK'
  <2>1. op \in Kinds /\ lead[l] \in Rows
    BY PoolConstants DEF TypeOK
  <2>2. [op |-> op, lead |-> l, row |-> Used(op, lead[l])] \in Requests
    BY <2>1, UsedType DEF Requests
  <2> QED
    BY <1>5, <2>2 DEF ReadRow, TypeOK
<1>6. ASSUME NEW w \in Workers, AssignOwner(w) PROVE TypeOK'
  <2> DEFINE read == request[w].row
             now == lead[request[w].lead]
             row(o) == [now EXCEPT
                          !.owner = Column(read.owner, o, @),
                          !.clock = IF read.clock = "none" THEN "fresh" ELSE @]
  <2>1. PICK o \in Owners \cup {NoOwner} : Commit(w, row(o)) /\ overtaken' = overtaken
    BY <1>6 DEF AssignOwner
  <2>2. read \in Rows /\ now \in Rows
    BY RowsOfRequest
  <2>3. Column(read.owner, o, now.owner) \in Owners \cup {NoOwner}
    BY <2>2, RowFields, ColumnType
  <2>4. row(o) \in Rows
    BY <2>2, <2>3 DEF Rows, Clocks
  <2> HIDE DEF row
  <2> QED
    BY <2>1, <2>4, CommitType
<1>7. ASSUME NEW w \in Workers, EditCustomer(w) PROVE TypeOK'
  <2> DEFINE read == request[w].row
             now == lead[request[w].lead]
             row(o, s) == [now EXCEPT
                             !.owner = Column(read.owner, o, @),
                             !.status = Column(read.status, s, @)]
  <2>1. PICK o \in Owners \cup {NoOwner}, s \in {"lead", "other"} : Commit(w, row(o, s))
            /\ overtaken' = overtaken
    BY <1>7 DEF EditCustomer
  <2>2. read \in Rows /\ now \in Rows
    BY RowsOfRequest
  <2>3. Column(read.owner, o, now.owner) \in Owners \cup {NoOwner}
    BY <2>2, RowFields, ColumnType
  <2>4. Column(read.status, s, now.status) \in Statuses
    <3>1. read.status \in Statuses /\ now.status \in Statuses /\ s \in Statuses
      BY <2>2, RowFields DEF Statuses
    <3> QED
      BY <3>1, ColumnType
  <2>5. row(o, s) \in Rows
    BY <2>2, <2>3, <2>4 DEF Rows
  <2> HIDE DEF row
  <2> QED
    BY <2>1, <2>5, CommitType
<1>8. ASSUME NEW w \in Workers, ReassignLead(w) PROVE TypeOK'
  <2> DEFINE read == request[w].row
             now == lead[request[w].lead]
             row(o) == [now EXCEPT
                          !.owner = Column(read.owner, o, @),
                          !.clock = "fresh",
                          !.count = read.count + 1,
                          !.history = Append(read.history, read.owner)]
  <2>1. PICK o \in Owners \cup {NoOwner} : Commit(w, row(o)) /\ overtaken' = overtaken
    BY <1>8 DEF ReassignLead
  <2>2. read \in Rows /\ now \in Rows
    BY RowsOfRequest
  <2>3. Column(read.owner, o, now.owner) \in Owners \cup {NoOwner}
    BY <2>2, RowFields, ColumnType
  <2>4. /\ read.count + 1 \in Nat
        /\ Append(read.history, read.owner) \in Seq(Owners \cup {NoOwner})
    BY <2>2, RowFields
  <2>5. row(o) \in Rows
    BY <2>2, <2>3, <2>4 DEF Rows, Clocks
  <2> HIDE DEF row
  <2> QED
    BY <2>1, <2>5, CommitType
<1>9. ASSUME NEW w \in Workers, BulkRecycle(w) PROVE TypeOK'
  <2> DEFINE read == request[w].row
             now == lead[request[w].lead]
             row == [now EXCEPT
                       !.owner = NoOwner,
                       !.clock = "none",
                       !.count = read.count + 1,
                       !.history = Append(now.history, NoOwner)]
  <2>1. Commit(w, row) /\ overtaken' \in {overtaken, overtaken \cup {request[w].lead}}
    BY <1>9 DEF BulkRecycle
  <2>2. read \in Rows /\ now \in Rows
    BY RowsOfRequest
  <2>3. /\ read.count + 1 \in Nat
        /\ Append(now.history, NoOwner) \in Seq(Owners \cup {NoOwner})
    BY <2>2, RowFields
  <2>4. row \in Rows
    BY <2>2, <2>3 DEF Rows, Clocks
  <2> HIDE DEF row
  <2> QED
    BY <2>1, <2>4, CommitType
<1>10. ASSUME NEW w \in Workers, RollBack(w) PROVE TypeOK'
  <2>1. request' \in [Workers -> Requests]
    BY <1>10, EmptyRow DEF RollBack, TypeOK, Requests
  <2> QED
    BY <1>10, <2>1 DEF RollBack, TypeOK
<1>11. CASE JobScans
  <2>1. [l \in Leads |-> IF IsStale(l) THEN lead[l] ELSE NoRow] \in [Leads -> Rows]
    BY EmptyRow DEF TypeOK
  <2>2. {l \in Leads : IsStale(l)} \in SUBSET Leads
    OBVIOUS
  <2>3. job' \in Jobs
    BY <1>11, <2>1, <2>2 DEF JobScans, Jobs
  <2> QED
    BY <1>11, <2>3 DEF JobScans, TypeOK
<1>12. CASE JobUpdates
  <2>1. PICK stale \in SUBSET Leads, over \in SUBSET Leads :
          job' = [job EXCEPT !.at = "updated", !.stale = stale, !.over = over]
    <3>1. {l \in job.stale : There(l)} \in SUBSET Leads
      BY DEF TypeOK, Jobs
    <3> QED
      BY <1>12, <3>1 DEF JobUpdates
  <2>2. job' \in Jobs
    BY <2>1 DEF TypeOK, Jobs
  <2> QED
    BY <1>12, <2>2 DEF JobUpdates, TypeOK
<1>13. CASE JobCommits
  <2>1. ASSUME NEW l \in Leads,
               NEW row, row = IF l \in job.stale THEN Recycled(l) ELSE lead[l]
        PROVE  row \in Rows /\ [row EXCEPT !.status = "disqualified"] \in Rows
    <3>1. row \in Rows
      BY <2>1, RecycledType DEF TypeOK
    <3> QED
      BY <3>1 DEF Rows, Statuses
  <2>2. lead' \in [Leads -> Rows]
    BY <1>13, <2>1 DEF JobCommits
  <2>3. job' \in Jobs
    BY <1>13, EmptyRow DEF JobCommits, JobOff, Jobs
  <2>4. told' \in SUBSET Leads
    BY <1>13 DEF JobCommits, Notify, TypeOK, Jobs
  <2> QED
    BY <1>13, <2>2, <2>3, <2>4 DEF JobCommits, TypeOK
<1>14. CASE JobAborts
  <2>1. job' \in Jobs
    BY <1>14, EmptyRow DEF JobAborts, JobOff, Jobs
  <2> QED
    BY <1>14, <2>1 DEF JobAborts, TypeOK
<1>15. CASE UNCHANGED vars
  BY <1>15 DEF vars, TypeOK
<1> QED
  BY <1>1, <1>2, <1>3, <1>4, <1>5, <1>6, <1>7, <1>8, <1>9, <1>10, <1>11,
     <1>12, <1>13, <1>14, <1>15 DEF Next, Finish, Job

(* Every reachable row, request and job is one the program can be in.      *)
THEOREM TypeCorrect == Spec => []TypeOK
BY TypeInit, TypeNext, PTL DEF Spec

-----------------------------------------------------------------------------
(* recycle_count and recycle_history.  Every update writes both columns    *)
(* from one row that was read, so it is enough that every row in the       *)
(* database, in a request and in the job is paired.  bulk_recycle reads    *)
(* the two columns at different times: they are the same, or it overtakes. *)

Paired(row) == row.count = Len(row.history)

PairedRows ==
    /\ \A l \in Leads \ overtaken : Paired(lead[l]) /\ Paired(job.rows[l])
    /\ \A w \in Workers :
          request[w].lead \notin overtaken => Paired(request[w].row)

PairedInv == TypeOK /\ PairedRows

LEMMA AppendPairs ==
    ASSUME NEW r \in Rows, Paired(r), NEW o \in Owners \cup {NoOwner}
    PROVE  r.count + 1 = Len(Append(r.history, o))
BY RowFields DEF Paired

LEMMA RecycledPairs ==
    ASSUME PairedInv, NEW l \in Leads \ overtaken
    PROVE  Paired(Recycled(l))
<1>1. job.rows[l] \in Rows /\ Paired(job.rows[l]) /\ lead[l] \in Rows
  BY DEF PairedInv, PairedRows, TypeOK, Jobs
<1>2. job.rows[l].count + 1 = Len(Append(job.rows[l].history, job.rows[l].owner))
  BY <1>1, AppendPairs, RowFields
<1>3. /\ Recycled(l).count = job.rows[l].count + 1
      /\ Recycled(l).history = Append(job.rows[l].history, job.rows[l].owner)
  BY <1>1 DEF Recycled, Rows
<1> QED
  BY <1>2, <1>3 DEF Paired

LEMMA UsedPairs ==
    ASSUME NEW r \in Rows, Paired(r), NEW op
    PROVE  Paired(Used(op, r))
BY EmptyRow DEF Used, Paired, Rows

LEMMA CommitPairs ==
    ASSUME PairedInv, NEW w \in Workers, NEW row \in Rows, Commit(w, row),
           overtaken \subseteq overtaken',
           request[w].lead \notin overtaken' => Paired(row)
    PROVE  PairedRows'
<1>1. request[w].lead \in Leads
  BY RowsOfRequest DEF PairedInv
<1>2. \A l \in Leads \ overtaken' : Paired(lead'[l])
  BY <1>1 DEF PairedInv, PairedRows, TypeOK, Commit
<1>3. ASSUME NEW v \in Workers, request'[v].lead \notin overtaken'
      PROVE  Paired(request'[v].row)
  BY <1>3, EmptyRow DEF PairedInv, PairedRows, TypeOK, Commit, Requests, Paired
<1>4. \A l \in Leads \ overtaken' : Paired(job'.rows[l])
  BY DEF PairedInv, PairedRows, Commit
<1> QED
  BY <1>2, <1>3, <1>4 DEF PairedRows, Paired

LEMMA PairedInit == Init => PairedRows
BY EmptyRow DEF Init, PairedRows, Paired, JobOff

LEMMA PairedNext ==
    ASSUME PairedInv, [Next]_vars
    PROVE  PairedRows'
<1> USE DEF PairedInv
<1>1. ASSUME NEW l \in Leads, NEW row \in Rows, l \notin overtaken => Paired(row),
             lead' = [lead EXCEPT ![l] = row], UNCHANGED <<request, job, overtaken>>
      PROVE  PairedRows'
  BY <1>1 DEF PairedRows, Paired, TypeOK
<1>2. ASSUME NEW l \in Leads, CreateLead(l) PROVE PairedRows'
  <2>1. PICK o \in Owners \cup {NoOwner}, c \in {"none", "fresh"} :
          lead' = [lead EXCEPT ![l] = [NoRow EXCEPT !.status = "lead",
                                         !.owner = o, !.clock = c]]
    BY <1>2 DEF CreateLead
  <2> DEFINE row == [NoRow EXCEPT !.status = "lead", !.owner = o, !.clock = c]
  <2>2. row \in Rows
    BY EmptyRow DEF Rows, Statuses, Clocks
  <2>3. Paired(row)
    BY EmptyRow DEF Paired, NoRow
  <2> QED
    BY <1>2, <2>1, <2>2, <2>3, <1>1 DEF CreateLead
<1>3. ASSUME NEW l \in Leads, CreateOther(l) PROVE PairedRows'
  <2>1. PICK o \in Owners \cup {NoOwner} :
          lead' = [lead EXCEPT ![l] = [NoRow EXCEPT !.status = "other", !.owner = o]]
    BY <1>3 DEF CreateOther
  <2> DEFINE row == [NoRow EXCEPT !.status = "other", !.owner = o]
  <2>2. row \in Rows
    BY EmptyRow DEF Rows, Statuses
  <2>3. Paired(row)
    BY EmptyRow DEF Paired, NoRow
  <2> QED
    BY <1>3, <2>1, <2>2, <2>3, <1>1 DEF CreateOther
<1>4. ASSUME NEW l \in Leads, DeleteLead(l) PROVE PairedRows'
  <2> DEFINE row == [NoRow EXCEPT !.status = "deleted"]
  <2>1. row \in Rows
    BY EmptyRow DEF Rows, Statuses
  <2>2. Paired(row)
    BY EmptyRow DEF Paired, NoRow
  <2> QED
    BY <1>4, <2>1, <2>2, <1>1 DEF DeleteLead
<1>5. ASSUME NEW l \in Leads, TurnStale(l) PROVE PairedRows'
  <2> DEFINE row == [lead[l] EXCEPT !.clock = "stale"]
  <2>1. lead[l] \in Rows /\ (l \notin overtaken => Paired(lead[l]))
    BY DEF TypeOK, PairedRows
  <2>2. row \in Rows
    BY <2>1 DEF Rows, Clocks
  <2>3. l \notin overtaken => Paired(row)
    BY <2>1 DEF Rows, Paired
  <2>4. lead' = [lead EXCEPT ![l] = row]
    BY <1>5 DEF TurnStale
  <2> HIDE DEF row
  <2> QED
    BY <1>5, <2>2, <2>3, <2>4, <1>1 DEF TurnStale
<1>6. ASSUME NEW l \in Leads, NEW w \in Workers, NEW op \in Ops, ReadRow(w, l, op)
      PROVE  PairedRows'
  <2>1. /\ request' = [request EXCEPT ![w] =
                        [op |-> op, lead |-> l, row |-> Used(op, lead[l])]]
        /\ UNCHANGED <<lead, job, overtaken>>
    BY <1>6 DEF ReadRow
  <2>2. l \notin overtaken => Paired(Used(op, lead[l]))
    BY UsedPairs DEF PairedRows, TypeOK
  <2>3. /\ request'[w].lead = l /\ request'[w].row = Used(op, lead[l])
        /\ \A v \in Workers \ {w} : request'[v] = request[v]
    BY <2>1 DEF TypeOK
  <2> QED
    BY <2>1, <2>2, <2>3 DEF PairedRows, Paired
<1>7. ASSUME NEW w \in Workers, AssignOwner(w) PROVE PairedRows'
  <2> DEFINE read == request[w].row
             now == lead[request[w].lead]
             row(o) == [now EXCEPT
                          !.owner = Column(read.owner, o, @),
                          !.clock = IF read.clock = "none" THEN "fresh" ELSE @]
  <2>1. PICK o \in Owners \cup {NoOwner} : Commit(w, row(o)) /\ overtaken' = overtaken
    BY <1>7 DEF AssignOwner
  <2>2. read \in Rows /\ now \in Rows /\ (request[w].lead \notin overtaken => Paired(now))
    BY RowsOfRequest DEF PairedRows
  <2>3. Column(read.owner, o, now.owner) \in Owners \cup {NoOwner}
    BY <2>2, RowFields, ColumnType
  <2>4. row(o) \in Rows
    BY <2>2, <2>3 DEF Rows, Clocks
  <2>5. request[w].lead \notin overtaken => Paired(row(o))
    BY <2>2 DEF Paired, Rows
  <2> HIDE DEF row
  <2> QED
    BY <2>1, <2>4, <2>5, CommitPairs
<1>8. ASSUME NEW w \in Workers, EditCustomer(w) PROVE PairedRows'
  <2> DEFINE read == request[w].row
             now == lead[request[w].lead]
             row(o, s) == [now EXCEPT
                             !.owner = Column(read.owner, o, @),
                             !.status = Column(read.status, s, @)]
  <2>1. PICK o \in Owners \cup {NoOwner}, s \in {"lead", "other"} : Commit(w, row(o, s))
            /\ overtaken' = overtaken
    BY <1>8 DEF EditCustomer
  <2>2. read \in Rows /\ now \in Rows /\ (request[w].lead \notin overtaken => Paired(now))
    BY RowsOfRequest DEF PairedRows
  <2>3. Column(read.owner, o, now.owner) \in Owners \cup {NoOwner}
    BY <2>2, RowFields, ColumnType
  <2>4. Column(read.status, s, now.status) \in Statuses
    <3>1. read.status \in Statuses /\ now.status \in Statuses /\ s \in Statuses
      BY <2>2, RowFields DEF Statuses
    <3> QED
      BY <3>1, ColumnType
  <2>5. row(o, s) \in Rows
    BY <2>2, <2>3, <2>4 DEF Rows
  <2>6. request[w].lead \notin overtaken => Paired(row(o, s))
    BY <2>2 DEF Paired, Rows
  <2> HIDE DEF row
  <2> QED
    BY <2>1, <2>5, <2>6, CommitPairs
<1>9. ASSUME NEW w \in Workers, ReassignLead(w) PROVE PairedRows'
  <2> DEFINE read == request[w].row
             now == lead[request[w].lead]
             row(o) == [now EXCEPT
                          !.owner = Column(read.owner, o, @),
                          !.clock = "fresh",
                          !.count = read.count + 1,
                          !.history = Append(read.history, read.owner)]
  <2>1. PICK o \in Owners \cup {NoOwner} : Commit(w, row(o)) /\ overtaken' = overtaken
    BY <1>9 DEF ReassignLead
  <2>2. read \in Rows /\ now \in Rows /\ (request[w].lead \notin overtaken => Paired(read))
    BY RowsOfRequest DEF PairedRows
  <2>3. Column(read.owner, o, now.owner) \in Owners \cup {NoOwner}
    BY <2>2, RowFields, ColumnType
  <2>4. /\ read.count + 1 \in Nat
        /\ Append(read.history, read.owner) \in Seq(Owners \cup {NoOwner})
        /\ request[w].lead \notin overtaken
              => read.count + 1 = Len(Append(read.history, read.owner))
    <3>1. /\ read.count \in Nat
          /\ read.owner \in Owners \cup {NoOwner}
          /\ read.history \in Seq(Owners \cup {NoOwner})
      BY <2>2, RowFields
    <3>2. request[w].lead \notin overtaken
            => read.count + 1 = Len(Append(read.history, read.owner))
      BY <2>2, <3>1, AppendPairs
    <3> QED
      BY <3>1, <3>2
  <2>5. row(o) \in Rows
    BY <2>2, <2>3, <2>4 DEF Rows, Clocks
  <2>6. row(o).count = read.count + 1 /\ row(o).history = Append(read.history, read.owner)
    BY <2>2 DEF Rows
  <2>7. request[w].lead \notin overtaken => Paired(row(o))
    BY <2>4, <2>6 DEF Paired
  <2> HIDE DEF row
  <2> QED
    BY <2>1, <2>5, <2>7, CommitPairs
<1>10. ASSUME NEW w \in Workers, BulkRecycle(w) PROVE PairedRows'
  <2> DEFINE read == request[w].row
             now == lead[request[w].lead]
             row == [now EXCEPT
                       !.owner = NoOwner,
                       !.clock = "none",
                       !.count = read.count + 1,
                       !.history = Append(now.history, NoOwner)]
  <2>1. /\ Commit(w, row)
        /\ overtaken' = IF read.history = now.history THEN overtaken
                        ELSE overtaken \cup {request[w].lead}
    BY <1>10 DEF BulkRecycle
  <2>2. read \in Rows /\ now \in Rows /\ (request[w].lead \notin overtaken => Paired(read))
    BY RowsOfRequest DEF PairedRows
  <2>3. /\ read.count \in Nat /\ now.history \in Seq(Owners \cup {NoOwner})
        /\ Append(now.history, NoOwner) \in Seq(Owners \cup {NoOwner})
        /\ Len(Append(now.history, NoOwner)) = Len(now.history) + 1
    BY <2>2, RowFields
  <2>4. row \in Rows /\ row.count = read.count + 1 /\ row.history = Append(now.history, NoOwner)
    <3>1. row.count = read.count + 1 /\ row.history = Append(now.history, NoOwner)
      BY <2>2 DEF Rows
    <3>2. read.count + 1 \in Nat
      BY <2>3
    <3>3. row \in Rows
      BY <2>2, <2>3, <3>2 DEF Rows, Clocks
    <3> QED
      BY <3>1, <3>3
  <2>5. ASSUME request[w].lead \notin overtaken'
        PROVE  read.count = Len(read.history) /\ read.history = now.history
    <3>1. read.history = now.history /\ overtaken' = overtaken
      BY <2>1, <2>5
    <3> QED
      BY <2>2, <2>5, <3>1 DEF Paired
  <2> HIDE DEF row, read, now
  <2>6. request[w].lead \notin overtaken' => Paired(row)
    BY <2>3, <2>4, <2>5 DEF Paired
  <2> QED
    BY <2>1, <2>4, <2>6, CommitPairs
<1>11. ASSUME NEW w \in Workers, RollBack(w) PROVE PairedRows'
  <2>1. ASSUME NEW v \in Workers, request'[v].lead \notin overtaken
        PROVE  Paired(request'[v].row)
    BY <1>11, <2>1, EmptyRow DEF RollBack, PairedRows, TypeOK, Requests, Paired
  <2> QED
    BY <1>11, <2>1 DEF RollBack, PairedRows, Paired
<1>12. CASE JobScans
  <2>1. \A l \in Leads \ overtaken : Paired(job'.rows[l])
    BY <1>12, EmptyRow DEF JobScans, PairedRows, Paired
  <2> QED
    BY <1>12, <2>1 DEF JobScans, PairedRows, Paired
<1>13. CASE JobUpdates
  <2>1. job'.rows = job.rows
    BY <1>13 DEF JobUpdates, TypeOK, Jobs
  <2> QED
    BY <1>13, <2>1 DEF JobUpdates, PairedRows, Paired
<1>14. CASE JobCommits
  <2>1. ASSUME NEW l \in Leads \ overtaken PROVE Paired(lead'[l])
    <3> DEFINE row == IF l \in job.stale THEN Recycled(l) ELSE lead[l]
    <3>1. row \in Rows /\ Paired(row)
      BY RecycledType, RecycledPairs DEF TypeOK, PairedRows
    <3>2. lead'[l] = [row EXCEPT !.status = "disqualified"] \/ lead'[l] = row
      BY <1>14 DEF JobCommits
    <3> HIDE DEF row
    <3> QED
      BY <3>1, <3>2 DEF Rows, Paired
  <2>2. \A l \in Leads : Paired(job'.rows[l])
    BY <1>14, EmptyRow DEF JobCommits, JobOff, Paired
  <2> QED
    BY <1>14, <2>1, <2>2 DEF JobCommits, PairedRows, Paired
<1>15. CASE JobAborts
  BY <1>15, EmptyRow DEF JobAborts, JobOff, PairedRows, Paired
<1>16. CASE UNCHANGED vars
  BY <1>16 DEF vars, PairedRows, Paired
<1> QED
  BY <1>2, <1>3, <1>4, <1>5, <1>6, <1>7, <1>8, <1>9, <1>10, <1>11,
     <1>12, <1>13, <1>14, <1>15, <1>16 DEF Next, Finish, Job

(* However requests, bulk_recycle included, and the job overlap and        *)
(* overwrite each other, recycle_count is the length of recycle_history    *)
(* but for a lead whose history was written between the update of a        *)
(* bulk_recycle and the read it was computed from.                         *)
THEOREM CountIsPaired == Spec => []HistoryMatchesCount
<1>1. Init => PairedInv
  BY TypeInit, PairedInit DEF PairedInv
<1>2. PairedInv /\ [Next]_vars => PairedInv'
  BY TypeNext, PairedNext DEF PairedInv
<1>3. PairedInv => HistoryMatchesCount
  BY DEF PairedInv, PairedRows, Paired, HistoryMatchesCount
<1> QED
  BY <1>1, <1>2, <1>3, PTL DEF Spec

-----------------------------------------------------------------------------
(* The cap of the recycling job: between its scan and its commit the job   *)
(* holds leads whose count, as scanned, is below the cap.                  *)

ScannedBelowCap == \A l \in job.stale : job.rows[l].count < MaxRecycle

LEMMA CapInit == Init => ScannedBelowCap
<1>1. Init => job.stale = {}
  BY DEF Init, JobOff
<1> QED
  BY <1>1 DEF ScannedBelowCap

LEMMA CapNext == TypeOK /\ ScannedBelowCap /\ [Next]_vars => ScannedBelowCap'
<1> SUFFICES ASSUME TypeOK, ScannedBelowCap, [Next]_vars PROVE ScannedBelowCap'
  OBVIOUS
<1>1. CASE JobScans
  BY <1>1 DEF JobScans, IsStale, ScannedBelowCap
<1>2. CASE JobUpdates
  <2>1. job'.rows = job.rows /\ job'.stale \subseteq job.stale
    BY <1>2 DEF JobUpdates, TypeOK, Jobs
  <2> QED
    BY <2>1 DEF ScannedBelowCap
<1>3. CASE JobCommits \/ JobAborts
  BY <1>3 DEF JobCommits, JobAborts, JobOff, ScannedBelowCap
<1>4. CASE UNCHANGED job
  BY <1>4 DEF ScannedBelowCap
<1> QED
  BY <1>1, <1>2, <1>3, <1>4 DEF Next, Finish, Job, vars, CreateLead, CreateOther,
     DeleteLead, TurnStale, ReadRow, Commit, AssignOwner, EditCustomer,
     ReassignLead, BulkRecycle, RollBack

(* A step that ends the job changes a count only by a recycling, and that  *)
(* one stays within the cap.                                               *)
LEMMA CapStep ==
    ASSUME TypeOK, ScannedBelowCap, [Next]_vars,
           job.at = "updated", job'.at = "off", NEW l \in Leads
    PROVE  lead'[l].count <= MaxRecycle \/ lead'[l].count = lead[l].count
<1>1. CASE JobCommits
  <2> DEFINE row == IF l \in job.stale THEN Recycled(l) ELSE lead[l]
  <2>1. row \in Rows /\ job.rows[l] \in Rows /\ lead[l] \in Rows
    BY RecycledType DEF TypeOK, Jobs
  <2>2. lead'[l] = [row EXCEPT !.status = "disqualified"] \/ lead'[l] = row
    BY <1>1 DEF JobCommits
  <2>3. row.count <= MaxRecycle \/ row.count = lead[l].count
    <3>1. CASE l \in job.stale
      <4>1. job.rows[l].count < MaxRecycle
        BY <3>1 DEF ScannedBelowCap
      <4>2. row.count = job.rows[l].count + 1
        BY <3>1, <2>1 DEF Recycled, Rows
      <4> QED
        BY <4>1, <4>2, <2>1, RowFields, PoolConstants
    <3>2. CASE l \notin job.stale
      BY <3>2
    <3> QED
      BY <3>1, <3>2
  <2> HIDE DEF row
  <2> QED
    BY <2>1, <2>2, <2>3 DEF Rows
<1>2. CASE JobAborts
  BY <1>2 DEF JobAborts
<1>3. CASE JobScans \/ JobUpdates
  BY <1>3 DEF JobScans, JobUpdates
<1>4. CASE UNCHANGED job
  BY <1>4
<1> QED
  BY <1>1, <1>2, <1>3, <1>4 DEF Next, Finish, Job, vars, CreateLead, CreateOther,
     DeleteLead, TurnStale, ReadRow, Commit, AssignOwner, EditCustomer,
     ReassignLead, BulkRecycle, RollBack

(* The job recycles no lead beyond max_recycle, whatever requests write    *)
(* between its scan and its updates.                                       *)
THEOREM RecyclingIsCapped == Spec => JobKeepsToCap
<1>1. Init => TypeOK /\ ScannedBelowCap
  BY TypeInit, CapInit
<1>2. TypeOK /\ ScannedBelowCap /\ [Next]_vars => TypeOK' /\ ScannedBelowCap'
  BY TypeNext, CapNext
<1>3. TypeOK /\ ScannedBelowCap /\ [Next]_vars =>
        [job.at = "updated" /\ job'.at = "off" =>
            \A l \in Leads :
                lead'[l].count <= MaxRecycle \/ lead'[l].count = lead[l].count]_vars
  BY CapStep
<1> QED
  BY <1>1, <1>2, <1>3, PTL DEF Spec, JobKeepsToCap

-----------------------------------------------------------------------------
(* What the history of a lead keeps.                                       *)

LEMMA SelfAgrees ==
    ASSUME NEW S, NEW h \in Seq(S), NEW n \in 1..Len(h)
    PROVE  Agree(h, h, n)
BY DEF Agree

LEMMA AppendAgrees ==
    ASSUME NEW S, NEW h \in Seq(S), NEW k \in Seq(S), NEW o \in S,
           NEW n \in 1..Len(h), Agree(h, k, n)
    PROVE  Agree(h, Append(k, o), n)
<1>1. /\ Len(h) \in Nat /\ Len(k) \in Nat /\ Len(Append(k, o)) = Len(k) + 1
      /\ \A i \in 1..Len(k) : Append(k, o)[i] = k[i]
  OBVIOUS
<1>2. n <= Len(k) /\ \A i \in 1..n : h[i] = k[i]
  BY DEF Agree
<1> QED
  BY <1>1, <1>2 DEF Agree

(* A request that commits leaves other leads alone, and of its own lead    *)
(* the history, or a history with one entry added: to the one it has read  *)
(* if it is a reassignment, to the one it finds if it is a bulk_recycle.   *)
LEMMA FinishWrites ==
    ASSUME TypeOK, NEW w \in Workers, Finish(w)
    PROVE  /\ \A l \in Leads \ {request[w].lead} : lead'[l] = lead[l]
           /\ LET new == lead'[request[w].lead].history
                  now == lead[request[w].lead].history
              IN  \/ new = now
                  \/ new = Append(now, NoOwner)
                  \/ /\ request[w].op = "reassign"
                     /\ new = Append(request[w].row.history, request[w].row.owner)
<1> DEFINE read == request[w].row
           now == lead[request[w].lead]
           Written(h) == \/ h = now.history
                         \/ h = Append(now.history, NoOwner)
                         \/ /\ request[w].op = "reassign"
                            /\ h = Append(read.history, read.owner)
<1>1. read \in Rows /\ now \in Rows /\ request[w].lead \in Leads
  BY RowsOfRequest
<1>2. PICK row : Commit(w, row) /\ Written(row.history)
  <2>1. CASE AssignOwner(w)
    <3> DEFINE row(o) == [now EXCEPT
                            !.owner = Column(read.owner, o, @),
                            !.clock = IF read.clock = "none" THEN "fresh" ELSE @]
    <3>1. PICK o \in Owners \cup {NoOwner} : Commit(w, row(o))
      BY <2>1 DEF AssignOwner
    <3>2. row(o).history = now.history
      BY <1>1 DEF Rows
    <3> HIDE DEF row
    <3> QED
      BY <3>1, <3>2
  <2>2. CASE EditCustomer(w)
    <3> DEFINE row(o, s) == [now EXCEPT
                               !.owner = Column(read.owner, o, @),
                               !.status = Column(read.status, s, @)]
    <3>1. PICK o \in Owners \cup {NoOwner}, s \in {"lead", "other"} : Commit(w, row(o, s))
      BY <2>2 DEF EditCustomer
    <3>2. row(o, s).history = now.history
      BY <1>1 DEF Rows
    <3> HIDE DEF row
    <3> QED
      BY <3>1, <3>2
  <2>3. CASE ReassignLead(w)
    <3> DEFINE row(o) == [now EXCEPT
                            !.owner = Column(read.owner, o, @),
                            !.clock = "fresh",
                            !.count = read.count + 1,
                            !.history = Append(read.history, read.owner)]
    <3>1. PICK o \in Owners \cup {NoOwner} : Commit(w, row(o))
      BY <2>3 DEF ReassignLead
    <3>2. row(o).history = Append(read.history, read.owner)
      BY <1>1 DEF Rows
    <3>3. request[w].op = "reassign"
      BY <2>3 DEF ReassignLead
    <3> HIDE DEF row
    <3> QED
      BY <3>1, <3>2, <3>3
  <2>4. CASE BulkRecycle(w)
    <3> DEFINE row == [now EXCEPT
                         !.owner = NoOwner,
                         !.clock = "none",
                         !.count = read.count + 1,
                         !.history = Append(now.history, NoOwner)]
    <3>1. Commit(w, row)
      BY <2>4 DEF BulkRecycle
    <3>2. row.history = Append(now.history, NoOwner)
      BY <1>1 DEF Rows
    <3> HIDE DEF row
    <3> QED
      BY <3>1, <3>2
  <2> QED
    BY <2>1, <2>2, <2>3, <2>4 DEF Finish
<1>3. lead' = [lead EXCEPT ![request[w].lead] = row]
  BY <1>2 DEF Commit
<1>4. lead'[request[w].lead] = row
  BY <1>1, <1>3 DEF TypeOK
<1>5. \A l \in Leads \ {request[w].lead} : lead'[l] = lead[l]
  BY <1>3 DEF TypeOK
<1> QED
  BY <1>2, <1>4, <1>5

(* No step but a deletion changes the part of a history that the           *)
(* transactions in progress have read.                                     *)
LEMMA HistoryStep ==
    ASSUME TypeOK, Next, NEW l \in Leads, There(l), lead'[l].status # "deleted",
           NEW n \in 1..Len(lead[l].history),
           \A k \in Pending(l) : Agree(lead[l].history, k, n)
    PROVE  Agree(lead[l].history, lead'[l].history, n)
<1> DEFINE S == Owners \cup {NoOwner}
           h == lead[l].history
<1>1. lead \in [Leads -> Rows] /\ lead[l] \in Rows /\ lead[l] # NoRow
  BY DEF TypeOK, There, NoRow
<1>2. h \in Seq(S)
  BY <1>1, RowFields
<1>3. Agree(h, h, n)
  BY <1>2, SelfAgrees
<1>4. \A k \in Seq(S), o \in S : Agree(h, k, n) => Agree(h, Append(k, o), n)
  BY <1>2, AppendAgrees
<1>5. lead'[l].history = h => Agree(h, lead'[l].history, n)
  BY <1>3
<1>6. ASSUME NEW k \in Leads, CreateLead(k) \/ CreateOther(k)
      PROVE  lead'[l].history = h
  BY <1>1, <1>6 DEF CreateLead, CreateOther
<1>7. ASSUME NEW k \in Leads, DeleteLead(k)
      PROVE  lead'[l].history = h
  BY <1>1, <1>7, EmptyRow DEF DeleteLead, NoRow
<1>8. ASSUME NEW k \in Leads, TurnStale(k)
      PROVE  lead'[l].history = h
  BY <1>1, <1>8 DEF TurnStale, Rows
<1>9. ASSUME NEW w \in Workers, Finish(w)
      PROVE  Agree(h, lead'[l].history, n)
  <2>1. CASE request[w].lead # l
    BY <1>5, <1>9, <2>1, FinishWrites
  <2>2. CASE request[w].lead = l
    <3>1. request[w].op = "reassign" => request[w].row.history \in Pending(l)
      BY <2>2 DEF Pending
    <3>2. /\ request[w].row.history \in Seq(S)
          /\ request[w].row.owner \in S
      BY RowsOfRequest, RowFields
    <3>3. \/ lead'[l].history = h
          \/ lead'[l].history = Append(h, NoOwner)
          \/ /\ request[w].op = "reassign"
             /\ lead'[l].history = Append(request[w].row.history, request[w].row.owner)
      BY <1>9, <2>2, FinishWrites
    <3>4. CASE lead'[l].history = Append(h, NoOwner)
      BY <1>2, <1>3, <1>4, <3>4
    <3>5. CASE request[w].op = "reassign"
               /\ lead'[l].history = Append(request[w].row.history, request[w].row.owner)
      BY <1>4, <3>1, <3>2, <3>5
    <3> QED
      BY <1>5, <3>3, <3>4, <3>5
  <2> QED
    BY <2>1, <2>2
<1>10. CASE JobCommits
  <2> DEFINE row == IF l \in job.stale THEN Recycled(l) ELSE lead[l]
  <2>1. row \in Rows
    BY <1>1, RecycledType
  <2>2. lead'[l].history = row.history
    <3>1. lead'[l] = [row EXCEPT !.status = "disqualified"] \/ lead'[l] = row
      BY <1>10 DEF JobCommits
    <3> HIDE DEF row
    <3> QED
      BY <2>1, <3>1 DEF Rows
  <2>3. CASE l \in job.stale
    <3>1. job.rows[l] \in Rows /\ job.rows[l].history \in Pending(l)
      BY <2>3 DEF Pending, TypeOK, Jobs
    <3>2. row.history = Append(job.rows[l].history, job.rows[l].owner)
      BY <1>1, <2>3 DEF Recycled, Rows
    <3>3. job.rows[l].history \in Seq(S) /\ job.rows[l].owner \in S
      BY <3>1, RowFields
    <3> QED
      BY <1>4, <2>2, <3>1, <3>2, <3>3
  <2> QED
    BY <1>5, <2>2, <2>3
<1>11. CASE UNCHANGED lead
  BY <1>5, <1>11
<1> QED
  BY <1>5, <1>6, <1>7, <1>8, <1>9, <1>10, <1>11
  DEF Next, Job, JobScans, JobUpdates, JobAborts, ReadRow, RollBack

(* What is logged in the history of a lead stays logged as far as the      *)
(* transactions in progress have read it (reassign_lead, bulk_recycle and  *)
(* the job), with any number of them.                                      *)
THEOREM LoggedEntriesAreKept == Spec => HistoryIsKept
<1>1. Init => TypeOK
  BY TypeInit
<1>2. TypeOK /\ [Next]_vars => TypeOK'
  BY TypeNext
<1>3. TypeOK /\ [Next]_vars =>
        [\A l \in Leads :
            There(l) /\ lead'[l].status # "deleted" =>
                \A n \in 1..Len(lead[l].history) :
                    (\A k \in Pending(l) : Agree(lead[l].history, k, n))
                        => Agree(lead[l].history, lead'[l].history, n)]_vars
  BY HistoryStep
<1> QED
  BY <1>1, <1>2, <1>3, PTL DEF Spec, HistoryIsKept

=============================================================================
