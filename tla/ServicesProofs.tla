----------------------------- MODULE ServicesProofs -----------------------------
(***************************************************************************)
(* Theorems about the services: roles and permissions, automation rules,   *)
(* the cache of recommendations, churn scores; and that what is proved of  *)
(* each service holds of all of them together.                             *)
(***************************************************************************)
EXTENDS MCServices, AccountsProofs, AssignmentProofs, WellFoundedInduction

(* Roles and permissions: for any tenants, users, roles and requests, the  *)
(* system roles keep their powers until a request of tenant 0 changes      *)
(* them, and the sets of roles and permissions are replaced as in some     *)
(* serial order.                                                           *)

AnyRows == (AllRoles \X Permissions) \cup (Members \X AllRoles)
Change == [tenant : AllTenants, owner : AllRoles \cup Members \cup {<<>>},
           deletes : SUBSET AnyRows, inserts : SUBSET AnyRows]

AccessTyped ==
    /\ roles \subseteq AllRoles
    /\ system \subseteq roles \cap DefaultRoles
    /\ powers \subseteq roles \X Permissions
    /\ grants \subseteq Members \X roles
    /\ roleWork \in [RoleRequests -> Change]
    /\ \A row \in ordered : row[1] \in roles \cup Members

(* A request in flight writes rows of its owner only, which is a user, a   *)
(* role that is no system role, or one for a request of tenant 0, and it   *)
(* names roles that exist.                                                 *)
OwnRows(job) == \A row \in job.deletes \cup job.inserts : row[1] = job.owner
UserJob(job) == job.owner \in Members /\ job.inserts \subseteq Members \X roles
RoleJob(job) ==
    /\ job.owner \in roles /\ (SystemRole(job.owner) => job.tenant = System)
    /\ job.inserts \subseteq roles \X Permissions

Jobs ==
    \A q \in RoleRequests :
        LET job == roleWork[q] IN
        job # NoRoleWork => OwnRows(job) /\ (UserJob(job) \/ RoleJob(job))

SystemPowers ==
    \A r \in system \ replaced : \A p \in Permissions :
        <<r, p>> \in powers <=> p \in Defaults[r[2]]

(* Two requests of one owner are noticed; a request alone that deletes     *)
(* anything deletes all there is.                                          *)
Alone ==
    \A q \in RoleRequests :
        LET x == roleWork[q].owner IN
        x \notin mixed /\ roleWork[q] # NoRoleWork =>
            /\ \A w \in RoleRequests : roleWork[w].owner = x => w = q
            /\ roleWork[q].deletes # {} =>
                  \A row \in Rows : row[1] = x => row \in roleWork[q].deletes

(* SetsReplace, row by row.                                                *)
RowsAgree ==
    \A x \in (roles \cup Members) \ mixed : \A row :
        row[1] = x => (row \in Rows <=> row \in ordered)

AInv == AccessTyped /\ Jobs /\ SystemPowers /\ Alone /\ RowsAgree

-----------------------------------------------------------------------------

LEMMA Apart ==
  /\ AllRoles \cap Members = {}
  /\ AllRoles \cap Permissions = {}
  /\ <<>> \notin AllRoles /\ <<>> \notin Members
<1>1. <<>> \notin AllRoles
  BY DEF AllRoles
<1> QED BY <1>1, AccessAssumption DEF AllRoles, AllTenants, System

LEMMA NoWorkIsAJob == NoRoleWork \in Change /\ NoRoleWork.owner = <<>>
BY DEF NoRoleWork, Change, AllTenants

LEMMA InitAInv == AccessInit => AInv
<1> SUFFICES ASSUME AccessInit
             PROVE  AInv
  OBVIOUS
<1>1. AccessTyped
  BY NoWorkIsAJob DEF AccessInit, AccessTyped
<1> QED BY <1>1 DEF AccessInit, AInv, AccessTyped, Jobs, SystemPowers, Alone, RowsAgree, Rows

LEMMA InitDefaultsStep ==
  ASSUME AInv, InitDefaults
  PROVE  AInv'
<1>1. /\ roles = {} /\ powers = {} /\ grants = {} /\ roles' = DefaultRoles
      /\ system' = DefaultRoles
      /\ powers' = DefaultPowers /\ ordered' = ordered \cup DefaultPowers
      /\ UNCHANGED <<grants, roleWork, mixed, replaced>>
  BY DEF InitDefaults, AInv, AccessTyped
<1>2. DefaultRoles \subseteq AllRoles /\ DefaultPowers \subseteq DefaultRoles \X Permissions
  BY AccessAssumption DEF DefaultRoles, DefaultPowers, AllRoles, AllTenants, System
<1>3. AccessTyped'
  BY <1>1, <1>2 DEF AInv, AccessTyped
<1>4. Jobs'
  BY <1>1 DEF AInv, Jobs, OwnRows, UserJob, RoleJob
<1>5. SystemPowers'
  <2>1. ASSUME NEW r \in DefaultRoles, NEW p \in Permissions
        PROVE  <<r, p>> \in DefaultPowers <=> p \in Defaults[r[2]]
    BY DEF DefaultPowers
  <2> QED BY <1>1, <2>1 DEF SystemPowers
<1>6. ASSUME NEW row \in DefaultPowers
      PROVE  row[1] \in DefaultRoles
  BY <1>2 DEF DefaultPowers
<1>7. Alone'
  <2>1. ASSUME NEW q \in RoleRequests, roleWork[q] # NoRoleWork
        PROVE  \A row \in Rows' : row[1] # roleWork[q].owner
    <3>1. roleWork[q].owner \in Members
      BY <1>1, <2>1 DEF AInv, Jobs, UserJob, RoleJob
    <3>2. \A row \in Rows' : row[1] \in AllRoles
      BY <1>1, <1>2, <1>6 DEF Rows
    <3> QED BY <3>1, <3>2, Apart
  <2> QED BY <1>1, <2>1 DEF AInv, Alone
<1>8. RowsAgree'
  <2>1. \A row \in ordered : row[1] \in Members
    BY <1>1 DEF AInv, AccessTyped
  <2>2. \A row \in DefaultPowers : row[1] \notin Members
    BY <1>2, <1>6, Apart
  <2>3. ASSUME NEW x \in Members \ mixed, NEW row, row[1] = x
        PROVE  row \notin ordered
    BY <1>1, <2>3 DEF AInv, RowsAgree, Rows
  <2> QED BY <1>1, <1>2, <2>1, <2>2, <2>3, Apart DEF RowsAgree, Rows
<1> QED BY <1>3, <1>4, <1>5, <1>7, <1>8 DEF AInv

LEMMA CreateRoleStep ==
  ASSUME AInv, NEW t \in AllTenants, NEW n \in Names, NEW S \in SUBSET Permissions,
         CreateRole(t, n, S)
  PROVE  AInv'
<1> DEFINE r == <<t, n>>
           rows == {<<r, p>> : p \in S}
<1>1. /\ r \notin roles /\ r \in AllRoles /\ r \notin Members
  BY Apart DEF CreateRole, AllRoles
<1>2. /\ roles' = roles \cup {r} /\ powers' = powers \cup rows
      /\ ordered' = ordered \cup rows /\ UNCHANGED <<system, grants, roleWork, mixed, replaced>>
  BY DEF CreateRole
<1>3. rows \subseteq {r} \X Permissions /\ \A row \in rows : row[1] = r
  OBVIOUS
<1> HIDE DEF r, rows
<1>4. AccessTyped'
  BY <1>1, <1>2, <1>3 DEF AInv, AccessTyped
<1>5. Jobs'
  BY <1>2 DEF AInv, Jobs, OwnRows, UserJob, RoleJob, SystemRole
<1>6. SystemPowers'
  <2>1. ASSUME NEW x \in roles, NEW p \in Permissions
        PROVE  <<x, p>> \in powers' <=> <<x, p>> \in powers
    <3>1. <<x, p>>[1] # r
      BY <1>1
    <3> QED BY <1>2, <1>3, <3>1
  <2> QED BY <1>2, <2>1 DEF AInv, AccessTyped, SystemPowers
<1>7. Alone'
  <2>1. ASSUME NEW q \in RoleRequests, roleWork[q] # NoRoleWork
        PROVE  roleWork[q].owner # r
    BY <1>1, <2>1 DEF AInv, Jobs, UserJob, RoleJob
  <2> QED BY <1>2, <1>3, <2>1 DEF AInv, Alone, Rows
<1>8. RowsAgree'
  <2>1. \A row \in Rows \cup ordered : row[1] # r
    BY <1>1 DEF AInv, AccessTyped, Rows
  <2> QED BY <1>1, <1>2, <1>3, <2>1 DEF AInv, RowsAgree, Rows
<1> QED BY <1>4, <1>5, <1>6, <1>7, <1>8 DEF AInv

LEMMA DeleteRoleStep ==
  ASSUME AInv, NEW t \in AllTenants, NEW r \in roles, DeleteRole(t, r)
  PROVE  AInv'
<1>1. /\ r \in AllRoles /\ ~SystemRole(r) /\ r \notin Members /\ r \notin Permissions
  BY Apart DEF DeleteRole, AInv, AccessTyped
<1>2. /\ roles' = roles \ {r}
      /\ powers' = {row \in powers : row[1] # r}
      /\ grants' = {row \in grants : row[2] # r}
      /\ ordered' = {row \in ordered : row[1] # r /\ row[2] # r}
      /\ roleWork' = [q \in RoleRequests |-> IF Mentions(q, r) THEN NoRoleWork ELSE roleWork[q]]
      /\ UNCHANGED <<system, mixed, replaced>>
  BY DEF DeleteRole
<1>3. \A q \in RoleRequests : roleWork'[q] # NoRoleWork =>
          roleWork'[q] = roleWork[q] /\ ~Mentions(q, r)
  BY <1>2
<1>4. AccessTyped'
  BY <1>1, <1>2, NoWorkIsAJob DEF AInv, AccessTyped, SystemRole
<1>5. Jobs'
  <2> SUFFICES ASSUME NEW q \in RoleRequests, roleWork'[q] # NoRoleWork
               PROVE  (OwnRows(roleWork[q]) /\ (UserJob(roleWork[q]) \/ RoleJob(roleWork[q])))'
    BY DEF Jobs
  <2> DEFINE job == roleWork[q]
  <2>1. /\ roleWork'[q] = job /\ job # NoRoleWork /\ job.owner # r
        /\ \A row \in job.inserts : row[2] # r
    BY <1>3 DEF Mentions
  <2>2. OwnRows(job) /\ (UserJob(job) \/ RoleJob(job))
    BY <2>1 DEF AInv, Jobs
  <2>3. UserJob(job) => job.inserts \subseteq Members \X roles'
    BY <1>2, <2>1 DEF UserJob
  <2>4. RoleJob(job) => job.inserts \subseteq roles' \X Permissions
    BY <1>2, <2>1, <2>2 DEF RoleJob, OwnRows
  <2> HIDE DEF job
  <2> QED BY <1>2, <2>1, <2>2, <2>3, <2>4 DEF OwnRows, UserJob, RoleJob, SystemRole
<1>6. SystemPowers'
  <2>1. ASSUME NEW x \in roles', NEW p \in Permissions
        PROVE  <<x, p>> \in powers' <=> <<x, p>> \in powers
    BY <1>2
  <2> QED BY <1>1, <1>2, <2>1 DEF AInv, AccessTyped, SystemPowers, SystemRole
<1>7. Alone'
  <2> SUFFICES ASSUME NEW q \in RoleRequests, roleWork'[q] # NoRoleWork,
                      roleWork'[q].owner \notin mixed
               PROVE  /\ \A w \in RoleRequests : roleWork'[w].owner = roleWork'[q].owner => w = q
                      /\ roleWork'[q].deletes # {} =>
                            \A row \in Rows' : row[1] = roleWork'[q].owner =>
                                                row \in roleWork'[q].deletes
    BY <1>2 DEF Alone
  <2>1. roleWork'[q] = roleWork[q] /\ roleWork[q] # NoRoleWork
    BY <1>3
  <2>2. roleWork[q].owner # <<>>
    BY <2>1, Apart DEF AInv, Jobs, UserJob, RoleJob, AccessTyped
  <2>3. Rows' \subseteq Rows
    BY <1>2 DEF Rows
  <2>4. \A w \in RoleRequests : roleWork'[w].owner = <<>> \/ roleWork'[w] = roleWork[w]
    BY <1>2, NoWorkIsAJob
  <2> QED BY <2>1, <2>2, <2>3, <2>4 DEF AInv, Alone
<1>8. RowsAgree'
  <2> SUFFICES ASSUME NEW x \in (roles' \cup Members) \ mixed, NEW row, row[1] = x
               PROVE  row \in Rows' <=> row \in ordered'
    BY <1>2 DEF RowsAgree
  <2>1. x # r /\ x \in (roles \cup Members) \ mixed
    BY <1>1, <1>2
  <2>2. row \in Rows <=> row \in ordered
    BY <2>1 DEF AInv, RowsAgree
  <2>3. row \in powers => row[2] # r
    BY <1>1 DEF AInv, AccessTyped
  <2> QED BY <1>2, <2>1, <2>2, <2>3 DEF Rows
<1> QED BY <1>4, <1>5, <1>6, <1>7, <1>8 DEF AInv

LEMMA RevokeRoleStep ==
  ASSUME AInv, NEW u \in Members, NEW r \in roles, RevokeRole(u, r)
  PROVE  AInv'
<1>1. /\ <<u, r>> \in grants /\ grants' = grants \ {<<u, r>>}
      /\ ordered' = ordered \ {<<u, r>>} /\ UNCHANGED <<roles, system, powers, roleWork, mixed, replaced>>
  BY DEF RevokeRole
<1>2. <<u, r>> \notin powers
  <2>1. <<u, r>>[1] = u /\ u \notin AllRoles
    BY Apart
  <2> QED BY <2>1 DEF AInv, AccessTyped
<1>3. AccessTyped'
  BY <1>1 DEF AInv, AccessTyped
<1>4. Jobs' /\ SystemPowers'
  BY <1>1 DEF AInv, Jobs, OwnRows, UserJob, RoleJob, SystemRole, SystemPowers
<1>5. Alone'
  BY <1>1 DEF AInv, Alone, Rows
<1>6. RowsAgree'
  BY <1>1, <1>2 DEF AInv, RowsAgree, Rows
<1> QED BY <1>3, <1>4, <1>5, <1>6 DEF AInv

(* A request begins: it deletes nothing, or the rows its owner has now.    *)
LEMMA BeginStep ==
  ASSUME AInv, NEW q \in RoleRequests, NEW t \in AllTenants, NEW x \in roles \cup Members,
         NEW deletes, NEW inserts \in SUBSET AnyRows, BeginChange(q, t, x, deletes, inserts),
         deletes = {} \/ deletes = RowsOf(x),
         \A row \in inserts : row[1] = x,
         \/ x \in Members /\ inserts \subseteq Members \X roles
         \/ x \in roles /\ (SystemRole(x) => t = System) /\ inserts \subseteq roles \X Permissions
  PROVE  AInv'
<1> DEFINE job == [tenant |-> t, owner |-> x, deletes |-> deletes, inserts |-> inserts]
<1>1. Rows \subseteq AnyRows
  BY DEF AInv, AccessTyped, Rows, AnyRows
<1>2. deletes \subseteq AnyRows /\ \A row \in deletes : row[1] = x
  BY <1>1 DEF RowsOf
<1>3. job \in Change
  BY <1>2 DEF Change, AInv, AccessTyped
<1>4. /\ roleWork' = [roleWork EXCEPT ![q] = job]
      /\ mixed' = mixed \cup {x : r \in {w \in RoleRequests : roleWork[w].owner = x}}
      /\ UNCHANGED <<roles, system, powers, grants, ordered, replaced>>
      /\ roleWork[q] = NoRoleWork
  BY DEF BeginChange
<1>5. job.tenant = t /\ job.owner = x /\ job.deletes = deletes /\ job.inserts = inserts
  OBVIOUS
<1> HIDE DEF job
<1>6. roleWork'[q] = job /\ \A w \in RoleRequests \ {q} : roleWork'[w] = roleWork[w]
  BY <1>4 DEF AInv, AccessTyped
<1>7. AccessTyped'
  BY <1>3, <1>4 DEF AInv, AccessTyped
<1>8. Jobs'
  <2>1. OwnRows(job) /\ (UserJob(job) \/ RoleJob(job))
    BY <1>2, <1>5 DEF OwnRows, UserJob, RoleJob
  <2> QED BY <1>4, <1>6, <2>1 DEF AInv, Jobs, OwnRows, UserJob, RoleJob, SystemRole
<1>9. SystemPowers' /\ RowsAgree'
  BY <1>4 DEF AInv, SystemPowers, RowsAgree, Rows
<1>10. Alone'
  <2>1. ASSUME NEW w \in RoleRequests, roleWork[w].owner = x
        PROVE  x \in mixed'
    BY <1>4, <2>1
  <2>2. \A row \in Rows : row[1] = x => row \in RowsOf(x)
    BY DEF RowsOf
  <2>3. Rows' = Rows /\ mixed \subseteq mixed'
    BY <1>4 DEF Rows
  <2> SUFFICES ASSUME NEW v \in RoleRequests, roleWork'[v] # NoRoleWork,
                      roleWork'[v].owner \notin mixed'
               PROVE  /\ \A w \in RoleRequests : roleWork'[w].owner = roleWork'[v].owner => w = v
                      /\ roleWork'[v].deletes # {} =>
                            \A row \in Rows : row[1] = roleWork'[v].owner =>
                                               row \in roleWork'[v].deletes
    BY <2>3 DEF Alone
  <2>4. CASE v = q
    BY <1>5, <1>6, <2>1, <2>2, <2>4
  <2>5. CASE v # q
    <3>1. roleWork'[v] = roleWork[v] /\ roleWork[v].owner # x
      BY <1>6, <2>1, <2>5
    <3> QED BY <1>5, <1>6, <2>3, <3>1 DEF AInv, Alone
  <2> QED BY <2>4, <2>5
<1> QED BY <1>7, <1>8, <1>9, <1>10 DEF AInv

(* A request ends: another with the same owner, if any, has been noticed.  *)
LEMMA OthersGoOn ==
  ASSUME AInv, NEW q \in RoleRequests, roleWork[q] # NoRoleWork,
         roleWork' = [roleWork EXCEPT ![q] = NoRoleWork], UNCHANGED <<roles, system, mixed>>,
         \A row \in Rows' : row \in Rows \/ row[1] = roleWork[q].owner
  PROVE  Jobs' /\ Alone'
<1>1. /\ roleWork'[q] = NoRoleWork
      /\ \A w \in RoleRequests \ {q} : roleWork'[w] = roleWork[w]
  BY DEF AInv, AccessTyped
<1>2. Jobs'
  BY <1>1 DEF AInv, Jobs, OwnRows, UserJob, RoleJob, SystemRole
<1>3. Alone'
  <2> SUFFICES ASSUME NEW v \in RoleRequests, roleWork'[v] # NoRoleWork,
                      roleWork'[v].owner \notin mixed
               PROVE  /\ \A w \in RoleRequests : roleWork'[w].owner = roleWork'[v].owner => w = v
                      /\ roleWork'[v].deletes # {} =>
                            \A row \in Rows' : row[1] = roleWork'[v].owner =>
                                                row \in roleWork'[v].deletes
    BY DEF Alone
  <2>1. v # q /\ roleWork'[v] = roleWork[v]
    BY <1>1
  <2>2. roleWork[v].owner # <<>> /\ roleWork[v].owner # roleWork[q].owner
    BY <2>1, Apart DEF AInv, Jobs, UserJob, RoleJob, AccessTyped, Alone
  <2> QED BY <1>1, <2>1, <2>2, NoWorkIsAJob DEF AInv, Alone
<1> QED BY <1>2, <1>3

LEMMA AbortStep ==
  ASSUME AInv, NEW q \in RoleRequests, AbortChange(q)
  PROVE  AInv'
<1>1. AccessTyped'
  BY NoWorkIsAJob DEF AbortChange, AInv, AccessTyped
<1>2. Jobs' /\ Alone'
  BY OthersGoOn DEF AbortChange, Rows
<1>3. SystemPowers' /\ RowsAgree'
  BY DEF AbortChange, AInv, SystemPowers, RowsAgree, Rows
<1> QED BY <1>1, <1>2, <1>3 DEF AInv

LEMMA FinishStep ==
  ASSUME AInv, NEW q \in RoleRequests, FinishChange(q)
  PROVE  AInv'
<1> DEFINE x == roleWork[q].owner
           D == roleWork[q].deletes
           I == roleWork[q].inserts
<1>1. /\ roleWork[q] # NoRoleWork /\ roleWork' = [roleWork EXCEPT ![q] = NoRoleWork]
      /\ UNCHANGED <<roles, system, mixed>>
      /\ replaced' = replaced \cup {r \in {x} \cap roles : roleWork[q].tenant = System}
      /\ Order(x, IF D = {} THEN OrderedOf(x) \cup I ELSE I)
  BY DEF FinishChange
<1>2. (\A row \in D \cup I : row[1] = x) /\ (UserJob(roleWork[q]) \/ RoleJob(roleWork[q]))
  BY <1>1 DEF AInv, Jobs, OwnRows
<1>3. /\ Rows' = (Rows \ D) \cup I
      /\ SystemPowers'
      /\ grants' \subseteq Members \X roles /\ powers' \subseteq roles \X Permissions
      /\ x \in roles \cup Members
  <2>1. CASE UserJob(roleWork[q])
    <3>1. x \in Members /\ x \notin AllRoles /\ I \subseteq Members \X roles
      BY <2>1, Apart DEF UserJob
    <3>2. grants' = (grants \ D) \cup I /\ powers' = powers
      BY <3>1 DEF FinishChange
    <3>3. \A row \in powers : row[1] # x
      BY <3>1 DEF AInv, AccessTyped
    <3>4. Rows' = (Rows \ D) \cup I
      BY <1>2, <3>2, <3>3 DEF Rows
    <3>5. SystemPowers'
      BY <1>1, <3>2 DEF AInv, SystemPowers, SystemRole
    <3>6. grants' \subseteq Members \X roles /\ powers' \subseteq roles \X Permissions
      BY <3>1, <3>2 DEF AInv, AccessTyped
    <3> QED BY <3>1, <3>4, <3>5, <3>6
  <2>2. CASE RoleJob(roleWork[q])
    <3>1. x \in roles /\ x \notin Members /\ (SystemRole(x) => x \in replaced') /\ I \subseteq roles \X Permissions
      BY <1>1, <2>2, Apart DEF RoleJob, AInv, AccessTyped
    <3>2. powers' = (powers \ D) \cup I /\ grants' = grants
      BY <3>1 DEF FinishChange
    <3>3. \A row \in grants : row[1] # x
      BY <3>1 DEF AInv, AccessTyped
    <3>4. Rows' = (Rows \ D) \cup I
      BY <1>2, <3>2, <3>3 DEF Rows
    <3>5. SystemPowers'
      <4>1. ASSUME NEW r \in system \ replaced', NEW p \in Permissions
            PROVE  <<r, p>> \in powers' <=> <<r, p>> \in powers
        <5>1. <<r, p>>[1] # x
          BY <3>1, <4>1 DEF SystemRole
        <5> QED BY <1>2, <3>2, <5>1
      <4> QED BY <1>1, <4>1 DEF AInv, SystemPowers
    <3>6. grants' \subseteq Members \X roles /\ powers' \subseteq roles \X Permissions
      BY <3>1, <3>2 DEF AInv, AccessTyped
    <3> QED BY <3>1, <3>4, <3>5, <3>6
  <2> QED BY <1>2, <2>1, <2>2
<1>4. ordered' = {row \in ordered : row[1] # x} \cup (IF D = {} THEN OrderedOf(x) \cup I ELSE I)
  BY <1>1 DEF Order
<1>5. AccessTyped'
  BY <1>1, <1>2, <1>3, <1>4, NoWorkIsAJob DEF AInv, AccessTyped, OrderedOf
<1>6. Jobs' /\ Alone'
  <2>1. \A row \in Rows' : row \in Rows \/ row[1] = x
    BY <1>2, <1>3
  <2> QED BY <1>1, <2>1, OthersGoOn
<1>7. RowsAgree'
  <2> SUFFICES ASSUME NEW y \in (roles \cup Members) \ mixed, NEW row, row[1] = y
               PROVE  row \in Rows' <=> row \in ordered'
    BY <1>1 DEF RowsAgree
  <2>1. row \in Rows <=> row \in ordered
    BY DEF AInv, RowsAgree
  <2>2. CASE y # x
    BY <1>2, <1>3, <1>4, <2>1, <2>2 DEF OrderedOf
  <2>3. CASE y = x /\ D = {}
    BY <1>3, <1>4, <2>1, <2>3 DEF OrderedOf
  <2>4. CASE y = x /\ D # {}
    <3>1. row \in Rows => row \in D
      BY <1>1, <2>4 DEF AInv, Alone
    <3> QED BY <1>3, <1>4, <2>4, <3>1
  <2> QED BY <2>2, <2>3, <2>4
<1> QED BY <1>3, <1>5, <1>6, <1>7 DEF AInv

LEMMA BeginSteps ==
  ASSUME AInv, NEW q \in RoleRequests
  PROVE  /\ \A t \in AllTenants, r \in roles, S \in SUBSET Permissions :
               SetRolePermissions(q, t, r, S) \/ UpdateRolePermissions(q, t, r, S) => AInv'
         /\ \A u \in Members, S \in SUBSET roles : SetUserRoles(q, u, S) => AInv'
         /\ \A u \in Members, r \in roles : AssignRole(q, u, r) => AInv'
<1>. roles \subseteq AllRoles
  BY DEF AInv, AccessTyped
<1>1. ASSUME NEW t \in AllTenants, NEW r \in roles, NEW S \in SUBSET Permissions,
             SetRolePermissions(q, t, r, S) \/ UpdateRolePermissions(q, t, r, S)
      PROVE  AInv'
  <2> DEFINE I == {<<r, p>> : p \in S}
  <2>1. (SystemRole(r) => t = System) /\ BeginChange(q, t, r, RowsOf(r), I)
    <3>1. SystemRole(r) => r[1] = System
      BY DEF SystemRole, AInv, AccessTyped, DefaultRoles
    <3> QED BY <1>1, <3>1 DEF SetRolePermissions, UpdateRolePermissions
  <2>2. I \in SUBSET AnyRows /\ I \subseteq roles \X Permissions /\ \A row \in I : row[1] = r
    BY DEF AnyRows
  <2> HIDE DEF I
  <2> QED BY <2>1, <2>2, BeginStep
<1>2. ASSUME NEW u \in Members, NEW S \in SUBSET roles, SetUserRoles(q, u, S)
      PROVE  AInv'
  <2> DEFINE I == {<<u, r>> : r \in S}
  <2>1. BeginChange(q, Home[u], u, RowsOf(u), I) /\ Home[u] \in AllTenants
    BY <1>2, AccessAssumption DEF SetUserRoles, AllTenants, System
  <2>2. I \in SUBSET AnyRows /\ I \subseteq Members \X roles /\ \A row \in I : row[1] = u
    BY DEF AnyRows
  <2> HIDE DEF I
  <2> QED BY <2>1, <2>2, BeginStep
<1>3. ASSUME NEW u \in Members, NEW r \in roles, AssignRole(q, u, r)
      PROVE  AInv'
  <2> DEFINE I == {<<u, r>>}
  <2>1. BeginChange(q, Home[u], u, {}, I) /\ Home[u] \in AllTenants
    BY <1>3, AccessAssumption DEF AssignRole, AllTenants, System
  <2>2. I \in SUBSET AnyRows /\ I \subseteq Members \X roles /\ \A row \in I : row[1] = u
    BY DEF AnyRows
  <2> HIDE DEF I
  <2> QED BY <2>1, <2>2, BeginStep
<1> QED BY <1>1, <1>2, <1>3

LEMMA StepAInv == AInv /\ [AccessNext]_accessVars => AInv'
<1> SUFFICES ASSUME AInv, [AccessNext]_accessVars
             PROVE  AInv'
  OBVIOUS
<1>1. CASE UNCHANGED accessVars
  BY <1>1 DEF accessVars, AInv, AccessTyped, Jobs, OwnRows, UserJob, RoleJob, SystemRole, SystemPowers,
     Alone, RowsAgree, Rows
<1>2. CASE AccessNext
  BY <1>2, InitDefaultsStep, CreateRoleStep, DeleteRoleStep, RevokeRoleStep, BeginSteps,
     FinishStep, AbortStep
  DEF AccessNext
<1> QED BY <1>1, <1>2

(* What the system roles may do changes with requests of tenant 0 only,    *)
(* whichever of the two interfaces the others use, however requests        *)
(* overlap (rbac_service.py, role_service.py).                             *)
THEOREM SystemRolesAlwaysKeepTheirPowers == AccessSpec => []SystemRolesKeepTheirPowers
<1>1. AInv => SystemRolesKeepTheirPowers
  <2> SUFFICES ASSUME AInv, NEW r \in system \ replaced
               PROVE  {row[2] : row \in RowsOf(r)} = Defaults[r[2]]
    BY DEF SystemRolesKeepTheirPowers
  <2>1. r \notin Members
    BY Apart DEF AInv, AccessTyped
  <2>2. \A row \in RowsOf(r) : row \in powers /\ row = <<r, row[2]>> /\ row[2] \in Permissions
    BY <2>1 DEF AInv, AccessTyped, RowsOf, Rows
  <2>3. Defaults[r[2]] \subseteq Permissions
    BY AccessAssumption DEF AInv, AccessTyped, DefaultRoles
  <2>4. ASSUME NEW p \in Permissions
        PROVE  p \in {row[2] : row \in RowsOf(r)} <=> <<r, p>> \in powers
    <3>1. <<r, p>> \in powers => <<r, p>> \in RowsOf(r) /\ <<r, p>>[2] = p
      BY DEF RowsOf, Rows
    <3>2. ASSUME NEW row \in RowsOf(r), row[2] = p
          PROVE  <<r, p>> \in powers
      BY <2>2, <3>2
    <3> QED BY <3>1, <3>2
  <2>5. \A p \in Permissions : <<r, p>> \in powers <=> p \in Defaults[r[2]]
    BY DEF AInv, SystemPowers
  <2>6. {row[2] : row \in RowsOf(r)} \subseteq Permissions
    BY <2>2
  <2> QED BY <2>3, <2>4, <2>5, <2>6
<1> QED BY InitAInv, StepAInv, <1>1, PTL DEF AccessSpec

(* The permissions of a role and the roles of a user are those that the    *)
(* requests give them in the order they commit, unless requests for the    *)
(* same one overlapped (set_role_permissions, set_user_roles).             *)
THEOREM SetsAlwaysReplace == AccessSpec => []SetsReplace
<1>1. AInv => SetsReplace
  BY DEF AInv, RowsAgree, SetsReplace, RowsOf, OrderedOf
<1> QED BY InitAInv, StepAInv, <1>1, PTL DEF AccessSpec

(* What history remembers are users and roles there may be.                *)
MixedTyped == mixed \subseteq AllRoles \cup Members /\ replaced \subseteq AllRoles

LEMMA StepMixed == AInv /\ MixedTyped /\ [AccessNext]_accessVars => MixedTyped'
<1> SUFFICES ASSUME AInv, MixedTyped, [AccessNext]_accessVars
             PROVE  MixedTyped'
  OBVIOUS
<1>1. ASSUME NEW q, NEW t, NEW x, NEW deletes, NEW inserts, BeginChange(q, t, x, deletes, inserts),
             x \in AllRoles \cup Members
      PROVE  MixedTyped'
  <2>1. mixed' \subseteq mixed \cup {x} /\ replaced' = replaced
    BY <1>1 DEF BeginChange
  <2> QED BY <1>1, <2>1 DEF MixedTyped
<1>2. roles \subseteq AllRoles
  BY DEF AInv, AccessTyped
<1>3. ASSUME NEW t \in AllTenants, NEW r \in roles, NEW q \in RoleRequests, NEW S \in SUBSET Permissions,
             SetRolePermissions(q, t, r, S) \/ UpdateRolePermissions(q, t, r, S)
      PROVE  MixedTyped'
  BY <1>1, <1>2, <1>3 DEF SetRolePermissions, UpdateRolePermissions
<1>4. ASSUME NEW u \in Members, NEW q \in RoleRequests,
             \/ \E r \in roles : AssignRole(q, u, r)
             \/ \E S \in SUBSET roles : SetUserRoles(q, u, S)
      PROVE  MixedTyped'
  BY <1>1, <1>4 DEF AssignRole, SetUserRoles
<1>5. CASE UNCHANGED mixed /\ replaced' \subseteq replaced \cup roles
  BY <1>2, <1>5 DEF MixedTyped
<1>6. \/ UNCHANGED mixed /\ replaced' \subseteq replaced \cup roles
      \/ \E t \in AllTenants, r \in roles, q \in RoleRequests, S \in SUBSET Permissions :
            SetRolePermissions(q, t, r, S) \/ UpdateRolePermissions(q, t, r, S)
      \/ \E u \in Members, q \in RoleRequests :
            \/ \E r \in roles : AssignRole(q, u, r)
            \/ \E S \in SUBSET roles : SetUserRoles(q, u, S)
  BY DEF AccessNext, accessVars, InitDefaults, CreateRole, DeleteRole, RevokeRole, FinishChange,
     AbortChange
<1> QED BY <1>3, <1>4, <1>5, <1>6

(* Roles, permissions and requests keep their types: no row of the two     *)
(* tables names a role that is not there.                                  *)
THEOREM AccessKeepsItsTypes == AccessSpec => []AccessTypeOK
<1>1. AccessInit => MixedTyped
  BY DEF AccessInit, MixedTyped
<1>2. AInv /\ MixedTyped => AccessTypeOK
  <2> SUFFICES ASSUME AInv, MixedTyped
               PROVE  AccessTypeOK
    OBVIOUS
  <2>1. roleWork \in [RoleRequests -> Change]
    BY DEF AInv, AccessTyped
  <2>2. Change \subseteq
            [tenant : AllTenants, owner : AllRoles \cup Members \cup {<<>>},
             deletes : SUBSET (Rows \cup (AllRoles \X Permissions) \cup (Members \X AllRoles)),
             inserts : SUBSET ((AllRoles \X Permissions) \cup (Members \X AllRoles))]
    BY DEF Change, AnyRows
  <2> QED BY <2>1, <2>2 DEF AInv, AccessTyped, MixedTyped, AccessTypeOK
<1> QED BY InitAInv, StepAInv, StepMixed, <1>1, <1>2, PTL DEF AccessSpec

-----------------------------------------------------------------------------
(* Automation: for any rules, actions, requests and events, what the rules *)
(* of the tenant did is what their logs say they did.                      *)

Triggered == [stage : {"new", "running", "doomed", "done", "failed"},
            left : SUBSET Rules, now : SUBSET Rules, entries : Seq(ActionStatuses),
            effects : SUBSET (Rules \X Nat), logs : SUBSET LogRow]

AutomationTyped ==
    /\ rules \in [Rules -> {"new", "on", "off", "gone"}]
    /\ events \in [Events -> Triggered]

(* EffectsHaveLogs, of the rules that are still to be created as well.     *)
LogsAgree ==
    \A e \in Events, r \in Rules : rules[r] # "gone" =>
        \A k \in 1 .. ActionsOf[r] :
            <<e, r, k>> \in effects <=>
                \E l \in logs : l.event = e /\ l.rule = r /\ l.entries[k] \in Effective

(* A request runs one rule at a time, and each rule once.                  *)
Loops(e) ==
    LET E == events[e] IN
    /\ \A r, s \in E.now : r = s
    /\ E.now = {} => E.entries = <<>>
    /\ E.left \cap E.now = {}
    /\ \A l \in E.logs : l.event = e /\ l.rule \notin E.left \cup E.now

(* What a request has done so far is what it has logged, or noted for the  *)
(* log of the rule it is running.                                          *)
Noted(e, r, k) ==
    \/ \E l \in events[e].logs : l.rule = r /\ l.entries[k] \in Effective
    \/ r \in events[e].now /\ k <= Len(events[e].entries) /\ events[e].entries[k] \in Effective

Pending(e) ==
    \A r \in Rules : \A k \in 1 .. ActionsOf[r] :
        <<r, k>> \in events[e].effects <=> Noted(e, r, k)

TriggeredRequests ==
    \A e \in Events :
        /\ events[e].stage = "new" => events[e] = NotTriggered
        /\ events[e].stage = "running" => Loops(e) /\ Pending(e)

EInv == AutomationTyped /\ LogsAgree /\ TriggeredRequests

-----------------------------------------------------------------------------

LEMMA InitEInv == AutomationInit => EInv
  BY AutomationAssumption
  DEF AutomationInit, EInv, AutomationTyped, LogsAgree, TriggeredRequests, Triggered, NotTriggered, Loops, Pending, Noted

(* A step of a request that commits nothing keeps the invariant if what it *)
(* does keeps the request's own part.                                      *)
LEMMA OwnStep ==
  ASSUME EInv, NEW e \in Events,
         events' \in [Events -> Triggered],
         \A d \in Events \ {e} : events'[d] = events[d],
         UNCHANGED <<rules, effects, logs>>,
         events'[e].stage # "new",
         events'[e].stage = "running" => (Loops(e) /\ Pending(e))'
  PROVE  EInv'
<1>1. AutomationTyped'
  BY DEF EInv, AutomationTyped
<1>2. LogsAgree'
  BY DEF EInv, LogsAgree
<1>3. TriggeredRequests'
  <2> SUFFICES ASSUME NEW d \in Events
               PROVE  /\ (events[d].stage = "new" => events[d] = NotTriggered)'
                      /\ (events[d].stage = "running" => Loops(d) /\ Pending(d))'
    BY DEF TriggeredRequests
  <2>1. CASE d = e
    BY <2>1
  <2>2. CASE d # e
    BY <2>2 DEF EInv, TriggeredRequests, Loops, Pending, Noted
  <2> QED BY <2>1, <2>2
<1> QED BY <1>1, <1>2, <1>3 DEF EInv

(* The requests are untouched and no rule that is gone comes back.         *)
LEMMA RuleStep ==
  ASSUME EInv, UNCHANGED <<events, effects>>,
         rules' \in [Rules -> {"new", "on", "off", "gone"}],
         \A r \in Rules : rules'[r] # "gone" =>
             /\ rules[r] # "gone"
             /\ \A l : l.rule = r => (l \in logs' <=> l \in logs)
  PROVE  EInv'
<1>1. AutomationTyped'
  BY DEF EInv, AutomationTyped
<1>2. LogsAgree'
  BY DEF EInv, LogsAgree
<1>3. TriggeredRequests'
  BY DEF EInv, TriggeredRequests, Loops, Pending, Noted
<1> QED BY <1>1, <1>2, <1>3 DEF EInv

LEMMA Switches ==
  ASSUME EInv
  PROVE  /\ \A r \in Rules, state \in {"on", "off"} : SaveRule(r, state) => EInv'
         /\ \A r \in Rules : DeleteRule(r) => EInv'
         /\ \A q \in Toggles, r \in Rules : ToggleRead(q, r) => EInv'
         /\ \A q \in Toggles : ToggleWrite(q) => EInv'
<1> USE DEF EInv, AutomationTyped
<1>1. ASSUME NEW r \in Rules, NEW state \in {"on", "off"}, SaveRule(r, state)
      PROVE  EInv'
  BY <1>1, RuleStep DEF SaveRule
<1>2. ASSUME NEW r \in Rules, DeleteRule(r)
      PROVE  EInv'
  BY <1>2, RuleStep DEF DeleteRule
<1>3. ASSUME NEW q \in Toggles, NEW r \in Rules, ToggleRead(q, r)
      PROVE  EInv'
  BY <1>3, RuleStep DEF ToggleRead
<1>4. ASSUME NEW q \in Toggles, ToggleWrite(q)
      PROVE  EInv'
  <2>1. PICK t \in toggling[q] :
            rules' = IF Exists(t.rule) THEN [rules EXCEPT ![t.rule] = Opposite(t.read)] ELSE rules
    BY <1>4 DEF ToggleWrite
  <2>2. Opposite(t.read) \in {"on", "off"}
    BY DEF Opposite
  <2>3. \A r \in Rules : rules'[r] = rules[r] \/ (Exists(r) /\ rules'[r] \in {"on", "off"})
    BY <2>1, <2>2 DEF Exists
  <2>4. rules' \in [Rules -> {"new", "on", "off", "gone"}]
    BY <2>1, <2>2
  <2> QED BY <1>4, <2>3, <2>4, RuleStep DEF ToggleWrite, Exists
<1> QED BY <1>1, <1>2, <1>3, <1>4

LEMMA TriggerStep ==
  ASSUME EInv, NEW e \in Events, TriggerEvent(e)
  PROVE  EInv'
<1>1. events[e] = NotTriggered
  BY DEF TriggerEvent, EInv, TriggeredRequests
<1>2. PICK matched \in SUBSET Rules :
          events' = [events EXCEPT ![e].stage = "running", ![e].left = matched]
  BY DEF TriggerEvent
<1>3. /\ events' \in [Events -> Triggered]
      /\ \A d \in Events \ {e} : events'[d] = events[d]
  <2>1. events \in [Events -> Triggered]
    BY DEF EInv, AutomationTyped
  <2>2. [events[e] EXCEPT !.stage = "running", !.left = matched] \in Triggered
    BY <2>1 DEF Triggered
  <2> QED BY <1>2, <2>1, <2>2
<1>4. /\ events'[e].stage = "running" /\ events'[e].now = {} /\ events'[e].entries = <<>>
      /\ events'[e].effects = {} /\ events'[e].logs = {}
  BY <1>1, <1>2 DEF EInv, AutomationTyped, NotTriggered
<1>5. (Loops(e) /\ Pending(e))'
  BY <1>4 DEF Loops, Pending, Noted
<1> QED BY <1>3, <1>4, <1>5, OwnStep DEF TriggerEvent

LEMMA NextRuleStep ==
  ASSUME EInv, NEW e \in Events, NextRule(e)
  PROVE  EInv'
<1>1. events[e] \in Triggered /\ Loops(e) /\ Pending(e) /\ events[e].now = {}
      /\ events[e].stage = "running"
  BY DEF NextRule, EInv, AutomationTyped, TriggeredRequests
<1>2. PICK r \in events[e].left :
          events' = [events EXCEPT ![e].left = events[e].left \ {r}, ![e].now = {r}]
  BY DEF NextRule
<1>3. /\ events' \in [Events -> Triggered]
      /\ \A d \in Events \ {e} : events'[d] = events[d]
  BY <1>1, <1>2 DEF EInv, AutomationTyped, Triggered
<1>4. /\ events'[e].stage = "running" /\ events'[e].now = {r}
      /\ events'[e].left = events[e].left \ {r}
      /\ events'[e].entries = events[e].entries /\ events'[e].effects = events[e].effects
      /\ events'[e].logs = events[e].logs
  BY <1>1, <1>2 DEF EInv, AutomationTyped, Triggered
<1>5. Loops(e)'
  BY <1>1, <1>4 DEF Loops
<1>6. Pending(e)'
  <2>1. events[e].entries = <<>> /\ Len(events[e].entries) = 0
    BY <1>1 DEF Loops
  <2>2. ASSUME NEW s \in Rules, NEW k \in 1 .. ActionsOf[s]
        PROVE  Noted(e, s, k)' <=> Noted(e, s, k)
    <3>1. ~(k <= 0)
      BY AutomationAssumption
    <3> QED BY <1>1, <1>4, <2>1, <3>1 DEF Noted
  <2> QED BY <1>1, <1>4, <2>2 DEF Pending
<1> QED BY <1>3, <1>4, <1>5, <1>6, OwnStep DEF NextRule

LEMMA RunActionStep ==
  ASSUME EInv, NEW e \in Events, RunAction(e)
  PROVE  EInv'
<1>1. events[e] \in Triggered /\ Loops(e) /\ Pending(e) /\ events[e].stage = "running"
  BY DEF RunAction, EInv, AutomationTyped, TriggeredRequests
<1> DEFINE n == Len(events[e].entries) + 1
<1>2. PICK r \in events[e].now, out \in Outcomes :
          /\ Len(events[e].entries) < ActionsOf[r]
          /\ events' = [events EXCEPT
                 ![e].entries = Append(@, IF out = "refused" THEN "error" ELSE out),
                 ![e].stage = IF out = "refused" THEN "doomed" ELSE @,
                 ![e].effects = IF out \in Effective THEN @ \cup {<<r, n>>} ELSE @]
  BY <1>1 DEF RunAction
<1> DEFINE note == IF out = "refused" THEN "error" ELSE out
<1>3. note \in ActionStatuses /\ r \in Rules /\ n \in Nat /\ n \in 1 .. ActionsOf[r]
  BY <1>1, <1>2, AutomationAssumption DEF Outcomes, ActionStatuses, Triggered
<1>4. /\ events' \in [Events -> Triggered]
      /\ \A d \in Events \ {e} : events'[d] = events[d]
  <2>1. events \in [Events -> Triggered]
    BY DEF EInv, AutomationTyped
  <2>2. PICK s \in {"running", "doomed"}, f \in SUBSET (Rules \X Nat) :
            events' = [events EXCEPT ![e].entries = Append(@, note),
                                     ![e].stage = s, ![e].effects = f]
    <3>1. (IF out = "refused" THEN "doomed" ELSE events[e].stage) \in {"running", "doomed"}
      BY <1>1
    <3>2. (IF out \in Effective THEN events[e].effects \cup {<<r, n>>} ELSE events[e].effects)
             \in SUBSET (Rules \X Nat)
      BY <1>1, <1>3 DEF Triggered
    <3> QED BY <1>2, <3>1, <3>2
  <2> HIDE DEF note
  <2> DEFINE more == Append(events[e].entries, note)
  <2>3. more \in Seq(ActionStatuses)
    BY <1>1, <1>3 DEF Triggered
  <2>4. [events[e] EXCEPT !.entries = more, !.stage = s, !.effects = f] \in Triggered
    <3> HIDE DEF more
    <3> QED BY <1>1, <2>2, <2>3 DEF Triggered
  <2> QED BY <2>1, <2>2, <2>4
<1>5. /\ events'[e].stage \in {"running", "doomed"}
      /\ events'[e].stage = "running" => out # "refused"
      /\ events'[e].left = events[e].left /\ events'[e].now = events[e].now
      /\ events'[e].entries = Append(events[e].entries, note)
      /\ events'[e].effects = IF out \in Effective THEN events[e].effects \cup {<<r, n>>}
                              ELSE events[e].effects
      /\ events'[e].logs = events[e].logs
  BY <1>1, <1>2 DEF EInv, AutomationTyped, Triggered
<1>6. Loops(e)'
  BY <1>1, <1>2, <1>5 DEF Loops
<1>7. ASSUME NEW s \in Rules, NEW k \in 1 .. ActionsOf[s], out # "refused"
      PROVE  (<<s, k>> \in events[e].effects <=> Noted(e, s, k))'
  <2>1. <<s, k>> \in events[e].effects <=> Noted(e, s, k)
    BY <1>1 DEF Pending
  <2>2. s \in events[e].now <=> s = r
    BY <1>1, <1>2 DEF Loops
  <2>3. \A l \in events[e].logs : l.rule # r
    BY <1>1, <1>2 DEF Loops
  <2>4. k \in Nat /\ events[e].entries \in Seq(ActionStatuses) /\ events[e].entries \in Seq(ActionStatuses)
    BY <1>1, AutomationAssumption DEF Triggered
  <2>5. /\ Len(events'[e].entries) = n
        /\ events'[e].entries[n] = note
        /\ k <= Len(events[e].entries) => events'[e].entries[k] = events[e].entries[k]
    BY <1>3, <1>5, <2>4
  <2>6. note \in Effective <=> out \in Effective
    BY <1>7
  <2>7. CASE s = r /\ k = n
    <3>1. Noted(e, s, k)' <=> out \in Effective
      BY <1>3, <1>5, <2>2, <2>3, <2>5, <2>6, <2>7 DEF Noted
    <3>2. ~Noted(e, s, k)
      BY <2>3, <2>4, <2>7 DEF Noted
    <3> QED BY <1>5, <2>1, <2>7, <3>1, <3>2
  <2>8. CASE s # r
    BY <1>5, <2>1, <2>2, <2>8 DEF Noted
  <2>9. CASE s = r /\ k # n
    <3>1. k <= n <=> k <= Len(events[e].entries)
      BY <1>3, <2>4, <2>9
    <3> QED BY <1>5, <2>1, <2>2, <2>5, <2>9, <3>1 DEF Noted
  <2> QED BY <2>7, <2>8, <2>9
<1> QED BY <1>4, <1>5, <1>6, <1>7, OwnStep DEF RunAction, Pending

LEMMA WriteLogStep ==
  ASSUME EInv, NEW e \in Events, WriteLog(e)
  PROVE  EInv'
<1>1. events[e] \in Triggered /\ Loops(e) /\ Pending(e) /\ events[e].stage = "running"
  BY DEF WriteLog, EInv, AutomationTyped, TriggeredRequests
<1> DEFINE row(r) == [event |-> e, rule |-> r, entries |-> events[e].entries,
                      status |-> LogStatus(events[e].entries)]
<1>2. PICK r \in Rules :
          /\ RanAll(e, r)
          /\ events' = [events EXCEPT ![e].now = {}, ![e].entries = <<>>,
                                     ![e].logs = @ \cup {row(r)}]
  BY DEF WriteLog
<1> DEFINE l0 == row(r)
<1>3. /\ l0 \in LogRow /\ l0.event = e /\ l0.rule = r
      /\ l0.entries = events[e].entries
  BY <1>1 DEF LogRow, LogStatus, Triggered
<1>. events' = [events EXCEPT ![e].now = {}, ![e].entries = <<>>,
                             ![e].logs = @ \cup {l0}]
  BY <1>2
<1> HIDE DEF l0
<1>4. /\ events' \in [Events -> Triggered]
      /\ \A d \in Events \ {e} : events'[d] = events[d]
  <2>1. events \in [Events -> Triggered]
    BY DEF EInv, AutomationTyped
  <2> DEFINE more == events[e].logs \cup {l0}
  <2>2. more \in SUBSET LogRow
    BY <1>1, <1>3 DEF Triggered
  <2>3. [events[e] EXCEPT !.now = {}, !.entries = <<>>, !.logs = more] \in Triggered
    <3>1. <<>> \in Seq(ActionStatuses)
      OBVIOUS
    <3> HIDE DEF more
    <3> QED BY <1>1, <2>2, <3>1 DEF Triggered
  <2> QED BY <2>1, <2>3
<1>5. /\ events'[e].stage = "running" /\ events'[e].now = {} /\ events'[e].entries = <<>>
      /\ events'[e].left = events[e].left /\ events'[e].effects = events[e].effects
      /\ events'[e].logs = events[e].logs \cup {l0}
  BY <1>1 DEF EInv, AutomationTyped, Triggered
<1>6. events[e].now = {r} /\ Len(events[e].entries) = ActionsOf[r]
  BY <1>1, <1>2 DEF RanAll, Loops
<1>7. Loops(e)'
  BY <1>1, <1>3, <1>5, <1>6 DEF Loops
<1>8. ASSUME NEW s \in Rules, NEW k \in 1 .. ActionsOf[s]
      PROVE  Noted(e, s, k)' <=> Noted(e, s, k)
  <2>1. s = r => k <= Len(events[e].entries)
    BY <1>6
  <2> QED BY <1>3, <1>5, <1>6, <2>1 DEF Noted
<1>9. Pending(e)'
  BY <1>1, <1>5, <1>8 DEF Pending
<1> QED BY <1>4, <1>5, <1>7, <1>9, OwnStep DEF WriteLog

(* An answered request holds nothing.                                      *)
LEMMA AnsweredIsRequest ==
  ASSUME NEW stage \in {"done", "failed"}
  PROVE  Answered(stage) \in Triggered /\ Answered(stage).stage = stage
<1>1. NotTriggered \in Triggered
  <2>1. <<>> \in Seq(ActionStatuses)
    OBVIOUS
  <2> QED BY <2>1 DEF NotTriggered, Triggered
<1> QED BY <1>1 DEF Answered, Triggered

LEMMA TriggerFailsStep ==
  ASSUME EInv, NEW e \in Events, TriggerFails(e)
  PROVE  EInv'
<1>1. /\ events' \in [Events -> Triggered]
      /\ \A d \in Events \ {e} : events'[d] = events[d]
      /\ events'[e].stage = "failed"
  BY AnsweredIsRequest DEF TriggerFails, EInv, AutomationTyped
<1> QED BY <1>1, OwnStep DEF TriggerFails

(* What the request did and logged becomes what the tenant did and logged. *)
LEMMA TriggerCommitStep ==
  ASSUME EInv, NEW e \in Events, TriggerCommit(e)
  PROVE  EInv'
<1>1. events[e] \in Triggered /\ Loops(e) /\ Pending(e) /\ events[e].now = {}
  BY DEF TriggerCommit, EInv, AutomationTyped, TriggeredRequests
<1>2. AutomationTyped'
  BY AnsweredIsRequest DEF TriggerCommit, EInv, AutomationTyped
<1>3. LogsAgree'
  <2> SUFFICES ASSUME NEW d \in Events, NEW r \in Rules, rules[r] # "gone",
                      NEW k \in 1 .. ActionsOf[r]
               PROVE  <<d, r, k>> \in effects' <=>
                        \E l \in logs' : l.event = d /\ l.rule = r /\ l.entries[k] \in Effective
    BY DEF TriggerCommit, LogsAgree
  <2>1. <<d, r, k>> \in effects <=>
          \E l \in logs : l.event = d /\ l.rule = r /\ l.entries[k] \in Effective
    BY DEF EInv, LogsAgree
  <2>2. <<d, r, k>> \in effects' <=>
          (<<d, r, k>> \in effects \/ (d = e /\ <<r, k>> \in events[e].effects))
    BY <1>1 DEF TriggerCommit, Triggered
  <2>3. <<r, k>> \in events[e].effects <=>
          \E l \in events[e].logs : l.rule = r /\ l.entries[k] \in Effective
    BY <1>1 DEF Pending, Noted
  <2>4. \A l \in events[e].logs : l.event = e
    BY <1>1 DEF Loops
  <2>5. logs' = logs \cup events[e].logs
    BY DEF TriggerCommit
  <2> QED BY <2>1, <2>2, <2>3, <2>4, <2>5
<1>4. TriggeredRequests'
  <2> SUFFICES ASSUME NEW d \in Events
               PROVE  /\ (events[d].stage = "new" => events[d] = NotTriggered)'
                      /\ (events[d].stage = "running" => Loops(d) /\ Pending(d))'
    BY DEF TriggeredRequests
  <2>1. CASE d = e
    BY <2>1, AnsweredIsRequest DEF TriggerCommit, EInv, AutomationTyped
  <2>2. CASE d # e
    <3>1. events'[d] = events[d]
      BY <2>2 DEF TriggerCommit, EInv, AutomationTyped
    <3> QED BY <3>1 DEF EInv, TriggeredRequests, Loops, Pending, Noted
  <2> QED BY <2>1, <2>2
<1> QED BY <1>2, <1>3, <1>4 DEF EInv

LEMMA StepEInv == EInv /\ [AutomationNext]_automationVars => EInv'
<1> SUFFICES ASSUME EInv, [AutomationNext]_automationVars
             PROVE  EInv'
  OBVIOUS
<1>1. CASE UNCHANGED automationVars
  BY <1>1, RuleStep DEF automationVars, EInv, AutomationTyped
<1>2. CASE AutomationNext
  BY <1>2, Switches, TriggerStep, NextRuleStep, RunActionStep, WriteLogStep, TriggerFailsStep, TriggerCommitStep
  DEF AutomationNext
<1> QED BY <1>1, <1>2

(* The notifications and tasks of rules are those the logs tell of, for    *)
(* any number of rules, events and concurrent toggles, and whatever action *)
(* fails or rule is deleted half-way (trigger_event, delete_rule and the   *)
(* transaction of get_db).                                                 *)
THEOREM EffectsAlwaysHaveLogs == AutomationSpec => []EffectsHaveLogs
<1>1. EInv => EffectsHaveLogs
  BY DEF EInv, LogsAgree, EffectsHaveLogs, Exists
<1> QED BY InitEInv, StepEInv, <1>1, PTL DEF AutomationSpec

(* What AutomationTyped leaves out of AutomationTypeOK; a request runs one *)
(* rule at a time also after a refused statement.                          *)
StoreTyped ==
    /\ toggling \in [Toggles -> SUBSET [rule : Rules, read : {"on", "off"}]]
    /\ effects \subseteq Events \X Rules \X Nat
    /\ logs \subseteq LogRow
    /\ \A e \in Events : \A r, s \in events[e].now : r = s

LEMMA CommitKeepsStore ==
  ASSUME EInv, StoreTyped, NEW e \in Events, TriggerCommit(e)
  PROVE  StoreTyped'
<1>1. /\ effects' = effects \cup {<<e, x[1], x[2]>> : x \in events[e].effects}
      /\ logs' = logs \cup events[e].logs
      /\ events' = [events EXCEPT ![e] = Answered("done")]
      /\ UNCHANGED toggling
  BY DEF TriggerCommit
<1>2. events[e].effects \subseteq Rules \X Nat /\ events[e].logs \subseteq LogRow
  BY DEF EInv, AutomationTyped, Triggered
<1>3. {<<e, x[1], x[2]>> : x \in events[e].effects} \subseteq Events \X Rules \X Nat
  BY <1>2
<1>4. Answered("done").now = {}
  BY DEF Answered, NotTriggered
<1> QED BY <1>1, <1>2, <1>3, <1>4 DEF StoreTyped, EInv, AutomationTyped

LEMMA StepStore == EInv /\ StoreTyped /\ [AutomationNext]_automationVars => StoreTyped'
<1> SUFFICES ASSUME EInv, StoreTyped, [AutomationNext]_automationVars
             PROVE  StoreTyped'
  OBVIOUS
<1>1. ASSUME NEW e \in Events, UNCHANGED <<toggling, effects, logs>>,
             \A d \in Events \ {e} : events'[d] = events[d],
             \A r, s \in events'[e].now : r = s
      PROVE  StoreTyped'
  BY <1>1 DEF StoreTyped
<1>2. ASSUME UNCHANGED <<events, effects>>, logs' \subseteq logs,
             toggling' \in [Toggles -> SUBSET [rule : Rules, read : {"on", "off"}]]
      PROVE  StoreTyped'
  BY <1>2 DEF StoreTyped
<1>3. CASE UNCHANGED automationVars
  BY <1>2, <1>3 DEF automationVars, StoreTyped
<1>4. ASSUME NEW r \in Rules,
             DeleteRule(r) \/ \E state \in {"on", "off"} : SaveRule(r, state)
      PROVE  StoreTyped'
  BY <1>2, <1>4 DEF DeleteRule, SaveRule, StoreTyped
<1>5. ASSUME NEW q \in Toggles, ToggleWrite(q) \/ \E r \in Rules : ToggleRead(q, r)
      PROVE  StoreTyped'
  <2>1. ASSUME NEW S \in SUBSET [rule : Rules, read : {"on", "off"}],
               toggling' = [toggling EXCEPT ![q] = S], UNCHANGED <<events, effects, logs>>
        PROVE  StoreTyped'
    BY <1>2, <2>1 DEF StoreTyped
  <2>2. ASSUME NEW r \in Rules, ToggleRead(q, r)
        PROVE  StoreTyped'
    <3>1. {[rule |-> r, read |-> rules[r]]} \in SUBSET [rule : Rules, read : {"on", "off"}]
      BY <2>2 DEF ToggleRead, Exists
    <3> QED BY <2>1, <2>2, <3>1 DEF ToggleRead
  <2>3. ToggleWrite(q) => StoreTyped'
    BY <2>1 DEF ToggleWrite
  <2> QED BY <1>5, <2>2, <2>3
<1>6. ASSUME NEW e \in Events
      PROVE  /\ events \in [Events -> Triggered] /\ events[e] \in Triggered
             /\ \A r, s \in events[e].now : r = s
  BY DEF EInv, AutomationTyped, StoreTyped
<1>7. ASSUME NEW e \in Events, TriggerEvent(e) \/ RunAction(e)
      PROVE  StoreTyped'
  <2>1. UNCHANGED <<toggling, effects, logs>>
    BY <1>7 DEF TriggerEvent, RunAction
  <2> DEFINE Kept == events'[e].now = events[e].now /\ \A d \in Events \ {e} : events'[d] = events[d]
  <2>2. ASSUME TriggerEvent(e)
        PROVE  Kept
    <3>1. PICK matched :
              events' = [events EXCEPT ![e].stage = "running", ![e].left = matched]
      BY <2>2 DEF TriggerEvent
    <3> QED BY <1>6, <3>1 DEF Triggered
  <2>3. ASSUME RunAction(e)
        PROVE  Kept
    <3>1. PICK r, out :
              events' = [events EXCEPT
                  ![e].entries = Append(@, IF out = "refused" THEN "error" ELSE out),
                  ![e].stage = IF out = "refused" THEN "doomed" ELSE @,
                  ![e].effects = IF out \in Effective
                                 THEN @ \cup {<<r, Len(events[e].entries) + 1>>} ELSE @]
      BY <2>3 DEF RunAction
    <3> DEFINE E == events[e]
               note == IF out = "refused" THEN "error" ELSE out
    <3>2. PICK entries, stage, done :
              /\ entries = Append(E.entries, note)
              /\ stage = IF out = "refused" THEN "doomed" ELSE E.stage
              /\ done = IF out \in Effective THEN E.effects \cup {<<r, Len(E.entries) + 1>>}
                                       ELSE E.effects
      OBVIOUS
    <3>3. events' = [events EXCEPT ![e].entries = entries, ![e].stage = stage, ![e].effects = done]
      BY <3>1, <3>2
    <3> QED BY <1>6, <3>3 DEF Triggered
  <2>4. Kept
    BY <1>7, <2>2, <2>3
  <2> QED BY <1>1, <1>6, <2>1, <2>4
<1>8. ASSUME NEW e \in Events, NextRule(e)
      PROVE  StoreTyped'
  <2>1. PICK r \in events[e].left :
            events' = [events EXCEPT ![e].left = events[e].left \ {r}, ![e].now = {r}]
    BY <1>8 DEF NextRule
  <2>2. events'[e].now = {r} /\ \A d \in Events \ {e} : events'[d] = events[d]
    BY <1>6, <2>1 DEF Triggered
  <2> QED BY <1>1, <1>8, <2>2 DEF NextRule
<1>9. ASSUME NEW e \in Events, WriteLog(e)
      PROVE  StoreTyped'
  <2>1. events'[e].now = {} /\ \A d \in Events \ {e} : events'[d] = events[d]
    BY <1>6, <1>9 DEF WriteLog, Triggered
  <2> QED BY <1>1, <1>9, <2>1 DEF WriteLog
<1>10. ASSUME NEW e \in Events, TriggerFails(e)
       PROVE  StoreTyped'
  <2>1. Answered("failed").now = {}
    BY DEF Answered, NotTriggered
  <2>2. events'[e].now = {} /\ \A d \in Events \ {e} : events'[d] = events[d]
    BY <1>6, <1>10, <2>1 DEF TriggerFails
  <2> QED BY <1>1, <1>10, <2>2 DEF TriggerFails
<1> QED BY <1>3, <1>4, <1>5, <1>7, <1>8, <1>9, <1>10, CommitKeepsStore DEF AutomationNext

(* Requests, effects and logs are well formed, for any rules and requests, *)
(* and a request runs one rule at a time (the loop of trigger_event).      *)
THEOREM AutomationKeepsItsTypes == AutomationSpec => []AutomationTypeOK
<1>1. AutomationInit => StoreTyped
  BY DEF AutomationInit, StoreTyped, NotTriggered
<1>2. EInv /\ StoreTyped => AutomationTypeOK
  <2> SUFFICES ASSUME EInv, StoreTyped
               PROVE  AutomationTypeOK
    OBVIOUS
  <2>1. ASSUME NEW e \in Events
        PROVE  events[e] \in Triggered /\ Cardinality(events[e].now) <= 1
    <3>1. events[e] \in Triggered
      BY DEF EInv, AutomationTyped
    <3>2. CASE events[e].now = {}
      BY <3>1, <3>2, FS_EmptySet
    <3>3. CASE events[e].now # {}
      <4>1. PICK r \in events[e].now : TRUE
        BY <3>3
      <4>2. events[e].now = {r}
        BY <4>1 DEF StoreTyped
      <4> QED BY <3>1, <4>2, FS_Singleton
    <3> QED BY <3>2, <3>3
  <2> QED BY <2>1 DEF Triggered, StoreTyped, EInv, AutomationTyped, AutomationTypeOK
<1> QED BY InitEInv, StepEInv, StepStore, <1>1, <1>2, PTL DEF AutomationSpec

-----------------------------------------------------------------------------
(* The cache of recommendations.                                           *)

OneEach(s) == \A i, j \in DOMAIN s : s[i].key = s[j].key => i = j
Sound(e) ==
    /\ e \in Entry
    /\ e.time <= moment
    /\ e.time <= LastHeld(e.key, e.value) + e.waited

(* What an entry says was so when it was read, as long before its time as  *)
(* the answer took to arrive, and so was what a request has read.          *)
CInv ==
    /\ AdviceTypeOK
    /\ OneEach(cache)
    /\ \A e \in Entry : (\E i \in DOMAIN cache : cache[i] = e) => Sound(e)
    /\ \A q \in AdviceRequests :
          /\ asking[q].step # "idle" => asking[q].key \in Opportunities
          /\ asking[q].step = "read" =>
                /\ asking[q].value \in Customers
                /\ asking[q].since <= moment
                /\ asking[q].since <= LastHeld(asking[q].key, asking[q].value)

(* Without its entry, the cache has the others, each of them once.         *)
LEMMA WithoutEntry ==
  ASSUME NEW o, cache \in Seq(Entry), OneEach(cache)
  PROVE  LET w == Without(o)
         IN  /\ w \in Seq(Entry)
             /\ Len(w) <= Len(cache) /\ (Positions(o) # {} => Len(w) < Len(cache))
             /\ OneEach(w)
             /\ \A i \in DOMAIN w : w[i].key # o /\ \E k \in DOMAIN cache : w[i] = cache[k]
<1> DEFINE n == Len(cache)
<1>1. CASE Positions(o) = {}
  BY <1>1 DEF Without, Positions
<1>2. CASE Positions(o) # {}
  <2>1. PICK p \in 1 .. n : cache[p].key = o /\ Without(o) = RemoveEntry(p)
    <3>1. (CHOOSE i \in Positions(o) : TRUE) \in Positions(o)
      BY <1>2
    <3>2. Positions(o) \subseteq {i \in 1 .. n : cache[i].key = o}
      BY DEF Positions
    <3>3. Without(o) = RemoveEntry(CHOOSE i \in Positions(o) : TRUE)
      BY <1>2 DEF Without
    <3> QED BY <3>1, <3>2, <3>3
  <2> DEFINE a == SubSeq(cache, 1, p - 1)
             b == SubSeq(cache, p + 1, n)
             w == a \o b
  <2>2. /\ a \in Seq(Entry) /\ Len(a) = p - 1
        /\ \A i \in 1 .. p - 1 : a[i] = cache[i]
    BY SubSeqProperties
  <2>3. /\ b \in Seq(Entry) /\ Len(b) = n - p
        /\ \A i \in 1 .. n - p : b[i] = cache[p + i]
    <3>1. \A i \in p + 1 .. n : cache[i] \in Entry
      OBVIOUS
    <3>2. p + 1 \in Int /\ n \in Int
      OBVIOUS
    <3>3. /\ b \in Seq(Entry) /\ Len(b) = IF p + 1 <= n THEN n - (p + 1) + 1 ELSE 0
          /\ \A i \in 1 .. n - (p + 1) + 1 : b[i] = cache[p + 1 + i - 1]
      BY ONLY <3>1, <3>2, SubSeqProperties
    <3> HIDE DEF b
    <3> QED BY <3>3
  <2> HIDE DEF a, b
  <2>4. /\ w \in Seq(Entry) /\ Len(w) = n - 1
        /\ \A i \in 1 .. n - 1 : w[i] = IF i < p THEN cache[i] ELSE cache[i + 1]
    <3>1. w \in Seq(Entry) /\ Len(w) = Len(a) + Len(b)
      BY <2>2, <2>3, ConcatProperties
    <3>2. \A i \in 1 .. Len(a) + Len(b) : w[i] = IF i <= Len(a) THEN a[i] ELSE b[i - Len(a)]
      BY <2>2, <2>3, ConcatProperties
    <3> HIDE DEF w
    <3>3. ASSUME NEW i \in 1 .. n - 1 PROVE w[i] = IF i < p THEN cache[i] ELSE cache[i + 1]
      <4>1. CASE i < p
        <5>1. i <= Len(a) /\ i \in 1 .. Len(a) + Len(b) /\ i \in 1 .. p - 1
          BY <2>2, <2>3, <4>1
        <5> QED BY <2>2, <3>2, <4>1, <5>1
      <4>2. CASE ~(i < p)
        <5>1. i - Len(a) \in 1 .. n - p /\ p + (i - Len(a)) = i + 1
          BY <2>2, <4>2
        <5>2. w[i] = b[i - Len(a)]
          <6>1. ~(i <= Len(a)) /\ i \in 1 .. Len(a) + Len(b)
            BY <2>2, <2>3, <4>2
          <6> QED BY <3>2, <6>1
        <5> QED BY <2>3, <4>2, <5>1, <5>2
      <4> QED BY <4>1, <4>2
    <3> QED BY <2>2, <2>3, <3>1, <3>3
  <2>5. w = Without(o)
    BY <2>1 DEF RemoveEntry, a, b
  <2> HIDE DEF w
  <2>6. DOMAIN w = 1 .. n - 1
    BY <2>4
  <2>7. ASSUME NEW i \in DOMAIN w
        PROVE  \E k \in 1 .. n : k # p /\ w[i] = cache[k] /\ k = IF i < p THEN i ELSE i + 1
    BY <2>4, <2>6
  <2>8. OneEach(w)
    <3> SUFFICES ASSUME NEW i \in DOMAIN w, NEW j \in DOMAIN w, w[i].key = w[j].key
                 PROVE  i = j
      BY DEF OneEach
    <3>1. (IF i < p THEN i ELSE i + 1) = (IF j < p THEN j ELSE j + 1)
      BY <2>7 DEF OneEach
    <3> QED BY <2>6, <3>1
  <2>9. \A i \in DOMAIN w : w[i].key # o /\ \E k \in DOMAIN cache : w[i] = cache[k]
    BY <2>1, <2>7 DEF OneEach
  <2> QED BY <2>4, <2>5, <2>8, <2>9
<1> QED BY <1>1, <1>2

(* An entry written to the end.                                            *)
LEMMA EntryLast ==
  ASSUME NEW w \in Seq(Entry), OneEach(w), NEW e \in Entry, \A i \in DOMAIN w : w[i].key # e.key
  PROVE  LET t == Append(w, e)
         IN  /\ t \in Seq(Entry) /\ Len(t) = Len(w) + 1 /\ OneEach(t)
             /\ \A i \in DOMAIN t : t[i] = e \/ \E k \in DOMAIN w : t[i] = w[k]
<1> DEFINE t == Append(w, e)
<1>1. /\ t \in Seq(Entry) /\ Len(t) = Len(w) + 1
      /\ \A i \in 1 .. Len(w) : t[i] = w[i]
      /\ t[Len(w) + 1] = e
  BY AppendProperties
<1> HIDE DEF t
<1>2. \A i \in DOMAIN t : i \in DOMAIN w \/ i = Len(w) + 1
  BY <1>1
<1>3. OneEach(t)
  BY <1>1, <1>2 DEF OneEach
<1> QED BY <1>1, <1>2, <1>3 DEF t

LEMMA TailEntries ==
  ASSUME NEW t \in Seq(Entry), t # <<>>, OneEach(t)
  PROVE  /\ Tail(t) \in Seq(Entry) /\ Len(Tail(t)) = Len(t) - 1 /\ OneEach(Tail(t))
         /\ \A i \in DOMAIN Tail(t) : \E k \in DOMAIN t : Tail(t)[i] = t[k]
<1>1. /\ Tail(t) \in Seq(Entry) /\ Len(Tail(t)) = Len(t) - 1
      /\ \A i \in DOMAIN Tail(t) : Tail(t)[i] = t[i + 1] /\ i + 1 \in DOMAIN t
  BY HeadTailProperties
<1>2. OneEach(Tail(t))
  BY <1>1 DEF OneEach
<1> QED BY <1>1, <1>2

LEMMA InitCInv == AdviceInit => CInv
<1> SUFFICES ASSUME AdviceInit
             PROVE  CInv
  OBVIOUS
<1>1. cache = <<>> /\ moment = 0
  BY DEF AdviceInit
<1>2. AdviceTypeOK
  BY <1>1, CacheAssumption DEF AdviceInit, AdviceTypeOK, NotAsking
<1> QED BY <1>1, <1>2 DEF AdviceInit, CInv, OneEach, NotAsking

(* What is sound stays so, and so does what a request has read.            *)
LEMMA HeldOn ==
  ASSUME CInv,
         \/ UNCHANGED <<customerOf, moment, held>>
         \/ \E o \in Opportunities, c \in Customers : SetCustomer(o, c)
         \/ MomentPasses
  PROVE  /\ customerOf' \in [Opportunities -> Customers \cup {NoCustomer}]
         /\ moment' \in 0 .. MaxMoment
         /\ held' \in [Opportunities -> [Customers -> 0 .. MaxMoment]]
         /\ \A e \in Entry : Sound(e) => Sound(e)'
         /\ moment \in 0 .. MaxMoment /\ moment <= moment'
         /\ \A o \in Opportunities, c \in Customers :
               /\ LastHeld(o, c) \in 0 .. MaxMoment /\ LastHeld(o, c)' \in 0 .. MaxMoment
               /\ LastHeld(o, c) <= LastHeld(o, c)' \/ LastHeld(o, c)' = moment'
<1>0. /\ customerOf \in [Opportunities -> Customers \cup {NoCustomer}]
      /\ moment \in 0 .. MaxMoment
      /\ held \in [Opportunities -> [Customers -> 0 .. MaxMoment]]
      /\ MaxMoment \in Nat
  BY CacheAssumption DEF CInv, AdviceTypeOK
<1>5. \A o \in Opportunities, c \in Customers : LastHeld(o, c) \in 0 .. MaxMoment
  BY <1>0 DEF LastHeld
<1> DEFINE Goes ==
        /\ customerOf' \in [Opportunities -> Customers \cup {NoCustomer}]
        /\ moment' \in 0 .. MaxMoment /\ moment <= moment'
        /\ held' \in [Opportunities -> [Customers -> 0 .. MaxMoment]]
        /\ \A o \in Opportunities, c \in Customers :
              /\ LastHeld(o, c)' \in 0 .. MaxMoment
              /\ LastHeld(o, c) <= LastHeld(o, c)' \/ LastHeld(o, c)' = moment'
<1>1. ASSUME UNCHANGED <<customerOf, moment, held>>
      PROVE  Goes
  <2>1. \A o \in Opportunities, c \in Customers : LastHeld(o, c)' = LastHeld(o, c)
    BY <1>1 DEF LastHeld
  <2> QED BY <1>0, <1>1, <1>5, <2>1
<1>2. ASSUME NEW o \in Opportunities, NEW c \in Customers, SetCustomer(o, c)
      PROVE  /\ customerOf' \in [Opportunities -> Customers \cup {NoCustomer}]
             /\ moment' = moment
             /\ held' \in [Opportunities -> [Customers -> 0 .. MaxMoment]]
             /\ \A p \in Opportunities, x \in Customers :
                   LastHeld(p, x)' = IF p = o /\ x = c THEN moment ELSE LastHeld(p, x)
  <2>1. /\ customerOf' = [customerOf EXCEPT ![o] = c] /\ moment' = moment /\ customerOf[o] # c
        /\ held' = [held EXCEPT ![o] = [x \in Customers |-> LastHeld(o, x)]]
    BY <1>2 DEF SetCustomer
  <2>2. \A x \in Customers : LastHeld(o, x) \in 0 .. MaxMoment
    BY <1>0 DEF LastHeld
  <2>3. held' \in [Opportunities -> [Customers -> 0 .. MaxMoment]]
    BY <1>0, <2>1, <2>2
  <2>4. ASSUME NEW p \in Opportunities, NEW x \in Customers
        PROVE  LastHeld(p, x)' = IF p = o /\ x = c THEN moment ELSE LastHeld(p, x)
    BY <1>0, <2>1 DEF LastHeld
  <2> QED BY <1>0, <2>1, <2>3, <2>4
<1>3. ASSUME NEW o \in Opportunities, NEW c \in Customers, SetCustomer(o, c)
      PROVE  \A p \in Opportunities, x \in Customers :
                /\ LastHeld(p, x)' \in 0 .. MaxMoment
                /\ LastHeld(p, x) <= LastHeld(p, x)' \/ LastHeld(p, x)' = moment'
  <2> SUFFICES ASSUME NEW p \in Opportunities, NEW x \in Customers
               PROVE  /\ LastHeld(p, x)' \in 0 .. MaxMoment
                      /\ LastHeld(p, x) <= LastHeld(p, x)' \/ LastHeld(p, x)' = moment'
    OBVIOUS
  <2>1. PICK l \in 0 .. MaxMoment : l = LastHeld(p, x)
    BY <1>5
  <2>2. LastHeld(p, x)' = moment \/ LastHeld(p, x)' = l
    BY <1>2, <1>3, <2>1
  <2>3. moment' = moment
    BY <1>2, <1>3
  <2> QED BY <1>0, <2>1, <2>2, <2>3
<1>4. ASSUME MomentPasses
      PROVE  Goes
  <2>1. /\ moment' = moment + 1 /\ moment' \in 0 .. MaxMoment
        /\ UNCHANGED <<customerOf, held>>
    BY <1>0, <1>4 DEF MomentPasses
  <2>2. \A o \in Opportunities, c \in Customers :
           /\ LastHeld(o, c)' \in 0 .. MaxMoment
           /\ LastHeld(o, c) <= LastHeld(o, c)' \/ LastHeld(o, c)' = moment'
    <3> SUFFICES ASSUME NEW o \in Opportunities, NEW c \in Customers
                 PROVE  /\ LastHeld(o, c)' \in 0 .. MaxMoment
                        /\ LastHeld(o, c) <= LastHeld(o, c)' \/ LastHeld(o, c)' = moment'
      OBVIOUS
    <3>1. held[o][c] \in 0 .. MaxMoment
      BY <1>0
    <3>2. LastHeld(o, c)' = IF customerOf[o] = c THEN moment + 1 ELSE held[o][c]
      BY <2>1 DEF LastHeld
    <3>3. LastHeld(o, c) = IF customerOf[o] = c THEN moment ELSE held[o][c]
      BY DEF LastHeld
    <3> QED BY <1>0, <2>1, <3>1, <3>2, <3>3
  <2>3. moment <= moment'
    BY <1>0, <2>1
  <2> QED BY <1>0, <2>1, <2>2, <2>3
<1>6. Goes
  BY <1>0, <1>1, <1>2, <1>3, <1>4
<1>7. ASSUME NEW e \in Entry, Sound(e) PROVE Sound(e)'
  <2>1. /\ e.key \in Opportunities /\ e.value \in Customers /\ e.time \in 0 .. MaxMoment
        /\ e.waited \in 0 .. MaxMoment
        /\ e.time <= moment /\ e.time <= LastHeld(e.key, e.value) + e.waited
    BY <1>7 DEF Entry, Sound
  <2>2. PICK l \in 0 .. MaxMoment, m \in 0 .. MaxMoment :
            /\ l = LastHeld(e.key, e.value) /\ m = LastHeld(e.key, e.value)'
            /\ l <= m \/ m = moment'
    BY <1>5, <1>6, <2>1
  <2>3. e.time <= m + e.waited /\ e.time <= moment'
    BY <1>0, <1>6, <2>1, <2>2
  <2> QED BY <2>2, <2>3 DEF Sound
<1> QED BY <1>0, <1>5, <1>6, <1>7

(* What a request may have read, and when.                                 *)
WasSo(ask) ==
    /\ ask \in [step : {"idle", "missed", "read"}, key : Opportunities \cup {NoOpportunity},
                value : Customers \cup {NoCustomer}, since : 0 .. MaxMoment]
    /\ ask.step # "idle" => ask.key \in Opportunities
    /\ ask.step = "read" =>
          /\ ask.value \in Customers
          /\ ask.since <= moment
          /\ ask.since <= LastHeld(ask.key, ask.value)

LEMMA AskersWereRight ==
  ASSUME CInv
  PROVE  \A q \in AdviceRequests : WasSo(asking[q])
BY DEF CInv, AdviceTypeOK, WasSo

LEMMA NobodyForgets ==
  ASSUME CInv, NEW ask, WasSo(ask),
         \/ UNCHANGED <<customerOf, moment, held>>
         \/ \E o \in Opportunities, c \in Customers : SetCustomer(o, c)
         \/ MomentPasses
  PROVE  WasSo(ask)'
<1>1. CASE ask.step = "read"
  <2>1. /\ ask.key \in Opportunities /\ ask.value \in Customers /\ ask.since \in 0 .. MaxMoment
        /\ ask.since <= moment /\ ask.since <= LastHeld(ask.key, ask.value)
    BY <1>1 DEF WasSo
  <2>2. PICK l \in 0 .. MaxMoment, m \in 0 .. MaxMoment :
            /\ l = LastHeld(ask.key, ask.value) /\ m = LastHeld(ask.key, ask.value)'
            /\ l <= m \/ m = moment'
    BY <2>1, HeldOn
  <2>3. moment \in 0 .. MaxMoment /\ moment' \in 0 .. MaxMoment /\ moment <= moment'
    BY HeldOn
  <2>4. ask.since <= m /\ ask.since <= moment'
    BY <2>1, <2>2, <2>3, CacheAssumption
  <2> QED BY <2>1, <2>2, <2>4 DEF WasSo
<1>2. CASE ask.step # "read"
  BY <1>2 DEF WasSo
<1> QED BY <1>1, <1>2

(* A step of a request, or a restart: the database stays as it is.         *)
LEMMA AskingStep ==
  ASSUME CInv, UNCHANGED <<customerOf, moment, held>>,
         cache' \in Seq(Entry), Len(cache') <= CacheMax, OneEach(cache'),
         \A i \in DOMAIN cache' : Sound(cache'[i]),
         asking' = [q \in AdviceRequests |-> asking'[q]],
         \A q \in AdviceRequests : WasSo(asking'[q])
  PROVE  CInv'
<1>1. ASSUME NEW q \in AdviceRequests
      PROVE  WasSo(asking[q])'
  <2>1. PICK ask : ask = asking'[q]
    OBVIOUS
  <2>2. WasSo(ask)'
    BY <2>1, NobodyForgets
  <2> QED BY <2>1, <2>2 DEF WasSo
<1>2. AdviceTypeOK'
  <2>1. asking' \in [AdviceRequests ->
           [step : {"idle", "missed", "read"}, key : Opportunities \cup {NoOpportunity},
            value : Customers \cup {NoCustomer}, since : 0 .. MaxMoment]]
    BY DEF WasSo
  <2> QED BY <2>1 DEF CInv, AdviceTypeOK
<1>3. OneEach(cache)'
  BY DEF OneEach
<1>4. ASSUME NEW e \in Entry, NEW i \in DOMAIN cache', cache'[i] = e
      PROVE  Sound(e)'
  BY <1>4, HeldOn
<1> QED BY <1>1, <1>2, <1>3, <1>4 DEF CInv, WasSo

(* No request moves.                                                       *)
LEMMA NobodyAsks ==
  ASSUME CInv, UNCHANGED <<asking, customerOf, moment, held>>,
         cache' \in Seq(Entry), Len(cache') <= CacheMax, OneEach(cache'),
         \A i \in DOMAIN cache' : Sound(cache'[i])
  PROVE  CInv'
<1>1. asking' = [q \in AdviceRequests |-> asking'[q]]
  BY DEF CInv, AdviceTypeOK
<1> QED BY <1>1, AskersWereRight, AskingStep

(* One request moves.                                                      *)
LEMMA OneAsks ==
  ASSUME CInv, UNCHANGED <<customerOf, moment, held>>, NEW q \in AdviceRequests,
         cache' \in Seq(Entry), Len(cache') <= CacheMax, OneEach(cache'),
         \A i \in DOMAIN cache' : Sound(cache'[i]),
         NEW ask, WasSo(ask), asking' = [asking EXCEPT ![q] = ask]
  PROVE  CInv'
<1>1. /\ asking' = [w \in AdviceRequests |-> asking'[w]]
      /\ \A w \in AdviceRequests : asking'[w] = asking[w] \/ asking'[w] = ask
  BY DEF CInv, AdviceTypeOK
<1> QED BY <1>1, AskersWereRight, AskingStep

LEMMA IdleWasSo ==
  WasSo(NotAsking)
BY CacheAssumption DEF WasSo, NotAsking

LEMMA CacheIsSound ==
  ASSUME CInv
  PROVE  /\ cache \in Seq(Entry) /\ Len(cache) <= CacheMax /\ Len(cache) \in Nat /\ OneEach(cache)
         /\ \A i \in DOMAIN cache : Sound(cache[i]) /\ cache[i] \in Entry
         /\ CacheMax \in Nat \ {0}
BY CacheAssumption DEF CInv, AdviceTypeOK

LEMMA CacheHitStep ==
  ASSUME CInv, NEW o \in Opportunities, CacheHit(o)
  PROVE  CInv'
<1>1. PICK i \in DOMAIN cache : cache[i].key = o /\ cache' = Touched(cache[i])
  BY DEF CacheHit, Positions
<1> DEFINE w == Without(o)
<1>2. Positions(o) # {}
  BY <1>1 DEF Positions
<1>3. /\ w \in Seq(Entry) /\ Len(w) < Len(cache) /\ OneEach(w)
      /\ \A k \in DOMAIN w : w[k].key # o /\ \E j \in DOMAIN cache : w[k] = cache[j]
  BY <1>2, WithoutEntry, CacheIsSound
<1> HIDE DEF w
<1>4. cache' = Append(w, cache[i]) /\ cache[i] \in Entry
  BY <1>1, CacheIsSound DEF Touched, w
<1>5. /\ cache' \in Seq(Entry) /\ Len(cache') = Len(w) + 1 /\ OneEach(cache')
      /\ \A k \in DOMAIN cache' : cache'[k] = cache[i] \/ \E j \in DOMAIN w : cache'[k] = w[j]
  BY <1>1, <1>3, <1>4, EntryLast
<1>6. Len(cache') <= CacheMax
  BY <1>3, <1>5, CacheIsSound
<1>7. \A k \in DOMAIN cache' : Sound(cache'[k])
  BY <1>3, <1>5, CacheIsSound
<1> QED BY <1>5, <1>6, <1>7, NobodyAsks DEF CacheHit

LEMMA CacheMissStep ==
  ASSUME CInv, NEW q \in AdviceRequests, NEW o \in Opportunities, CacheMiss(q, o)
  PROVE  CInv'
<1> DEFINE w == Without(o)
<1>1. /\ w \in Seq(Entry) /\ Len(w) <= Len(cache) /\ OneEach(w)
      /\ \A k \in DOMAIN w : \E j \in DOMAIN cache : w[k] = cache[j]
  BY WithoutEntry, CacheIsSound
<1>2. cache' = w
  BY DEF CacheMiss
<1> HIDE DEF w
<1>3. \A k \in DOMAIN w : Sound(w[k])
  BY <1>1, CacheIsSound
<1>4. Len(w) <= CacheMax
  BY <1>1, CacheIsSound
<1> DEFINE ask == [step |-> "missed", key |-> o, value |-> NoCustomer, since |-> 0]
<1>5. WasSo(ask)
  BY CacheAssumption DEF WasSo
<1>6. asking' = [asking EXCEPT ![q] = ask] /\ UNCHANGED <<customerOf, moment, held>>
  BY DEF CacheMiss, Ask
<1> HIDE DEF ask
<1> QED BY <1>1, <1>2, <1>3, <1>4, <1>5, <1>6, OneAsks

LEMMA ReadOpportunityStep ==
  ASSUME CInv, NEW q \in AdviceRequests, ReadOpportunity(q)
  PROVE  CInv'
<1> DEFINE o == asking[q].key
           ask == [step |-> "read", key |-> o, value |-> customerOf[o], since |-> moment]
<1>1. o \in Opportunities
  BY DEF CInv, ReadOpportunity
<1>2. UNCHANGED <<cache, customerOf, moment, held>>
  BY DEF ReadOpportunity
<1>3. CASE customerOf[o] = NoCustomer
  <2>1. asking' = [asking EXCEPT ![q] = NotAsking]
    BY <1>3 DEF ReadOpportunity
  <2> QED BY <1>2, <2>1, OneAsks, CacheIsSound, IdleWasSo
<1>4. CASE customerOf[o] # NoCustomer
  <2>1. asking' = [asking EXCEPT ![q] = ask]
    BY <1>4 DEF ReadOpportunity, Ask
  <2>2. customerOf[o] \in Customers /\ LastHeld(o, customerOf[o]) = moment
        /\ moment \in 0 .. MaxMoment
    BY <1>1, <1>4 DEF CInv, AdviceTypeOK, LastHeld
  <2>3. WasSo(ask)
    BY <1>1, <2>2, CacheAssumption DEF WasSo
  <2> HIDE DEF ask
  <2> QED BY <1>2, <2>1, <2>3, OneAsks, CacheIsSound
<1> QED BY <1>3, <1>4

LEMMA FillCacheStep ==
  ASSUME CInv, NEW q \in AdviceRequests, FillCache(q)
  PROVE  CInv'
<1> DEFINE o == asking[q].key
           c == asking[q].value
           e == [key |-> o, time |-> moment, value |-> c, waited |-> moment - asking[q].since]
           w == Without(o)
           t == Append(w, e)
<1>1. /\ o \in Opportunities /\ c \in Customers /\ moment \in 0 .. MaxMoment
      /\ asking[q].since \in 0 .. MaxMoment /\ asking[q].since <= moment
      /\ asking[q].since <= LastHeld(o, c)
  <2>1. moment \in 0 .. MaxMoment /\ asking[q].step = "read"
    BY DEF CInv, AdviceTypeOK, FillCache
  <2> QED BY <2>1, AskersWereRight DEF WasSo
<1>2. LastHeld(o, c) \in 0 .. MaxMoment
  BY <1>1 DEF CInv, AdviceTypeOK, LastHeld
<1>3. e \in Entry /\ e.key = o /\ Sound(e)
  <2>1. moment - asking[q].since \in 0 .. MaxMoment
    BY <1>1, CacheAssumption
  <2>2. moment <= LastHeld(o, c) + (moment - asking[q].since)
    BY <1>1, <1>2, CacheAssumption
  <2> QED BY <1>1, <2>1, <2>2, CacheAssumption DEF Entry, Sound
<1>4. /\ w \in Seq(Entry) /\ Len(w) <= Len(cache) /\ OneEach(w)
      /\ \A k \in DOMAIN w : w[k].key # o /\ \E j \in DOMAIN cache : w[k] = cache[j]
  BY WithoutEntry, CacheIsSound
<1>5. cache' = IF Len(t) > CacheMax THEN Tail(t) ELSE t
  BY DEF FillCache, Stored
<1> HIDE DEF e, w
<1>6. /\ t \in Seq(Entry) /\ Len(t) = Len(w) + 1 /\ OneEach(t)
      /\ \A k \in DOMAIN t : t[k] = e \/ \E j \in DOMAIN w : t[k] = w[j]
  BY <1>3, <1>4, EntryLast
<1> HIDE DEF t
<1>7. \A k \in DOMAIN t : Sound(t[k])
  BY <1>3, <1>4, <1>6, CacheIsSound
<1>8. t # <<>> /\ Len(w) \in Nat
  BY <1>4, <1>6
<1>9. /\ cache' \in Seq(Entry) /\ OneEach(cache') /\ Len(cache') <= CacheMax
      /\ \A k \in DOMAIN cache' : Sound(cache'[k])
  <2>1. CASE Len(t) > CacheMax
    BY <1>4, <1>5, <1>6, <1>7, <1>8, <2>1, TailEntries, CacheIsSound
  <2>2. CASE ~(Len(t) > CacheMax)
    BY <1>5, <1>6, <1>7, <1>8, <2>2, CacheIsSound
  <2> QED BY <2>1, <2>2
<1> QED BY <1>9, IdleWasSo, OneAsks DEF FillCache

LEMMA RestartStep ==
  ASSUME CInv, RestartApp
  PROVE  CInv'
<1>1. /\ asking' = [q \in AdviceRequests |-> asking'[q]]
      /\ \A q \in AdviceRequests :
            asking'[q] = NotAsking
  BY DEF RestartApp
<1>2. cache' = <<>> /\ UNCHANGED <<customerOf, moment, held>>
  BY DEF RestartApp
<1>3. /\ <<>> \in Seq(Entry) /\ Len(<<>>) <= CacheMax /\ OneEach(<<>>)
      /\ \A k \in DOMAIN <<>> : Sound(<<>>[k])
  BY CacheAssumption DEF OneEach
<1> QED BY <1>1, <1>2, <1>3, IdleWasSo, AskingStep

(* The database or the clock moves.                                        *)
LEMMA ElsewhereStep ==
  ASSUME CInv, MomentPasses \/ \E o \in Opportunities, c \in Customers : SetCustomer(o, c)
  PROVE  CInv'
<1>1. UNCHANGED <<cache, asking>>
  BY DEF MomentPasses, SetCustomer
<1>2. AdviceTypeOK'
  BY <1>1, HeldOn DEF CInv, AdviceTypeOK
<1>3. ASSUME NEW q \in AdviceRequests
      PROVE  WasSo(asking[q])'
  <2>1. PICK ask : ask = asking[q]
    OBVIOUS
  <2>2. WasSo(ask)'
    BY <2>1, AskersWereRight, NobodyForgets
  <2> QED BY <1>1, <2>1, <2>2 DEF WasSo
<1>4. OneEach(cache)'
  BY <1>1 DEF CInv, OneEach
<1>5. ASSUME NEW e \in Entry, NEW i \in DOMAIN cache', cache'[i] = e
      PROVE  Sound(e)'
  BY <1>1, <1>5, HeldOn DEF CInv
<1> QED BY <1>2, <1>3, <1>4, <1>5 DEF CInv, WasSo

LEMMA StepCInv == CInv /\ [AdviceNext]_adviceVars => CInv'
<1> SUFFICES ASSUME CInv, [AdviceNext]_adviceVars
             PROVE  CInv'
  OBVIOUS
<1>1. CASE UNCHANGED adviceVars
  BY <1>1, NobodyAsks, CacheIsSound DEF adviceVars
<1>2. CASE AdviceNext
  BY <1>2, CacheHitStep, CacheMissStep, ReadOpportunityStep, FillCacheStep, RestartStep, ElsewhereStep
  DEF AdviceNext
<1> QED BY <1>1, <1>2

(* For any opportunities, customers and requests, and a cache of any size: *)
(* an answer from the cache was right less than the TTL ago, or the TTL    *)
(* and the time the database's answer took to arrive, and an opportunity   *)
(* has one entry (_TLRUCache, recommendation_service.py:24).               *)
THEOREM AnswersAreAlwaysFresh == AdviceSpec => []AnswersAreFresh
<1>1. CInv => AnswersAreFresh
  <2> SUFFICES ASSUME CInv, NEW i \in DOMAIN cache, Served(cache[i])
               PROVE  moment - LastHeld(cache[i].key, cache[i].value)
                          < CacheTTL + cache[i].waited
    BY DEF AnswersAreFresh, CInv, OneEach
  <2> DEFINE e == cache[i]
  <2>1. /\ e.key \in Opportunities /\ e.value \in Customers /\ e.time \in 0 .. MaxMoment
        /\ e.waited \in 0 .. MaxMoment
        /\ e.time <= LastHeld(e.key, e.value) + e.waited
    BY CacheIsSound DEF Entry, Sound
  <2>2. LastHeld(e.key, e.value) \in 0 .. MaxMoment /\ moment \in 0 .. MaxMoment
    BY <2>1 DEF CInv, AdviceTypeOK, LastHeld
  <2> QED BY <2>1, <2>2, CacheAssumption DEF Served
<1> QED BY InitCInv, StepCInv, <1>1, PTL DEF AdviceSpec

-----------------------------------------------------------------------------
(* Churn scores: for any rows, amounts and gaps of days, better business   *)
(* never raises a score.  A score is a function of six numbers, each the   *)
(* size of a set of rows or the least age in one; a step of better business *)
(* moves each of them one way, and the function follows.                   *)

ChurnTyped ==
    /\ logged \in [ActivityIds -> {NoActivity} \cup [type : ActivityTypes, age : 0..MaxAge]]
    /\ deals \in [DealIds -> {NoDeal} \cup [won : BOOLEAN, amount : Amounts, age : 0..MaxAge]]
    /\ cases \in [CaseIds -> {"none", "open", "settled"}]
    /\ since \in 0..MaxAge

(* A sum over a set is the number of units: pairs of an element and one of *)
(* the numbers up to its amount.                                           *)
SumOf(r, S) == MapThenSumSet(LAMBDA d : r[d].amount, S)
Units(w, S) == UNION {{x} \X (1 .. w[x]) : x \in S}

LEMMA UnitsOf ==
  ASSUME NEW D, IsFiniteSet(D), NEW w \in [D -> Nat], NEW S \in SUBSET D
  PROVE  /\ IsFiniteSet(Units(w, S)) /\ Cardinality(Units(w, S)) \in Nat
         /\ \A x \in S : Cardinality(Units(w, S)) = w[x] + Cardinality(Units(w, S \ {x}))
<1> DEFINE Pile(x) == {x} \X (1 .. w[x])
<1>1. ASSUME NEW x \in D PROVE IsFiniteSet(Pile(x)) /\ Cardinality(Pile(x)) = w[x]
  <2>1. IsFiniteSet({x}) /\ Cardinality({x}) = 1
    BY FS_Singleton
  <2>2. w[x] \in Nat /\ IsFiniteSet(1 .. w[x]) /\ Cardinality(1 .. w[x]) = w[x]
    BY FS_Interval
  <2>3. PICK a, b : a = {x} /\ b = 1 .. w[x]
    OBVIOUS
  <2>4. IsFiniteSet(a \X b) /\ Cardinality(a \X b) = Cardinality(a) * Cardinality(b)
    BY <2>1, <2>2, <2>3, FS_Product
  <2> QED BY <2>1, <2>2, <2>3, <2>4
<1>2. ASSUME NEW T \in SUBSET D PROVE IsFiniteSet(Units(w, T)) /\ Cardinality(Units(w, T)) \in Nat
  <2> DEFINE R == {Pile(x) : x \in T}
             f == [x \in T |-> Pile(x)]
  <2>1. f \in Surjection(T, R)
    BY DEF Surjection
  <2>2. IsFiniteSet(T)
    BY FS_Subset
  <2>3. IsFiniteSet(R) /\ \A p \in R : IsFiniteSet(p)
    <3> HIDE DEF f
    <3>1. IsFiniteSet(R)
      <4> HIDE DEF R
      <4> QED BY <2>1, <2>2, FS_Surjection
    <3> QED BY <3>1, <1>1
  <2>4. IsFiniteSet(UNION R)
    <3> HIDE DEF R
    <3> QED BY <2>3, FS_UNION
  <2>5. Units(w, T) = UNION R
    BY DEF Units
  <2> QED BY <2>4, <2>5, FS_CardinalityType
<1>3. ASSUME NEW x \in S
      PROVE  Cardinality(Units(w, S)) = w[x] + Cardinality(Units(w, S \ {x}))
  <2>1. Units(w, S) = Pile(x) \cup Units(w, S \ {x}) /\ Pile(x) \cap Units(w, S \ {x}) = {}
    BY DEF Units
  <2>2. IsFiniteSet(Pile(x)) /\ Cardinality(Pile(x)) = w[x] /\ w[x] \in Nat
    BY <1>1
  <2>3. /\ IsFiniteSet(Units(w, S \ {x})) /\ Cardinality(Units(w, S \ {x})) \in Nat
    BY <1>2
  <2>4. Cardinality({}) = 0
    BY FS_EmptySet
  <2>5. PICK p, u : p = Pile(x) /\ u = Units(w, S \ {x})
    OBVIOUS
  <2>6. Cardinality(p \cup u) = Cardinality(p) + Cardinality(u) - Cardinality(p \cap u)
    BY <2>2, <2>3, <2>5, FS_Union
  <2> HIDE DEF Pile
  <2>7. Cardinality(p) = w[x] /\ p \cap u = {} /\ Units(w, S) = p \cup u /\ Cardinality(u) \in Nat
    BY <2>1, <2>2, <2>3, <2>5
  <2>8. Cardinality(Units(w, S)) = w[x] + Cardinality(u)
    BY <2>2, <2>4, <2>6, <2>7
  <2> QED BY <2>5, <2>8
<1> QED BY <1>2, <1>3

(* More elements, and no less of each, are no fewer units.                 *)
LEMMA MoreUnits ==
  ASSUME NEW D, IsFiniteSet(D), NEW w \in [D -> Nat], NEW v \in [D -> Nat],
         NEW S \in SUBSET D, NEW T \in SUBSET D,
         \A x \in S : x \in T /\ w[x] = v[x]
  PROVE  Cardinality(Units(w, S)) <= Cardinality(Units(v, T))
<1>1. Units(w, S) \subseteq Units(v, T)
  BY DEF Units
<1>2. IsFiniteSet(Units(v, T))
  BY UnitsOf
<1> QED BY <1>1, <1>2, FS_Subset

(* The library's fold takes the elements one by one; in whatever order it  *)
(* does, it counts the units.                                              *)
LEMMA FoldCountsUnits ==
  ASSUME NEW D, IsFiniteSet(D), NEW r, NEW w \in [D -> Nat], \A d \in D : w[d] = r[d].amount,
         NEW S \in SUBSET D
  PROVE  SumOf(r, S) = Cardinality(Units(w, S))
<1>0. ASSUME NEW s \in SUBSET D, NEW x \in s
      PROVE  Cardinality(Units(w, s)) = w[x] + Cardinality(Units(w, s \ {x}))
  <2>1. \A y \in s : Cardinality(Units(w, s)) = w[y] + Cardinality(Units(w, s \ {y}))
    BY UnitsOf
  <2> QED BY <2>1
<1> DEFINE Unfold(h) == [s \in SUBSET S |->
               IF s = {} THEN 0 ELSE w[CHOOSE x \in s : TRUE] + h[s \ {CHOOSE x \in s : TRUE}]]
           count == [s \in SUBSET S |-> Cardinality(Units(w, s))]
<1> DEFINE Raw(h) == [s \in SUBSET S |->
               IF s = {} THEN 0 ELSE r[CHOOSE x \in s : TRUE].amount + h[s \ {CHOOSE x \in s : TRUE}]]
<1>a. PICK g : SumOf(r, S) = g[S] /\ g = CHOOSE h : h = Raw(h)
  BY DEF SumOf, MapThenSumSet, MapThenFoldSet
<1>b. \A h : Raw(h) = Unfold(h)
  <2> SUFFICES ASSUME NEW h, NEW s \in SUBSET S, s # {}
               PROVE  r[CHOOSE x \in s : TRUE].amount = w[CHOOSE x \in s : TRUE]
    OBVIOUS
  <2>1. PICK x \in s : x = CHOOSE y \in s : TRUE
    OBVIOUS
  <2> QED BY <2>1
<1>1. SumOf(r, S) = g[S] /\ g = CHOOSE h : h = Unfold(h)
  <2> HIDE DEF Raw, Unfold
  <2> QED BY <1>a, <1>b
<1>2. Units(w, {}) = {} /\ Cardinality({}) = 0
  BY FS_EmptySet DEF Units
<1>3. count = Unfold(count)
  <2> SUFFICES ASSUME NEW s \in SUBSET S
               PROVE  count[s] = IF s = {} THEN 0
                                 ELSE w[CHOOSE x \in s : TRUE] + count[s \ {CHOOSE x \in s : TRUE}]
    OBVIOUS
  <2>1. CASE s = {}
    BY <1>2, <2>1
  <2>2. CASE s # {}
    <3>1. PICK x \in s : x = CHOOSE y \in s : TRUE
      BY <2>2
    <3>2. s \in SUBSET D /\ s \ {x} \in SUBSET S
      OBVIOUS
    <3>3. Cardinality(Units(w, s)) = w[x] + Cardinality(Units(w, s \ {x}))
      BY <1>0, <3>1, <3>2
    <3>4. count[s] = w[x] + count[s \ {x}]
      BY <3>2, <3>3
    <3> QED BY <2>2, <3>1, <3>4
  <2> QED BY <2>1, <2>2
<1>4. g = Unfold(g)
  <2> HIDE DEF Unfold, count
  <2> QED BY <1>1, <1>3
<1>5. \A s \in SUBSET S : g[s] = IF s = {} THEN 0
          ELSE w[CHOOSE x \in s : TRUE] + g[s \ {CHOOSE x \in s : TRUE}]
  BY <1>4
<1>6. \A s \in SUBSET S : g[s] = Cardinality(Units(w, s))
  <2> DEFINE bad == {s \in SUBSET S : g[s] # Cardinality(Units(w, s))}
  <2> SUFFICES ASSUME bad # {} PROVE FALSE
    OBVIOUS
  <2>1. FiniteSubsetsOf(S) = SUBSET S
    BY FS_Subset, FS_FiniteSubsetsOfFinite
  <2>2. PICK s \in bad : \A t \in bad : ~(<<t, s>> \in StrictSubsetOrdering(S))
    <3>1. bad \subseteq SUBSET S
      OBVIOUS
    <3>2. IsWellFoundedOn(StrictSubsetOrdering(S), SUBSET S)
      BY <2>1, FS_StrictSubsetOrderingWellFounded
    <3> HIDE DEF bad
    <3> QED BY <3>1, <3>2, WFMin
  <2>3. s # {}
    BY <1>2, <1>5
  <2>4. PICK x \in s : x = CHOOSE y \in s : TRUE
    BY <2>3
  <2>5. s \ {x} \notin bad
    <3>1. <<s \ {x}, s>> \in StrictSubsetOrdering(S)
      BY <2>4 DEF StrictSubsetOrdering
    <3> QED BY <2>2, <3>1
  <2>6. g[s \ {x}] = Cardinality(Units(w, s \ {x}))
    BY <2>5
  <2>7. g[s] = w[x] + g[s \ {x}]
    BY <1>5, <2>3, <2>4
  <2>8. s \in SUBSET D /\ g[s] # Cardinality(Units(w, s))
    OBVIOUS
  <2>9. Cardinality(Units(w, s)) = w[x] + Cardinality(Units(w, s \ {x}))
    BY <1>0, <2>4, <2>8
  <2> QED BY <2>6, <2>7, <2>8, <2>9
<1> QED BY <1>1, <1>6

(* Min is a CHOOSE: a set of naturals has a least.                         *)
LEMMA LeastOfNats ==
  ASSUME NEW S, S \subseteq Nat, S # {}
  PROVE  Min(S) \in S /\ \A x \in S : Min(S) <= x
<1>1. PICK n \in S : \A x \in S : ~(<<x, n>> \in OpToRel(<, Nat))
  BY WFMin, NatLessThanWellFounded
<1>2. \A x \in S : ~(x < n)
  BY <1>1 DEF OpToRel
<1>3. n \in Nat /\ \A x \in S : n <= x
  BY <1>2
<1> QED BY <1>3 DEF Min

(* ChurnScore as a function of the six numbers it depends on.              *)
Score(recent, prior, earned, before, days, load) ==
    LET P == Most2(prior, 1)
        Q == Most2(before, 1)
        silent == Least2(days, 90)
        quieter == IF prior > 0 THEN 2 * Most2(0, prior - recent) ELSE IF recent = 0 THEN 1 ELSE 0
        poorer == IF before > 0 THEN Most2(0, before - earned) ELSE 0
        support == Least2(10 * load, 100)
        whole == 180 * P * Q
        sum == 2000 * silent * 2 * P * Q
                 + 1800 * quieter * 90 * Q
                 + 2200 * poorer * 180 * P
                 + 15 * support * whole
    IN (2 * sum + whole) \div (2 * whole)

LEMMA ChurnScoreIsScore ==
  ChurnScore = Score(Cardinality(Logged(Month)), Cardinality(Logged(MonthBefore)),
                     Revenue(Month), Revenue(MonthBefore), DaysSilent, Cardinality(Burden))
BY DEF ChurnScore, Score

(* Products and whole quotients are monotone.                              *)
LEMMA Times ==
  ASSUME NEW a \in Nat, NEW b \in Nat, NEW c \in Nat, a <= b
  PROVE  a * c <= b * c /\ a * c \in Nat /\ b * c \in Nat
<1>1. (b - a) * c \in Nat /\ a * c \in Nat /\ b * c \in Nat
  OBVIOUS
<1>2. (b - a) * c = b * c - a * c
  OBVIOUS
<1> QED BY <1>1, <1>2

LEMMA Quotient ==
  ASSUME NEW a \in Nat, NEW k \in Nat, k > 0
  PROVE  a \div k \in Nat /\ k * (a \div k) <= a /\ a < k * (a \div k) + k
OBVIOUS

LEMMA Quotients ==
  ASSUME NEW a \in Nat, NEW b \in Nat, NEW k \in Nat, k > 0, a <= b
  PROVE  a \div k <= b \div k
<1>1. PICK p \in Nat, q \in Nat : p = a \div k /\ q = b \div k
  BY Quotient
<1>2. k * p <= a /\ b < k * q + k
  BY <1>1, Quotient
<1>3. CASE q < p
  <2>1. (q + 1) * k <= p * k
    BY <1>3, Times
  <2>2. (q + 1) * k = k * q + k /\ p * k = k * p
    OBVIOUS
  <2> QED BY <1>2, <2>1, <2>2
<1> QED BY <1>1, <1>3

(* The weighted sum over the common denominator 180PQ, rounded.            *)
Weighed(s, q, p, u, P, Q) ==
    (2 * (4000 * (s * (P * Q)) + 162000 * (q * Q) + 396000 * (p * P) + 2700 * (u * (P * Q)))
        + 180 * (P * Q)) \div (360 * (P * Q))
Quieter(recent, prior) ==
    IF prior > 0 THEN 2 * Most2(0, prior - recent) ELSE IF recent = 0 THEN 1 ELSE 0
Silence(days) == Least2(days, 90)
Support(load) == Least2(10 * load, 100)
AtLeast1(n) == Most2(n, 1)
Poorer(earned, before) == IF before > 0 THEN Most2(0, before - earned) ELSE 0

(* The same as the code has it.                                            *)
Plain6(s, q, p, u, P, Q) ==
    LET whole == 180 * P * Q
        sum == 2000 * s * 2 * P * Q + 1800 * q * 90 * Q + 2200 * p * 180 * P + 15 * u * whole
    IN (2 * sum + whole) \div (2 * whole)

LEMMA WeighedOtherwise ==
  ASSUME NEW s \in Nat, NEW q \in Nat, NEW p \in Nat, NEW u \in Nat, NEW P \in Nat, NEW Q \in Nat
  PROVE  Plain6(s, q, p, u, P, Q) = Weighed(s, q, p, u, P, Q)
<1>1. /\ 2000 * s * 2 * P * Q = 4000 * (s * (P * Q))
      /\ 1800 * q * 90 * Q = 162000 * (q * Q)
      /\ 2200 * p * 180 * P = 396000 * (p * P)
      /\ 15 * u * (180 * P * Q) = 2700 * (u * (P * Q))
      /\ 180 * P * Q = 180 * (P * Q)
      /\ 2 * (180 * P * Q) = 360 * (P * Q)
  BY SMT
<1>2. PICK x, k : /\ x = 2 * (2000 * s * 2 * P * Q + 1800 * q * 90 * Q + 2200 * p * 180 * P
                                + 15 * u * (180 * P * Q)) + 180 * P * Q
                  /\ k = 2 * (180 * P * Q)
  BY SMT
<1>3. /\ x = 2 * (4000 * (s * (P * Q)) + 162000 * (q * Q) + 396000 * (p * P) + 2700 * (u * (P * Q)))
                + 180 * (P * Q)
      /\ k = 360 * (P * Q)
  BY <1>1, <1>2, SMT
<1>4. Plain6(s, q, p, u, P, Q) = x \div k
  BY <1>2, SMT DEF Plain6
<1>5. Weighed(s, q, p, u, P, Q) = x \div k
  BY <1>3, SMT DEF Weighed
<1> QED BY <1>4, <1>5, SMT

LEMMA ScoreIsWeighed ==
  ASSUME NEW recent \in Nat, NEW prior \in Nat, NEW earned \in Nat, NEW before \in Nat,
         NEW days \in Nat, NEW load \in Nat
  PROVE  Score(recent, prior, earned, before, days, load)
           = Weighed(Silence(days), Quieter(recent, prior), Poorer(earned, before),
                     Support(load), AtLeast1(prior), AtLeast1(before))
<1>1. Score(recent, prior, earned, before, days, load)
           = Plain6(Silence(days), Quieter(recent, prior), Poorer(earned, before),
                     Support(load), AtLeast1(prior), AtLeast1(before))
  BY SMT DEF Score, Plain6, Silence, Support, AtLeast1, Quieter, Poorer
<1>2. /\ AtLeast1(prior) \in Nat /\ AtLeast1(before) \in Nat
      /\ Silence(days) \in Nat /\ Support(load) \in Nat
      /\ Quieter(recent, prior) \in Nat /\ Poorer(earned, before) \in Nat
  BY DEF Least2, Most2, Silence, Support, AtLeast1, Quieter, Poorer
<1>3. PICK s \in Nat, q \in Nat, p \in Nat, u \in Nat, P \in Nat, Q \in Nat :
         /\ s = Silence(days) /\ q = Quieter(recent, prior) /\ p = Poorer(earned, before)
         /\ u = Support(load) /\ P = AtLeast1(prior) /\ Q = AtLeast1(before)
  BY <1>2
<1>4. Plain6(s, q, p, u, P, Q) = Weighed(s, q, p, u, P, Q)
  BY WeighedOtherwise
<1> QED BY <1>1, <1>3, <1>4

(* With the month before fixed, less of each factor is no higher a score.  *)
LEMMA WeighedFalls ==
  ASSUME NEW P \in Nat, NEW Q \in Nat, P > 0, Q > 0,
         NEW s \in Nat, NEW q \in Nat, NEW p \in Nat, NEW u \in Nat,
         NEW s2 \in Nat, NEW q2 \in Nat, NEW p2 \in Nat, NEW u2 \in Nat,
         s2 <= s, q2 <= q, p2 <= p, u2 <= u
  PROVE  Weighed(s2, q2, p2, u2, P, Q) <= Weighed(s, q, p, u, P, Q)
<1>1. PICK N \in Nat : N = P * Q /\ N > 0
  BY Times
<1>2. /\ s2 * N <= s * N /\ s2 * N \in Nat /\ s * N \in Nat
      /\ q2 * Q <= q * Q /\ q2 * Q \in Nat /\ q * Q \in Nat
      /\ p2 * P <= p * P /\ p2 * P \in Nat /\ p * P \in Nat
      /\ u2 * N <= u * N /\ u2 * N \in Nat /\ u * N \in Nat
  BY Times
<1>3. PICK sN \in Nat, qQ \in Nat, pP \in Nat, uN \in Nat :
         sN = s * N /\ qQ = q * Q /\ pP = p * P /\ uN = u * N
  BY <1>2
<1>4. PICK sN2 \in Nat, qQ2 \in Nat, pP2 \in Nat, uN2 \in Nat :
         sN2 = s2 * N /\ qQ2 = q2 * Q /\ pP2 = p2 * P /\ uN2 = u2 * N
  BY <1>2
<1>5. sN2 <= sN /\ qQ2 <= qQ /\ pP2 <= pP /\ uN2 <= uN
  BY <1>2, <1>3, <1>4
<1>6. PICK a, b, k :
         /\ a = 2 * (4000 * sN2 + 162000 * qQ2 + 396000 * pP2 + 2700 * uN2) + 180 * N
         /\ b = 2 * (4000 * sN + 162000 * qQ + 396000 * pP + 2700 * uN) + 180 * N
         /\ k = 360 * N
  OBVIOUS
<1>7. a \in Nat /\ b \in Nat /\ k \in Nat /\ k > 0 /\ a <= b
  BY <1>1, <1>5, <1>6
<1>8. a \div k <= b \div k
  BY <1>7, Quotients
<1>9. Weighed(s2, q2, p2, u2, P, Q) = a \div k /\ Weighed(s, q, p, u, P, Q) = b \div k
  BY <1>1, <1>3, <1>4, <1>6, SMT DEF Weighed
<1> QED BY <1>8, <1>9, SMT

(* The factors are between 0 and their whole.                              *)
LEMMA FactorTypes ==
  /\ \A n \in Nat : /\ Silence(n) \in 0 .. 90 /\ Support(n) \in 0 .. 100
                    /\ AtLeast1(n) \in Nat /\ AtLeast1(n) > 0
  /\ \A m, n \in Nat : /\ Quieter(m, n) \in Nat /\ Quieter(m, n) <= 2 * AtLeast1(n)
                       /\ Poorer(m, n) \in Nat /\ Poorer(m, n) <= AtLeast1(n)
BY DEF Least2, Most2, Silence, Support, AtLeast1, Quieter, Poorer

(* More activity and revenue, less silence and fewer tickets: no more risk. *)
LEMMA ScoreFalls ==
  ASSUME NEW recent \in Nat, NEW prior \in Nat, NEW earned \in Nat, NEW before \in Nat,
         NEW days \in Nat, NEW load \in Nat,
         NEW recent2 \in Nat, NEW earned2 \in Nat, NEW days2 \in Nat, NEW load2 \in Nat,
         recent <= recent2, earned <= earned2, days2 <= days, load2 <= load
  PROVE  Score(recent2, prior, earned2, before, days2, load2)
           <= Score(recent, prior, earned, before, days, load)
<1>a. PICK P, Q, s, q, p, u :
         /\ P = AtLeast1(prior) /\ Q = AtLeast1(before)
         /\ s = Silence(days) /\ u = Support(load)
         /\ q = Quieter(recent, prior) /\ p = Poorer(earned, before)
  OBVIOUS
<1>1. /\ P \in Nat /\ P > 0 /\ Q \in Nat /\ Q > 0
      /\ s \in Nat /\ q \in Nat /\ p \in Nat /\ u \in Nat
  <2>1. /\ Silence(days) \in 0 .. 90 /\ Support(load) \in 0 .. 100
        /\ AtLeast1(prior) \in Nat /\ AtLeast1(prior) > 0
        /\ AtLeast1(before) \in Nat /\ AtLeast1(before) > 0
        /\ Quieter(recent, prior) \in Nat /\ Poorer(earned, before) \in Nat
    BY FactorTypes
  <2> QED BY <1>a, <2>1, SMT
<1>b. PICK s2, q2, p2, u2 :
         /\ s2 = Silence(days2) /\ u2 = Support(load2)
         /\ q2 = Quieter(recent2, prior) /\ p2 = Poorer(earned2, before)
  OBVIOUS
<1>2. s2 \in Nat /\ q2 \in Nat /\ p2 \in Nat /\ u2 \in Nat
  <2>1. /\ Silence(days2) \in 0 .. 90 /\ Support(load2) \in 0 .. 100
        /\ Quieter(recent2, prior) \in Nat /\ Poorer(earned2, before) \in Nat
    BY FactorTypes
  <2> QED BY <1>b, <2>1, SMT
<1>3. s2 <= s /\ q2 <= q /\ p2 <= p /\ u2 <= u
  BY <1>a, <1>b DEF Least2, Most2, Silence, Support, AtLeast1, Quieter, Poorer
<1>4. Score(recent, prior, earned, before, days, load) = Weighed(s, q, p, u, P, Q)
  <2>1. Score(recent, prior, earned, before, days, load)
           = Weighed(Silence(days), Quieter(recent, prior), Poorer(earned, before),
                     Support(load), AtLeast1(prior), AtLeast1(before))
    BY ScoreIsWeighed
  <2> QED BY <1>a, <2>1
<1>5. Score(recent2, prior, earned2, before, days2, load2) = Weighed(s2, q2, p2, u2, P, Q)
  <2>1. Score(recent2, prior, earned2, before, days2, load2)
           = Weighed(Silence(days2), Quieter(recent2, prior), Poorer(earned2, before),
                     Support(load2), AtLeast1(prior), AtLeast1(before))
    BY ScoreIsWeighed
  <2> QED BY <1>a, <1>b, <2>1
<1>6. Weighed(s2, q2, p2, u2, P, Q) <= Weighed(s, q, p, u, P, Q)
  BY <1>1, <1>2, <1>3, WeighedFalls
<1> QED BY <1>4, <1>5, <1>6

Scores == 0 .. 10000

(* The four weights make up 100%.                                          *)
LEMMA ScoreRange ==
  ASSUME NEW recent \in Nat, NEW prior \in Nat, NEW earned \in Nat, NEW before \in Nat,
         NEW days \in Nat, NEW load \in Nat
  PROVE  Score(recent, prior, earned, before, days, load) \in Scores
<1>a. PICK P, Q, s, q, p, u :
         /\ P = AtLeast1(prior) /\ Q = AtLeast1(before)
         /\ s = Silence(days) /\ u = Support(load)
         /\ q = Quieter(recent, prior) /\ p = Poorer(earned, before)
  OBVIOUS
<1>b. /\ P \in Nat /\ Q \in Nat /\ s \in 0 .. 90 /\ q \in Nat /\ p \in Nat /\ u \in 0 .. 100
      /\ P > 0 /\ Q > 0 /\ q <= 2 * P /\ p <= Q
  BY <1>a, FactorTypes
<1>1. /\ P > 0 /\ Q > 0 /\ q <= 2 * P /\ p <= Q
      /\ Score(recent, prior, earned, before, days, load) = Weighed(s, q, p, u, P, Q)
  <2>1. Score(recent, prior, earned, before, days, load)
           = Weighed(Silence(days), Quieter(recent, prior), Poorer(earned, before),
                     Support(load), AtLeast1(prior), AtLeast1(before))
    BY ScoreIsWeighed
  <2> QED BY <1>a, <1>b, <2>1
<1>2. PICK N \in Nat : N = P * Q /\ N > 0
  BY <1>b, Times
<1>3. /\ s * N <= 90 * N /\ s * N \in Nat
      /\ q * Q <= (2 * P) * Q /\ q * Q \in Nat
      /\ p * P <= Q * P /\ p * P \in Nat
      /\ u * N <= 100 * N /\ u * N \in Nat
  BY <1>b, Times
<1>4. (2 * P) * Q = 2 * N /\ Q * P = N
  BY <1>b, <1>2
<1>5. PICK sN \in Nat, qQ \in Nat, pP \in Nat, uN \in Nat :
         /\ sN = s * N /\ qQ = q * Q /\ pP = p * P /\ uN = u * N
         /\ sN <= 90 * N /\ qQ <= 2 * N /\ pP <= N /\ uN <= 100 * N
  BY <1>3, <1>4
<1>6. PICK a, k :
         /\ a = 2 * (4000 * sN + 162000 * qQ + 396000 * pP + 2700 * uN) + 180 * N
         /\ k = 360 * N
  OBVIOUS
<1>7. a \in Nat /\ k \in Nat /\ k > 0 /\ a < 10001 * k
  BY <1>2, <1>5, <1>6
<1>8. PICK n \in Nat : n = a \div k /\ k * n <= a
  BY <1>7, Quotient
<1>9. n <= 10000
  <2>1. CASE n > 10000
    <3>1. 10001 * k <= n * k /\ n * k = k * n
      BY <1>7, <2>1, Times
    <3> QED BY <1>7, <1>8, <3>1
  <2> QED BY <2>1
<1>10. Weighed(s, q, p, u, P, Q) = n
  BY <1>2, <1>5, <1>6, <1>8, SMT DEF Weighed
<1>11. n \in Scores
  BY <1>9, SMTT(30) DEF Scores
<1> QED BY <1>1, <1>10, <1>11

(* The rows keep their types.                                              *)
LEMMA ChurnInitTyped ==
  ChurnInit => ChurnTyped
BY ChurnAssumption DEF ChurnInit, ChurnTyped, NoActivity, NoDeal

LEMMA AgedIsAnAge ==
  ASSUME NEW age \in 0 .. MaxAge, NEW gap \in Gaps
  PROVE  Aged(age, gap) \in 0 .. MaxAge
BY ChurnAssumption DEF Aged, Least2

LEMMA ChurnStepTyped ==
  ChurnTyped /\ [ChurnNext]_churnVars => ChurnTyped'
<1> SUFFICES ASSUME ChurnTyped, [ChurnNext]_churnVars PROVE ChurnTyped'
  OBVIOUS
<1> DEFINE Act == [type : ActivityTypes, age : 0..MaxAge]
           Deal == [won : BOOLEAN, amount : Amounts, age : 0..MaxAge]
<1>0. 0 \in 0..MaxAge
  BY ChurnAssumption
<1>1. ASSUME NEW a \in ActivityIds, NEW type \in ActivityTypes,
             LogActivity(a, type) \/ RetypeActivity(a, type)
      PROVE  ChurnTyped'
  <2>1. [type |-> type, age |-> 0] \in Act
    BY <1>0
  <2>2. logged[a] # NoActivity => [logged[a] EXCEPT !.type = type] \in Act
    BY DEF ChurnTyped
  <2>3. \/ logged' = [logged EXCEPT ![a] = [type |-> type, age |-> 0]]
        \/ logged' = [logged EXCEPT ![a] = [logged[a] EXCEPT !.type = type]]
           /\ logged[a] # NoActivity
    BY <1>1 DEF LogActivity, RetypeActivity
  <2>4. logged' \in [ActivityIds -> {NoActivity} \cup Act]
    <3> HIDE DEF Act
    <3>1. logged \in [ActivityIds -> {NoActivity} \cup Act]
      BY DEF ChurnTyped, Act
    <3> QED BY <2>1, <2>2, <2>3, <3>1
  <2> QED BY <1>1, <2>4 DEF ChurnTyped, LogActivity, RetypeActivity
<1>2. ASSUME NEW a \in ActivityIds, DeleteActivity(a) PROVE ChurnTyped'
  BY <1>2 DEF ChurnTyped, DeleteActivity
<1>3. ASSUME NEW d \in DealIds, NEW amount \in Amounts, NEW won \in BOOLEAN,
             UpdateDeal(d, amount, won)
      PROVE  ChurnTyped'
  <2>1. deals[d] # NoDeal
    BY <1>3 DEF UpdateDeal
  <2>2. deals[d] \in Deal
    BY <2>1 DEF ChurnTyped
  <2>3. [[deals[d] EXCEPT !.amount = amount] EXCEPT !.won = won] \in Deal
    BY <2>2
  <2>4. \A e \in DealIds : deals'[e] \in {NoDeal} \cup Deal
    <3> TAKE e \in DealIds
    <3>1. CASE e # d
      BY <1>3, <3>1 DEF UpdateDeal, ChurnTyped
    <3>2. CASE e = d
      BY <1>3, <2>2, <3>2 DEF UpdateDeal, ChurnTyped
    <3> QED BY <3>1, <3>2
  <2>5. deals' \in [DealIds -> {NoDeal} \cup Deal]
    <3>1. deals' = [e \in DealIds |-> deals'[e]]
      BY <1>3 DEF UpdateDeal, ChurnTyped
    <3> QED BY <2>4, <3>1
  <2> QED BY <1>3, <2>5 DEF ChurnTyped, UpdateDeal
<1>4. ASSUME NEW d \in DealIds, NEW amount \in Amounts, NEW won \in BOOLEAN,
             NEW age \in {0, since}, AddDeal(d, amount, won, age)
      PROVE  ChurnTyped'
  BY <1>0, <1>4 DEF ChurnTyped, AddDeal
<1>5. ASSUME NEW d \in DealIds, MoveDeal(d) PROVE ChurnTyped'
  BY <1>5 DEF ChurnTyped, MoveDeal
<1>6. ASSUME NEW c \in CaseIds, NEW status \in {"open", "settled"}, ChangeCase(c, status)
      PROVE  ChurnTyped'
  BY <1>6 DEF ChurnTyped, ChangeCase
<1>7. ASSUME NEW gap \in Gaps, DaysPass(gap) PROVE ChurnTyped'
  <2>1. since' \in 0 .. MaxAge
    BY <1>7, AgedIsAnAge DEF DaysPass, ChurnTyped
  <2>2. ASSUME NEW a \in ActivityIds PROVE logged'[a] \in {NoActivity} \cup Act
    <3>1. CASE logged[a] = NoActivity
      BY <1>7, <3>1 DEF DaysPass
    <3>2. CASE logged[a] # NoActivity
      <4>1. logged[a] \in Act
        BY <3>2 DEF ChurnTyped
      <4>2. logged'[a] = [logged[a] EXCEPT !.age = Aged(logged[a].age, gap)]
        BY <1>7, <3>2 DEF DaysPass
      <4>3. Aged(logged[a].age, gap) \in 0 .. MaxAge
        BY <4>1, AgedIsAnAge
      <4> QED BY <4>1, <4>2, <4>3
    <3> QED BY <3>1, <3>2
  <2>3. ASSUME NEW d \in DealIds PROVE deals'[d] \in {NoDeal} \cup Deal
    <3>1. CASE deals[d] = NoDeal
      BY <1>7, <3>1 DEF DaysPass
    <3>2. CASE deals[d] # NoDeal
      <4>1. deals[d] \in Deal
        BY <3>2 DEF ChurnTyped
      <4>2. deals'[d] = [deals[d] EXCEPT !.age = Aged(deals[d].age, gap)]
        BY <1>7, <3>2 DEF DaysPass
      <4>3. Aged(deals[d].age, gap) \in 0 .. MaxAge
        BY <4>1, AgedIsAnAge
      <4> QED BY <4>1, <4>2, <4>3
    <3> QED BY <3>1, <3>2
  <2>4. logged' = [a \in ActivityIds |-> logged'[a]] /\ deals' = [d \in DealIds |-> deals'[d]]
    BY <1>7 DEF DaysPass
  <2>5. cases' = cases
    BY <1>7 DEF DaysPass
  <2>6. logged' \in [ActivityIds -> {NoActivity} \cup Act] /\ deals' \in [DealIds -> {NoDeal} \cup Deal]
    <3> HIDE DEF Act, Deal
    <3> QED BY <2>2, <2>3, <2>4
  <2> QED BY <2>1, <2>5, <2>6 DEF ChurnTyped
<1>8. CASE UNCHANGED churnVars
  BY <1>8 DEF ChurnTyped, churnVars
<1> QED BY <1>1, <1>2, <1>3, <1>4, <1>5, <1>6, <1>7, <1>8 DEF ChurnNext

(* What better business changes in the rows: what was there is there still *)
(* and is as old, and what is new is of today.                             *)
LEMMA BetterRows ==
  ASSUME ChurnTyped, ChurnTyped', ChurnNext, BetterBusiness
  PROVE  /\ \A a \in ActivityIds :
              logged'[a] = logged[a] \/ (logged[a] = NoActivity /\ logged'[a].age = 0)
         /\ \A d \in DealIds :
              \/ deals'[d] = deals[d]
              \/ deals[d].age = -1 /\ ~deals[d].won /\ deals'[d].age = 0
              \/ /\ deals[d].age \in 0 .. 90 /\ deals'[d].age = deals[d].age
                 /\ deals'[d].amount = deals[d].amount /\ deals'[d].won
<1>1. ASSUME NEW a \in ActivityIds, logged'[a] # logged[a]
      PROVE  logged[a] = NoActivity /\ logged'[a].age = 0
  <2>1. logged[a] = NoActivity
    BY <1>1 DEF BetterBusiness
  <2>2. \A gap \in Gaps : ~DaysPass(gap)
    BY <1>1, <2>1 DEF DaysPass
  <2>3. \A b \in ActivityIds : ~DeleteActivity(b)
    BY <1>1, <2>1 DEF DeleteActivity, ChurnTyped
  <2>4. \A b \in ActivityIds, type \in ActivityTypes : ~RetypeActivity(b, type)
    BY <1>1, <2>1 DEF RetypeActivity, ChurnTyped
  <2>5. \A b \in ActivityIds, type \in ActivityTypes : LogActivity(b, type) => logged'[a].age = 0
    BY <1>1, <2>1 DEF LogActivity, ChurnTyped
  <2>6. logged' # logged
    BY <1>1
  <2> QED BY <2>1, <2>2, <2>3, <2>4, <2>5, <2>6
          DEF ChurnNext, AddDeal, UpdateDeal, MoveDeal, ChangeCase
<1>2. ASSUME NEW d \in DealIds, deals'[d] # deals[d]
      PROVE  \/ deals[d].age = -1 /\ ~deals[d].won /\ deals'[d].age = 0
             \/ /\ deals[d].age \in 0 .. 90 /\ deals'[d].age = deals[d].age
                /\ deals'[d].amount = deals[d].amount /\ deals'[d].won
  <2>1. CASE deals[d] = NoDeal /\ deals'[d].age = 0
    BY <2>1 DEF NoDeal
  <2>2. CASE deals[d].age <= 90 /\ deals'[d] = [deals[d] EXCEPT !.won = TRUE]
    <3>1. CASE deals[d] = NoDeal
      <4>1. deals'[d].age = -1 /\ deals'[d].won
        BY <2>2, <3>1 DEF NoDeal
      <4>2. deals'[d] = NoDeal \/ deals'[d].age \in 0 .. MaxAge
        BY DEF ChurnTyped
      <4> QED BY <4>1, <4>2, ChurnAssumption DEF NoDeal
    <3>2. CASE deals[d] # NoDeal
      <4>1. deals[d] \in [won : BOOLEAN, amount : Amounts, age : 0..MaxAge]
        BY <3>2 DEF ChurnTyped
      <4> QED BY <2>2, <4>1, ChurnAssumption
    <3> QED BY <3>1, <3>2
  <2> QED BY <1>2, <2>1, <2>2 DEF BetterBusiness
<1> QED BY <1>1, <1>2

(* So the activities and the deals of the last month grow, those of the    *)
(* month before stay, and the least age of what there is falls.            *)
LEMMA BetterActivities ==
  ASSUME ChurnTyped, ChurnTyped', ChurnNext, BetterBusiness
  PROVE  /\ Logged(Month) \subseteq Logged(Month)'
         /\ Logged(0..MaxAge) \subseteq Logged(0..MaxAge)'
         /\ \A a \in Logged(0..MaxAge)' : a \in Logged(0..MaxAge) \/ logged'[a].age = 0
         /\ \A a \in Logged(0..MaxAge) : logged'[a] = logged[a]
         /\ Logged(MonthBefore)' = Logged(MonthBefore)
<1>1. \A a \in ActivityIds :
         logged'[a] = logged[a] \/ (logged[a] = NoActivity /\ logged'[a].age = 0)
  BY BetterRows
<1> QED BY <1>1 DEF Logged, Month, MonthBefore

LEMMA BetterDeals ==
  ASSUME ChurnTyped, ChurnTyped', ChurnNext, BetterBusiness
  PROVE  /\ \A d \in DealsAged(Month) : d \in DealsAged(Month)' /\ deals'[d].amount = deals[d].amount
         /\ \A d \in DealsAged(MonthBefore) :
               d \in DealsAged(MonthBefore)' /\ deals'[d].amount = deals[d].amount
         /\ \A d \in DealsAged(MonthBefore)' :
               d \in DealsAged(MonthBefore) /\ deals'[d].amount = deals[d].amount
<1>1. \A d \in DealIds :
         \/ deals'[d] = deals[d]
         \/ deals[d].age = -1 /\ ~deals[d].won /\ deals'[d].age = 0
         \/ /\ deals[d].age \in 0 .. 90 /\ deals'[d].age = deals[d].age
            /\ deals'[d].amount = deals[d].amount /\ deals'[d].won
  BY BetterRows
<1> QED BY <1>1 DEF DealsAged, Month, MonthBefore

DealRows == [DealIds -> {NoDeal} \cup [won : BOOLEAN, amount : Amounts, age : 0..MaxAge]]

LEMMA AmountsAreNats ==
  ASSUME NEW r \in DealRows
  PROVE  [d \in DealIds |-> r[d].amount] \in [DealIds -> Nat]
<1> SUFFICES ASSUME NEW d \in DealIds PROVE r[d].amount \in Nat
  OBVIOUS
<1>1. r[d] = NoDeal \/ r[d].amount \in Amounts
  BY DEF DealRows
<1>2. NoDeal.amount = 0
  BY DEF NoDeal
<1>3. Amounts \subseteq Nat
  BY ChurnAssumption
<1>4. CASE r[d] = NoDeal
  <2>1. r[d].amount = NoDeal.amount
    BY <1>4
  <2> QED BY <1>2, <2>1
<1>5. CASE r[d].amount \in Amounts
  BY <1>3, <1>5
<1> QED BY <1>1, <1>4, <1>5

LEMMA SumCountsUnits ==
  ASSUME NEW r \in DealRows, NEW w, w = [d \in DealIds |-> r[d].amount], NEW S \in SUBSET DealIds
  PROVE  SumOf(r, S) = Cardinality(Units(w, S)) /\ SumOf(r, S) \in Nat
<1>1. w \in [DealIds -> Nat] /\ IsFiniteSet(DealIds)
  BY AmountsAreNats, ChurnAssumption
<1>2. \A d \in DealIds : w[d] = r[d].amount
  OBVIOUS
<1>3. SumOf(r, S) = Cardinality(Units(w, S))
  BY <1>1, <1>2, FoldCountsUnits
<1>4. Cardinality(Units(w, S)) \in Nat
  BY <1>1, UnitsOf
<1> QED BY <1>3, <1>4

LEMMA BetterRevenue ==
  ASSUME ChurnTyped, ChurnTyped', ChurnNext, BetterBusiness
  PROVE  /\ Revenue(Month) <= Revenue(Month)' /\ Revenue(MonthBefore)' = Revenue(MonthBefore)
         /\ Revenue(Month) \in Nat /\ Revenue(Month)' \in Nat /\ Revenue(MonthBefore) \in Nat
<1>1. PICK w, v : /\ w = [d \in DealIds |-> deals[d].amount]
                  /\ v = [d \in DealIds |-> deals'[d].amount]
  OBVIOUS
<1>2. w \in [DealIds -> Nat] /\ v \in [DealIds -> Nat] /\ IsFiniteSet(DealIds)
  <2>1. deals \in DealRows /\ deals' \in DealRows
    BY DEF ChurnTyped, DealRows
  <2> QED BY <1>1, <2>1, AmountsAreNats, ChurnAssumption
<1>3. /\ DealsAged(Month) \in SUBSET DealIds /\ DealsAged(Month)' \in SUBSET DealIds
      /\ DealsAged(MonthBefore) \in SUBSET DealIds /\ DealsAged(MonthBefore)' \in SUBSET DealIds
  BY DEF DealsAged
<1>4. /\ \A d \in DealsAged(Month) : d \in DealsAged(Month)' /\ w[d] = v[d]
      /\ \A d \in DealsAged(MonthBefore) : d \in DealsAged(MonthBefore)' /\ w[d] = v[d]
      /\ \A d \in DealsAged(MonthBefore)' : d \in DealsAged(MonthBefore) /\ v[d] = w[d]
  BY <1>1, <1>3, BetterDeals
<1>5. PICK R, R2, S, S2 : /\ R = DealsAged(Month) /\ R2 = DealsAged(Month)'
                          /\ S = DealsAged(MonthBefore) /\ S2 = DealsAged(MonthBefore)'
  OBVIOUS
<1>6. Cardinality(Units(w, R)) <= Cardinality(Units(v, R2))
  BY <1>2, <1>3, <1>4, <1>5, MoreUnits
<1>7. Cardinality(Units(w, S)) <= Cardinality(Units(v, S2))
  BY <1>2, <1>3, <1>4, <1>5, MoreUnits
<1>8. Cardinality(Units(v, S2)) <= Cardinality(Units(w, S))
  BY <1>2, <1>3, <1>4, <1>5, MoreUnits
<1>9. /\ Cardinality(Units(w, S)) \in Nat /\ Cardinality(Units(v, S2)) \in Nat
      /\ Cardinality(Units(w, R)) \in Nat /\ Cardinality(Units(v, R2)) \in Nat
  BY <1>2, <1>3, <1>5, UnitsOf
<1>10. Revenue(Month) = SumOf(deals, R) /\ Revenue(MonthBefore) = SumOf(deals, S)
  BY <1>5 DEF Revenue, SumOf
<1>11. Revenue(Month)' = SumOf(deals', R2) /\ Revenue(MonthBefore)' = SumOf(deals', S2)
  <2>1. Revenue(Month)' = SumOf(deals', DealsAged(Month)')
    BY DEF Revenue, SumOf, MapThenSumSet, MapThenFoldSet
  <2>2. Revenue(MonthBefore)' = SumOf(deals', DealsAged(MonthBefore)')
    BY DEF Revenue, SumOf, MapThenSumSet, MapThenFoldSet
  <2> QED BY <1>5, <2>1, <2>2
<1>12. SumOf(deals, R) = Cardinality(Units(w, R)) /\ SumOf(deals, S) = Cardinality(Units(w, S))
  <2>1. deals \in DealRows
    BY DEF ChurnTyped, DealRows
  <2> QED BY <1>1, <1>3, <1>5, <2>1, SumCountsUnits
<1>13. SumOf(deals', R2) = Cardinality(Units(v, R2)) /\ SumOf(deals', S2) = Cardinality(Units(v, S2))
  <2>1. deals' \in DealRows
    BY DEF ChurnTyped, DealRows
  <2> QED BY <1>1, <1>3, <1>5, <2>1, SumCountsUnits
<1> QED BY <1>6, <1>7, <1>8, <1>9, <1>10, <1>11, <1>12, <1>13

(* A part of a finite set is no larger.                                    *)
LEMMA FewerOf ==
  ASSUME NEW D, IsFiniteSet(D), NEW S, NEW T, S \subseteq T, T \subseteq D
  PROVE  /\ Cardinality(S) <= Cardinality(T) /\ Cardinality(S) \in Nat /\ Cardinality(T) \in Nat
<1>1. IsFiniteSet(T)
  BY FS_Subset
<1>2. IsFiniteSet(S) /\ Cardinality(S) <= Cardinality(T)
  BY <1>1, FS_Subset
<1> QED BY <1>1, <1>2, FS_CardinalityType

(* The least of more is no more; a default stands in for none.             *)
LeastOr(none, S) == IF S = {} THEN none ELSE Min(S)

LEMMA LeastFalls ==
  ASSUME NEW S, NEW T, S \subseteq T, T \subseteq Nat, NEW none \in Nat,
         \A x \in T : x \in S \/ x <= none
  PROVE  LeastOr(none, T) <= LeastOr(none, S) /\ LeastOr(none, T) \in Nat /\ LeastOr(none, S) \in Nat
<1>1. CASE T = {}
  BY <1>1 DEF LeastOr
<1>2. CASE T # {} /\ S = {}
  <2>1. Min(T) \in T
    BY <1>2, LeastOfNats
  <2> QED BY <1>2, <2>1 DEF LeastOr
<1>3. CASE S # {}
  <2>1. Min(T) \in T /\ \A x \in T : Min(T) <= x
    BY <1>3, LeastOfNats
  <2>2. Min(S) \in S
    BY <1>3, LeastOfNats
  <2> QED BY <1>3, <2>1, <2>2 DEF LeastOr
<1> QED BY <1>1, <1>2, <1>3

LEMMA BetterSilence ==
  ASSUME ChurnTyped, ChurnTyped', ChurnNext, BetterBusiness
  PROVE  DaysSilent' <= DaysSilent /\ DaysSilent \in Nat /\ DaysSilent' \in Nat
<1>1. PICK S, T : /\ S = {logged[a].age : a \in Logged(0..MaxAge)}
                  /\ T = {logged'[a].age : a \in Logged(0..MaxAge)'}
  OBVIOUS
<1>2. S \subseteq T
  <2>1. \A a \in Logged(0..MaxAge) : a \in Logged(0..MaxAge)' /\ logged'[a] = logged[a]
    BY BetterActivities
  <2> QED BY <1>1, <2>1
<1>3. T \subseteq Nat
  BY <1>1, ChurnAssumption DEF Logged
<1>4. since \in Nat /\ since' = since
  BY ChurnAssumption DEF ChurnTyped, BetterBusiness
<1>5. \A x \in T : x \in S \/ x <= since
  <2> TAKE x \in T
  <2>1. PICK a \in Logged(0..MaxAge)' : x = logged'[a].age
    BY <1>1
  <2>2. CASE a \in Logged(0..MaxAge)
    <3>1. logged'[a] = logged[a]
      BY <2>2, BetterActivities
    <3> QED BY <1>1, <2>1, <2>2, <3>1
  <2>3. CASE logged'[a].age = 0
    BY <1>4, <2>1, <2>3
  <2> QED BY <2>1, <2>2, <2>3, BetterActivities
<1>6. DaysSilent = LeastOr(since, S)
  <2>1. S = {} <=> Logged(0..MaxAge) = {}
    BY <1>1
  <2> QED BY <1>1, <2>1 DEF DaysSilent, LeastOr
<1>7. DaysSilent' = LeastOr(since, T)
  <2>1. T = {} <=> Logged(0..MaxAge)' = {}
    BY <1>1
  <2>2. DaysSilent' = IF Logged(0..MaxAge)' = {} THEN since' ELSE Min({logged'[a].age : a \in Logged(0..MaxAge)'})
    BY DEF DaysSilent
  <2> QED BY <1>1, <1>4, <2>1, <2>2 DEF LeastOr
<1> QED BY <1>2, <1>3, <1>4, <1>5, <1>6, <1>7, LeastFalls

LEMMA BetterLogins ==
  ASSUME ChurnTyped, ChurnTyped', ChurnNext, BetterBusiness
  PROVE  /\ Cardinality(Logged(Month)) <= Cardinality(Logged(Month)')
         /\ Cardinality(Logged(Month)) \in Nat /\ Cardinality(Logged(Month)') \in Nat
         /\ Cardinality(Burden') <= Cardinality(Burden)
         /\ Cardinality(Burden) \in Nat /\ Cardinality(Burden') \in Nat
<1>1. Logged(Month) \subseteq Logged(Month)' /\ Logged(Month)' \subseteq ActivityIds
  BY BetterActivities DEF Logged
<1>2. Burden' \subseteq Burden /\ Burden \subseteq CaseIds
  BY DEF BetterBusiness, Burden
<1>3. IsFiniteSet(ActivityIds) /\ IsFiniteSet(CaseIds)
  BY ChurnAssumption
<1>4. PICK S, T : S = Logged(Month) /\ T = Logged(Month)'
  OBVIOUS
<1>5. Cardinality(S) <= Cardinality(T) /\ Cardinality(S) \in Nat /\ Cardinality(T) \in Nat
  BY <1>1, <1>3, <1>4, FewerOf
<1>6. PICK B, C : B = Burden' /\ C = Burden
  OBVIOUS
<1>7. Cardinality(B) <= Cardinality(C) /\ Cardinality(B) \in Nat /\ Cardinality(C) \in Nat
  BY <1>2, <1>3, <1>6, FewerOf
<1> QED BY <1>4, <1>5, <1>6, <1>7

(* Hence the copilot's score, and the risk at the HTTP endpoint.           *)
LEMMA BetterScore ==
  ASSUME ChurnTyped, ChurnTyped', ChurnNext, BetterBusiness
  PROVE  ChurnScore' <= ChurnScore /\ ChurnScore \in Nat /\ ChurnScore' \in Nat
<1>1. PICK r, r2, q, e, e2, b, s, s2, u, u2 :
         /\ r = Cardinality(Logged(Month)) /\ r2 = Cardinality(Logged(Month)')
         /\ q = Cardinality(Logged(MonthBefore))
         /\ e = Revenue(Month) /\ e2 = Revenue(Month)' /\ b = Revenue(MonthBefore)
         /\ s = DaysSilent /\ s2 = DaysSilent' /\ u = Cardinality(Burden) /\ u2 = Cardinality(Burden')
  OBVIOUS
<1>2. ChurnScore = Score(r, q, e, b, s, u)
  BY <1>1, ChurnScoreIsScore
<1>3. ChurnScore' = Score(r2, q, e2, b, s2, u2)
  <2>1. Logged(MonthBefore)' = Logged(MonthBefore) /\ Revenue(MonthBefore)' = Revenue(MonthBefore)
    BY BetterActivities, BetterRevenue
  <2>2. ChurnScore' = Score(Cardinality(Logged(Month)'), Cardinality(Logged(MonthBefore)'),
                     Revenue(Month)', Revenue(MonthBefore)', DaysSilent', Cardinality(Burden'))
    BY DEF ChurnScore, Score
  <2> QED BY <1>1, <2>1, <2>2
<1>4. r \in Nat /\ r2 \in Nat /\ r <= r2 /\ u \in Nat /\ u2 \in Nat /\ u2 <= u
  BY <1>1, BetterLogins
<1>5. s \in Nat /\ s2 \in Nat /\ s2 <= s
  BY <1>1, BetterSilence
<1>6. q \in Nat
  <2>1. Logged(MonthBefore) \subseteq ActivityIds
    BY DEF Logged
  <2> QED BY <1>1, <2>1, ChurnAssumption, FewerOf
<1>7. e \in Nat /\ e2 \in Nat /\ e <= e2 /\ b \in Nat
  BY <1>1, BetterRevenue
<1>8. PICK c, d : c = Score(r, q, e, b, s, u) /\ d = Score(r2, q, e2, b, s2, u2)
  OBVIOUS
<1>9. d <= c
  <2>1. Score(r2, q, e2, b, s2, u2) <= Score(r, q, e, b, s, u)
    BY <1>4, <1>5, <1>6, <1>7, ScoreFalls
  <2> QED BY <1>8, <2>1
<1>10. c \in Scores
  <2>1. Score(r, q, e, b, s, u) \in Scores
    BY <1>4, <1>5, <1>6, <1>7, ScoreRange
  <2> QED BY <1>8, <2>1
<1>11. d \in Scores
  <2>1. Score(r2, q, e2, b, s2, u2) \in Scores
    BY <1>4, <1>5, <1>6, <1>7, ScoreRange
  <2> QED BY <1>8, <2>1
<1>12. ChurnScore = c /\ ChurnScore' = d
  BY <1>2, <1>3, <1>8
<1> QED BY <1>9, <1>10, <1>11, <1>12, SMT DEF Scores

(* The ages of the deals that are won, and the kinds of activity.          *)
WonAges == {deals[d].age : d \in {d \in DealsAged(0..MaxAge) : deals[d].won}}
Kinds == {logged[a].type : a \in Logged(Month)}

LEMMA BetterPurchases ==
  ASSUME ChurnTyped, ChurnTyped', ChurnNext, BetterBusiness
  PROVE  /\ LeastOr(90, WonAges') <= LeastOr(90, WonAges)
         /\ LeastOr(90, WonAges) \in Nat /\ LeastOr(90, WonAges') \in Nat
<1>1. \A d \in DealIds :
         \/ deals'[d] = deals[d]
         \/ deals[d].age = -1 /\ ~deals[d].won /\ deals'[d].age = 0
         \/ /\ deals[d].age \in 0 .. 90 /\ deals'[d].age = deals[d].age
            /\ deals'[d].amount = deals[d].amount /\ deals'[d].won
  BY BetterRows
<1>2. PICK S, T : S = WonAges /\ T = WonAges'
  OBVIOUS
<1>3. \A x : x \in S <=> \E d \in DealIds : x = deals[d].age /\ x \in 0..MaxAge /\ deals[d].won
  BY <1>2 DEF WonAges, DealsAged
<1>4. \A x : x \in T <=> \E d \in DealIds : x = deals'[d].age /\ x \in 0..MaxAge /\ deals'[d].won
  BY <1>2 DEF WonAges, DealsAged
<1>5. S \subseteq T
  <2> SUFFICES ASSUME NEW x \in S PROVE x \in T
    OBVIOUS
  <2>1. PICK d \in DealIds : x = deals[d].age /\ x \in 0..MaxAge /\ deals[d].won
    BY <1>3
  <2>2. deals'[d].age = x /\ deals'[d].won
    BY <1>1, <2>1
  <2> QED BY <1>4, <2>1, <2>2
<1>6. T \subseteq Nat
  BY <1>4, ChurnAssumption
<1>7. \A x \in T : x \in S \/ x <= 90
  <2> TAKE x \in T
  <2>1. PICK d \in DealIds : x = deals'[d].age /\ x \in 0..MaxAge /\ deals'[d].won
    BY <1>4
  <2>2. CASE deals'[d] = deals[d]
    BY <1>3, <2>1, <2>2
  <2>3. CASE deals'[d] # deals[d]
    BY <1>1, <2>1, <2>3
  <2> QED BY <2>2, <2>3
<1>8. PICK n \in Nat : n = 90
  OBVIOUS
<1>9. LeastOr(n, T) <= LeastOr(n, S) /\ LeastOr(n, T) \in Nat /\ LeastOr(n, S) \in Nat
  BY <1>5, <1>6, <1>7, <1>8, LeastFalls
<1> QED BY <1>2, <1>8, <1>9

LEMMA BetterKinds ==
  ASSUME ChurnTyped, ChurnTyped', ChurnNext, BetterBusiness
  PROVE  /\ Cardinality(Kinds) <= Cardinality(Kinds')
         /\ Cardinality(Kinds) \in Nat /\ Cardinality(Kinds') \in Nat
<1>1. PICK A, f, K : /\ A = Logged(Month)' /\ K = Kinds'
                     /\ f = [a \in Logged(Month)' |-> logged'[a].type]
  OBVIOUS
<1>2. IsFiniteSet(A)
  <2>1. A \subseteq ActivityIds
    BY <1>1 DEF Logged
  <2> QED BY <2>1, ChurnAssumption, FS_Subset
<1>3. f \in Surjection(A, K)
  BY <1>1 DEF Kinds, Surjection
<1>4. IsFiniteSet(K)
  BY <1>2, <1>3, FS_Surjection
<1>5. Kinds \subseteq K
  <2>1. \A a \in Logged(Month) : a \in Logged(Month)' /\ logged'[a].type = logged[a].type
    <3>1. \A a \in Logged(Month) : a \in Logged(Month)' /\ a \in Logged(0..MaxAge)
      BY BetterActivities, ChurnAssumption DEF Logged, Month
    <3>2. \A a \in Logged(0..MaxAge) : logged'[a] = logged[a]
      BY BetterActivities
    <3> QED BY <3>1, <3>2
  <2> QED BY <1>1, <2>1 DEF Kinds
<1>6. PICK J : J = Kinds
  OBVIOUS
<1>7. Cardinality(J) <= Cardinality(K) /\ Cardinality(J) \in Nat /\ Cardinality(K) \in Nat
  BY <1>4, <1>5, <1>6, FewerOf
<1> QED BY <1>1, <1>6, <1>7

(* Health in the same way, as a function of four numbers.                  *)
Wellness(logins, silence, load, kinds) ==
    25 * ( Least2(10 * logins, 100) + Most2(0, 100 - silence)
         + Most2(0, 100 - Least2(20 * load, 100)) + Least2(20 * kinds, 100))

LEMMA HealthIsWellness ==
  /\ Health = Wellness(Cardinality(Logged(Month)), LeastOr(90, WonAges), Cardinality(Burden), Cardinality(Kinds))
  /\ Health' = Wellness(Cardinality(Logged(Month)'), LeastOr(90, WonAges'), Cardinality(Burden'), Cardinality(Kinds'))
BY DEF Health, Wellness, LoginHealth, PurchaseHealth, SupportHealth, EngagementHealth, LeastOr,
       WonAges, Kinds

LEMMA BatchIsAlike ==
  BatchRisk = Risk /\ BatchRisk' = Risk'
BY SMTT(60) DEF BatchRisk, BatchMetrics, Risk, Health, LoginHealth, PurchaseHealth, SupportHealth, EngagementHealth

Share(l, p, t, e) == 25 * (l + p + t + e)

LEMMA FourShares ==
  ASSUME NEW l \in Nat, NEW p \in Nat, NEW t \in Nat, NEW e \in Nat,
         NEW l2 \in Nat, NEW p2 \in Nat, NEW t2 \in Nat, NEW e2 \in Nat,
         l <= l2, p <= p2, t <= t2, e <= e2, l2 <= 100, p2 <= 100, t2 <= 100, e2 <= 100
  PROVE  /\ Share(l, p, t, e) \in Scores /\ Share(l2, p2, t2, e2) \in Scores
         /\ Share(l, p, t, e) <= Share(l2, p2, t2, e2)
BY SMT DEF Share, Scores

LEMMA WellnessGrows ==
  ASSUME NEW r \in Nat, NEW r2 \in Nat, NEW s \in Nat, NEW s2 \in Nat,
         NEW u \in Nat, NEW u2 \in Nat, NEW k \in Nat, NEW k2 \in Nat,
         r <= r2, s2 <= s, u2 <= u, k <= k2
  PROVE  /\ Wellness(r, s, u, k) <= Wellness(r2, s2, u2, k2)
         /\ Wellness(r, s, u, k) \in Scores /\ Wellness(r2, s2, u2, k2) \in Scores
<1>1. PICK l, p, t, e : /\ l = Least2(10 * r, 100) /\ p = Most2(0, 100 - s)
                        /\ t = Most2(0, 100 - Least2(20 * u, 100)) /\ e = Least2(20 * k, 100)
  OBVIOUS
<1>2. PICK l2, p2, t2, e2 : /\ l2 = Least2(10 * r2, 100) /\ p2 = Most2(0, 100 - s2)
                            /\ t2 = Most2(0, 100 - Least2(20 * u2, 100)) /\ e2 = Least2(20 * k2, 100)
  OBVIOUS
<1>3. l \in Nat /\ l2 \in Nat /\ l <= l2 /\ l2 <= 100
  BY <1>1, <1>2, SMT DEF Least2
<1>4. p \in Nat /\ p2 \in Nat /\ p <= p2 /\ p2 <= 100
  BY <1>1, <1>2, SMT DEF Most2
<1>5. t \in Nat /\ t2 \in Nat /\ t <= t2 /\ t2 <= 100
  BY <1>1, <1>2, SMT DEF Least2, Most2
<1>6. e \in Nat /\ e2 \in Nat /\ e <= e2 /\ e2 <= 100
  BY <1>1, <1>2, SMT DEF Least2
<1>7. Wellness(r, s, u, k) = Share(l, p, t, e) /\ Wellness(r2, s2, u2, k2) = Share(l2, p2, t2, e2)
  BY <1>1, <1>2, SMT DEF Wellness, Share
<1>8. /\ Share(l, p, t, e) \in Scores /\ Share(l2, p2, t2, e2) \in Scores
      /\ Share(l, p, t, e) <= Share(l2, p2, t2, e2)
  BY <1>3, <1>4, <1>5, <1>6, FourShares
<1> QED BY <1>7, <1>8

LEMMA BetterRisk ==
  ASSUME ChurnTyped, ChurnTyped', ChurnNext, BetterBusiness
  PROVE  Risk' <= Risk /\ Risk \in Nat /\ Risk' \in Nat
<1>1. PICK r, r2, s, s2, u, u2, k, k2 :
         /\ r = Cardinality(Logged(Month)) /\ r2 = Cardinality(Logged(Month)')
         /\ s = LeastOr(90, WonAges) /\ s2 = LeastOr(90, WonAges')
         /\ u = Cardinality(Burden) /\ u2 = Cardinality(Burden')
         /\ k = Cardinality(Kinds) /\ k2 = Cardinality(Kinds')
  OBVIOUS
<1>2. r \in Nat /\ r2 \in Nat /\ r <= r2 /\ u \in Nat /\ u2 \in Nat /\ u2 <= u
  BY <1>1, BetterLogins
<1>3. s \in Nat /\ s2 \in Nat /\ s2 <= s
  BY <1>1, BetterPurchases
<1>4. k \in Nat /\ k2 \in Nat /\ k <= k2
  BY <1>1, BetterKinds
<1>5. PICK h, g : h = Wellness(r, s, u, k) /\ g = Wellness(r2, s2, u2, k2)
  OBVIOUS
<1>6. h <= g /\ h \in Scores /\ g \in Scores
  BY <1>2, <1>3, <1>4, <1>5, WellnessGrows
<1>7. Health = h /\ Health' = g
  BY <1>1, <1>5, HealthIsWellness
<1> QED BY <1>6, <1>7, SMT DEF Risk, Scores

LEMMA TierFalls ==
  ASSUME NEW m \in Nat, NEW n \in Nat, m <= n
  PROVE  Tier(m) <= Tier(n)
BY SMT DEF Tier

(* For any activities, deals and tickets, amounts and gaps of days, neither *)
(* churn score nor its level goes up when there is only better business,   *)
(* and a customer has the same risk alone and in a batch.                  *)
THEOREM BetterBusinessNeverMoreRisk ==
  ChurnSpec => BetterBusinessLessRisk
<1>1. ASSUME ChurnTyped, ChurnTyped', [ChurnNext]_churnVars
      PROVE  [churnVars' # churnVars /\ BetterBusiness =>
          /\ ChurnScore' <= ChurnScore /\ Tier(ChurnScore') <= Tier(ChurnScore)
          /\ Risk' <= Risk /\ Tier(Risk') <= Tier(Risk)
          /\ BatchRisk' = Risk']_churnVars
  <2> SUFFICES ASSUME churnVars' # churnVars, BetterBusiness
               PROVE  /\ ChurnScore' <= ChurnScore /\ Tier(ChurnScore') <= Tier(ChurnScore)
                      /\ Risk' <= Risk /\ Tier(Risk') <= Tier(Risk)
                      /\ BatchRisk' = Risk'
    OBVIOUS
  <2>1. ChurnNext
    BY <1>1
  <2>2. ChurnScore' <= ChurnScore /\ ChurnScore \in Nat /\ ChurnScore' \in Nat
    BY <1>1, <2>1, BetterScore
  <2>3. Risk' <= Risk /\ Risk \in Nat /\ Risk' \in Nat
    BY <1>1, <2>1, BetterRisk
  <2>4. Tier(ChurnScore') <= Tier(ChurnScore) /\ Tier(Risk') <= Tier(Risk)
    BY <2>2, <2>3, TierFalls
  <2> QED BY <2>2, <2>3, <2>4, BatchIsAlike
<1>2. ChurnSpec => []ChurnTyped
  BY ChurnInitTyped, ChurnStepTyped, PTL DEF ChurnSpec
<1> QED BY <1>1, <1>2, PTL DEF ChurnSpec, BetterBusinessLessRisk

LEMMA ScoreIsOfHealth ==
  Health \in Scores => Risk \in Scores
BY SMT DEF Risk, Scores

(* Both scores, of any rows.                                               *)
LEMMA ScoresInRange ==
  ChurnTyped => ChurnScore \in Scores /\ Risk \in Scores
<1> SUFFICES ASSUME ChurnTyped PROVE ChurnScore \in Scores /\ Risk \in Scores
  OBVIOUS
<1>1. PICK r, q, e, b, s, u, a, k :
         /\ r = Cardinality(Logged(Month)) /\ q = Cardinality(Logged(MonthBefore))
         /\ e = Revenue(Month) /\ b = Revenue(MonthBefore)
         /\ s = DaysSilent /\ u = Cardinality(Burden)
         /\ a = LeastOr(90, WonAges) /\ k = Cardinality(Kinds)
  OBVIOUS
<1>2. r \in Nat /\ q \in Nat /\ u \in Nat
  <2>1. PICK R, Q, B : R = Logged(Month) /\ Q = Logged(MonthBefore) /\ B = Burden
    OBVIOUS
  <2>2. R \subseteq ActivityIds /\ Q \subseteq ActivityIds /\ B \subseteq CaseIds
    BY <2>1 DEF Logged, Burden
  <2>3. IsFiniteSet(ActivityIds) /\ IsFiniteSet(CaseIds)
    BY ChurnAssumption
  <2>4. Cardinality(R) \in Nat /\ Cardinality(Q) \in Nat /\ Cardinality(B) \in Nat
    BY <2>2, <2>3, FewerOf
  <2> QED BY <1>1, <2>1, <2>4
<1>3. e \in Nat /\ b \in Nat
  <2> DEFINE w == [d \in DealIds |-> deals[d].amount]
  <2>1. PICK R, Q : R = DealsAged(Month) /\ Q = DealsAged(MonthBefore)
    OBVIOUS
  <2>2. deals \in DealRows /\ R \in SUBSET DealIds /\ Q \in SUBSET DealIds
    BY <2>1 DEF ChurnTyped, DealRows, DealsAged
  <2>3. SumOf(deals, R) \in Nat /\ SumOf(deals, Q) \in Nat
    BY <2>2, SumCountsUnits
  <2>4. e = SumOf(deals, R) /\ b = SumOf(deals, Q)
    BY <1>1, <2>1 DEF Revenue, SumOf
  <2> QED BY <2>3, <2>4
<1>4. s \in Nat
  <2>1. PICK S : S = {logged[x].age : x \in Logged(0..MaxAge)}
    OBVIOUS
  <2>2. S \subseteq Nat
    BY <2>1, ChurnAssumption DEF Logged
  <2>3. since \in Nat
    BY ChurnAssumption DEF ChurnTyped
  <2>4. LeastOr(since, S) \in Nat
    BY <2>2, <2>3, LeastFalls
  <2>5. S = {} <=> Logged(0..MaxAge) = {}
    BY <2>1
  <2> QED BY <1>1, <2>1, <2>4, <2>5 DEF DaysSilent, LeastOr
<1>5. a \in Nat
  <2>1. WonAges \subseteq Nat
    BY ChurnAssumption DEF WonAges, DealsAged
  <2>2. PICK n, S : n = 90 /\ n \in Nat /\ S = WonAges
    OBVIOUS
  <2>3. LeastOr(n, S) \in Nat
    BY <2>1, <2>2, LeastFalls
  <2> QED BY <1>1, <2>2, <2>3
<1>6. k \in Nat
  <2>a. PICK f : f = [x \in Logged(Month) |-> logged[x].type]
    OBVIOUS
  <2>1. PICK A, K : A = Logged(Month) /\ K = Kinds
    OBVIOUS
  <2>2. A \subseteq ActivityIds
    BY <2>1 DEF Logged
  <2>3. IsFiniteSet(A)
    BY <2>2, ChurnAssumption, FS_Subset
  <2>4. f \in Surjection(A, K)
    BY <2>a, <2>1 DEF Kinds, Surjection
  <2>5. IsFiniteSet(K)
    BY <2>3, <2>4, FS_Surjection
  <2> QED BY <1>1, <2>1, <2>5, FS_CardinalityType
<1>7. ChurnScore \in Scores
  <2>1. ChurnScore = Score(r, q, e, b, s, u)
    BY <1>1, ChurnScoreIsScore
  <2>2. Score(r, q, e, b, s, u) \in Scores
    BY <1>2, <1>3, <1>4, ScoreRange
  <2> QED BY <2>1, <2>2
<1>8. Risk \in Scores
  <2>1. Wellness(r, a, u, k) \in Scores
    BY <1>2, <1>4, <1>5, <1>6, WellnessGrows
  <2>2. Health = Wellness(r, a, u, k)
    BY <1>1, HealthIsWellness
  <2> QED BY <2>1, <2>2, ScoreIsOfHealth
<1> QED BY <1>7, <1>8

(* For any activities, deals and tickets: the rows keep their types, and   *)
(* both scores are percentages, whatever windows are empty.                *)
THEOREM ScoresArePercentages ==
  ChurnSpec => []ChurnTypeOK
<1>1. ChurnTyped => ChurnTypeOK
  <2>1. ChurnTyped => {ChurnScore, Risk} \subseteq Scores
    BY ScoresInRange
  <2> QED BY <2>1, SMTT(60) DEF ChurnTyped, ChurnTypeOK, Scores
<1> QED BY <1>1, ChurnInitTyped, ChurnStepTyped, PTL DEF ChurnSpec

-----------------------------------------------------------------------------
(* All of them together.                                                   *)

(* Users and tokens are those of the sessions, or of the passkeys as well. *)
TogetherInv ==
    /\ service = "sessions" => SInv /\ challenges = <<>>
    /\ service # "sessions" => PInv

LEMMA InitTogether == ServicesInit => TogetherInv
BY InitSInv, InitPInv DEF ServicesInit, PasskeyInit, TogetherInv

LEMMA StepTogether == TogetherInv /\ [ServicesNext]_servicesVars => TogetherInv'
<1> SUFFICES ASSUME TogetherInv, [ServicesNext]_servicesVars
             PROVE  TogetherInv'
  OBVIOUS
<1>1. service' = service
  BY DEF ServicesNext, servicesVars, SessionsStep, PasskeysStep, AccessStep, DeskStep, AdviceStep,
     AutomationStep, RoutingStep, ChurnStep
<1>2. CASE service = "sessions"
  <2>1. [SessionNext]_sessionVars /\ challenges' = challenges
    BY <1>2 DEF ServicesNext, servicesVars, SessionsStep, PasskeysStep, AccessStep, DeskStep,
       AdviceStep, AutomationStep, RoutingStep, ChurnStep, passkeyVars, accountVars, sessionVars
  <2> QED BY <1>1, <1>2, <2>1, StepSInv DEF TogetherInv
<1>3. CASE service # "sessions"
  <2>1. [PasskeyNext]_accountVars
    BY <1>3 DEF ServicesNext, servicesVars, SessionsStep, PasskeysStep, AccessStep, DeskStep,
       AdviceStep, AutomationStep, RoutingStep, ChurnStep
  <2> QED BY <1>1, <1>3, <2>1, StepPInv DEF TogetherInv
<1> QED BY <1>2, <1>3

(* A step of the services is a step of each of the others, or none.        *)
LEMMA EachTakesItsSteps ==
  [ServicesNext]_servicesVars =>
      /\ [AccessNext]_accessVars
      /\ [DeskNext]_deskVars
      /\ [AdviceNext]_adviceVars
      /\ [AutomationNext]_automationVars
      /\ [RoutingNext]_routingVars
      /\ [ChurnNext]_churnVars
<1> SUFFICES ASSUME ServicesNext
             PROVE  /\ AccessNext \/ UNCHANGED accessVars
                    /\ DeskNext \/ UNCHANGED deskVars
                    /\ AdviceNext \/ UNCHANGED adviceVars
                    /\ AutomationNext \/ UNCHANGED automationVars
                    /\ RoutingNext \/ UNCHANGED routingVars
                    /\ ChurnNext \/ UNCHANGED churnVars
  BY DEF servicesVars
<1> QED BY DEF ServicesNext, SessionsStep, PasskeysStep, AccessStep, DeskStep, AdviceStep,
           AutomationStep, RoutingStep, ChurnStep, DeskNext

(* What is proved of each service holds of the services one application    *)
(* offers, whatever the others do meanwhile: none of them writes what the  *)
(* others read.                                                            *)
THEOREM ServicesKeepTheirPromises ==
  ServicesSpec =>
      /\ []SessionsStaySingle /\ []AnswerIsUsedOnce
      /\ []SystemRolesKeepTheirPowers /\ []SetsReplace
      /\ []RoundRobinIsEven /\ []SlaSummaryAddsUp /\ FirstResponseSettles
      /\ []AnswersAreFresh
      /\ []EffectsHaveLogs
      /\ LeadsGoToTheFreest /\ BetterBusinessLessRisk
<1>1. ServicesInit => AccessInit /\ DeskInit /\ AdviceInit /\ AutomationInit /\ RoutingInit /\ ChurnInit
  BY DEF ServicesInit
<1>2. ServicesSpec => AccessSpec /\ DeskSpec /\ AdviceSpec /\ AutomationSpec /\ RoutingSpec /\ ChurnSpec
  BY <1>1, EachTakesItsSteps, PTL
  DEF ServicesSpec, AccessSpec, DeskSpec, AdviceSpec, AutomationSpec, RoutingSpec, ChurnSpec
<1>3. TogetherInv => SessionsStaySingle /\ AnswerIsUsedOnce
  <2>1. challenges = <<>> => AnswerIsUsedOnce
    BY EmptySeq DEF AnswerIsUsedOnce
  <2> QED BY <2>1, SInvIsSingle DEF TogetherInv, PInv
<1>4. ServicesSpec => []SessionsStaySingle /\ []AnswerIsUsedOnce
  BY InitTogether, StepTogether, <1>3, PTL DEF ServicesSpec
<1> QED BY <1>2, <1>4, SystemRolesAlwaysKeepTheirPowers, SetsAlwaysReplace, RoundRobinStaysEven,
           SlaSummaryAlwaysAddsUp, FirstResponseAlwaysSettles, AnswersAreAlwaysFresh,
           EffectsAlwaysHaveLogs, LeadsAlwaysGoToTheFreest, BetterBusinessNeverMoreRisk, PTL

(* Sessions without passkeys, or with them: the rows the others never      *)
(* write.                                                                  *)
TogetherTyped ==
    /\ service = "sessions" => SInv /\ SBounds /\ PasskeyTypeOK
    /\ service # "sessions" => PInv /\ SBounds /\ PBounds

LEMMA InitTogetherTyped == ServicesInit => TogetherTyped
BY InitSInv, InitPInv, InitSBounds, InitPBounds, PasskeyTypes
DEF ServicesInit, PasskeyInit, TogetherTyped

LEMMA StepTogetherTyped ==
  TogetherTyped /\ [ServicesNext]_servicesVars => TogetherTyped'
<1> SUFFICES ASSUME TogetherTyped, [ServicesNext]_servicesVars
             PROVE  TogetherTyped'
  OBVIOUS
<1>1. service' = service
  BY DEF ServicesNext, servicesVars, SessionsStep, PasskeysStep, AccessStep, DeskStep, AdviceStep,
     AutomationStep, RoutingStep, ChurnStep
<1>2. CASE service = "sessions"
  <2>1. [SessionNext]_sessionVars /\ UNCHANGED passkeyVars
    BY <1>2 DEF ServicesNext, servicesVars, SessionsStep, PasskeysStep, AccessStep, DeskStep,
       AdviceStep, AutomationStep, RoutingStep, ChurnStep, passkeyVars, accountVars, sessionVars
  <2>2. PasskeyTypeOK => PasskeyTypeOK'
    BY <2>1 DEF passkeyVars, PasskeyTypeOK
  <2> QED BY <1>1, <1>2, <2>1, <2>2, StepSInv, StepSBounds DEF TogetherTyped
<1>3. CASE service # "sessions"
  <2>1. [PasskeyNext]_accountVars
    BY <1>3 DEF ServicesNext, servicesVars, SessionsStep, PasskeysStep, AccessStep, DeskStep,
       AdviceStep, AutomationStep, RoutingStep, ChurnStep
  <2> QED BY <1>1, <1>3, <2>1, StepPInv, StepPBounds, PasskeysMoveSessions DEF TogetherTyped
<1> QED BY <1>2, <1>3

(* Each service of the application keeps its types, for every value of the *)
(* constants.                                                              *)
THEOREM ServicesKeepTheirTypes == ServicesSpec => []ServicesTypeOK
<1>1. ServicesInit => AccessInit /\ DeskInit /\ AdviceInit /\ AutomationInit /\ RoutingInit /\ ChurnInit
  BY DEF ServicesInit
<1>2. ServicesSpec => AccessSpec /\ DeskSpec /\ AdviceSpec /\ AutomationSpec /\ RoutingSpec /\ ChurnSpec
  BY <1>1, EachTakesItsSteps, PTL
  DEF ServicesSpec, AccessSpec, DeskSpec, AdviceSpec, AutomationSpec, RoutingSpec, ChurnSpec
<1>3. DeskSpec => []DeskTypeOK
  <2>1. IInv => DeskTypeOK
    BY DEF IInv
  <2> QED BY InitIInv, StepIInv, <2>1, PTL DEF DeskSpec
<1>4. AdviceSpec => []AdviceTypeOK
  <2>1. CInv => AdviceTypeOK
    BY DEF CInv
  <2> QED BY InitCInv, StepCInv, <2>1, PTL DEF AdviceSpec
<1>5. TogetherTyped => SessionTypeOK /\ PasskeyTypeOK
  BY SessionTypes, PasskeyTypes DEF TogetherTyped, PInv
<1>6. ServicesSpec => []SessionTypeOK /\ []PasskeyTypeOK
  BY InitTogetherTyped, StepTogetherTyped, <1>5, PTL DEF ServicesSpec
<1>7. SessionTypeOK /\ PasskeyTypeOK /\ AccessTypeOK /\ DeskTypeOK /\ AdviceTypeOK
          /\ AutomationTypeOK /\ RoutingTypeOK /\ ChurnTypeOK
      => ServicesTypeOK
  BY DEF ServicesTypeOK
<1> QED BY <1>2, <1>3, <1>4, <1>6, <1>7, AccessKeepsItsTypes, AutomationKeepsItsTypes,
           RoutingKeepsItsTypes, ScoresArePercentages, PTL
=============================================================================
