----------------------------- MODULE AccessControl -----------------------------
(***************************************************************************)
(* Roles, their permissions and the roles of users                         *)
(* (services/rbac_service.py, role_service.py and their routers).          *)
(*                                                                         *)
(* A set of permissions or of roles is replaced by a DELETE and INSERTs in *)
(* one READ COMMITTED transaction.  The DELETE of a second request waits   *)
(* for the first to end, but the rows it deletes are those that were there *)
(* when it began.  Unique indexes and foreign keys refuse at the INSERT.   *)
(***************************************************************************)
EXTENDS Integers, FiniteSets

CONSTANTS
    Tenants,        \* but for tenant 0, whose roles every tenant sees
    Members,        \* users; Home gives the tenant of each
    Home,
    Names,          \* names of roles
    Permissions,
    Defaults,       \* the permissions of each system role, a function on its names
    RoleRequests    \* slots for requests in flight

ASSUME AccessAssumption ==
    /\ Home \in [Members -> Tenants \cup {"system"}]
    /\ DOMAIN Defaults \subseteq Names
    /\ "system" \notin Tenants
    /\ Members \cap ((Tenants \cup {"system"}) \X Names) = {}
    /\ Permissions \cap ((Tenants \cup {"system"}) \X Names) = {}
    /\ <<>> \notin Members
    /\ \A n \in DOMAIN Defaults : Defaults[n] \subseteq Permissions

VARIABLES
    roles,      \* pairs <<owner, name>>: a tenant's role, or one of the system
    system,     \* those with is_system set
    powers,     \* role_permissions: pairs <<role, permission>>
    grants,     \* user_roles: pairs <<user, role>>
    roleWork,   \* for each slot: the rows a request deletes, and those it inserts
    ordered,    \* history: the rows, had the requests run one after the other
    mixed,      \* history: roles and users with overlapping requests
    replaced    \* history: roles of tenant 0 that a request of tenant 0 has changed

accessVars == <<roles, system, powers, grants, roleWork, ordered, mixed, replaced>>

System == "system"      \* tenant 0: users who register themselves are of it
AllTenants == Tenants \cup {System}
AllRoles == AllTenants \X Names
Visible(t) == {r \in roles : r[1] \in {t, System}}
SystemRole(r) == r \in system

Rows == powers \cup grants
RowsOf(x) == {row \in Rows : row[1] = x}
NoRoleWork == [tenant |-> System, owner |-> <<>>, deletes |-> {}, inserts |-> {}]

Order(x, S) == ordered' = {row \in ordered : row[1] # x} \cup S
OrderedOf(x) == {row \in ordered : row[1] = x}

-----------------------------------------------------------------------------

DefaultRoles == {<<System, n>> : n \in DOMAIN Defaults}
DefaultPowers == {row \in DefaultRoles \X Permissions : row[2] \in Defaults[row[1][2]]}

(* The seed of the revision that creates the tables, or init_defaults,     *)
(* called by hand, which does nothing once there are roles.                *)
InitDefaults ==
    /\ roles = {}
    /\ roles' = DefaultRoles
    /\ system' = DefaultRoles
    /\ powers' = DefaultPowers
    /\ ordered' = ordered \cup DefaultPowers
    /\ UNCHANGED <<grants, roleWork, mixed, replaced>>

(* create_role, and create_custom_role with its permissions; the index on  *)
(* tenant and name refuses a second.  A role that tenant 0 creates is no   *)
(* system role, although every tenant sees it.                             *)
CreateRole(t, n, S) ==
    LET r == <<t, n>>
        rows == {<<r, p>> : p \in S}
    IN
    /\ r \notin roles
    /\ roles' = roles \cup {r}
    /\ powers' = powers \cup rows
    /\ ordered' = ordered \cup rows
    /\ UNCHANGED <<system, grants, roleWork, mixed, replaced>>

Mentions(q, r) ==
    \/ roleWork[q].owner = r
    \/ \E row \in roleWork[q].inserts : row[2] = r

(* The rows of both tables that name the role go with it.  A request that  *)
(* is to insert such a row can only fail from here on: its key is missing. *)
DeleteRole(t, r) ==
    /\ r[1] = t
    /\ ~SystemRole(r)
    /\ roles' = roles \ {r}
    /\ powers' = {row \in powers : row[1] # r}
    /\ grants' = {row \in grants : row[2] # r}
    /\ ordered' = {row \in ordered : row[1] # r /\ row[2] # r}
    /\ roleWork' = [q \in RoleRequests |-> IF Mentions(q, r) THEN NoRoleWork ELSE roleWork[q]]
    /\ UNCHANGED <<system, mixed, replaced>>

BeginChange(q, t, x, deletes, inserts) ==
    /\ roleWork[q] = NoRoleWork
    /\ roleWork' = [roleWork EXCEPT ![q] =
           [tenant |-> t, owner |-> x, deletes |-> deletes, inserts |-> inserts]]
    /\ mixed' = mixed \cup {x : r \in {w \in RoleRequests : roleWork[w].owner = x}}
    /\ UNCHANGED <<roles, system, powers, grants, ordered, replaced>>

(* set_role_permissions, for a role of the tenant: for tenant 0, the       *)
(* system roles too                                                        *)
SetRolePermissions(q, t, r, S) ==
    /\ r[1] = t
    /\ BeginChange(q, t, r, RowsOf(r), {<<r, p>> : p \in S})

(* a mutated form of UpdateRolePermissions: system roles are not spared    *)
UpdateAnyRole(q, t, r, S) ==
    /\ r \in Visible(t)
    /\ BeginChange(q, t, r, RowsOf(r), {<<r, p>> : p \in S})

(* update_role_permissions, for a role the tenant sees                     *)
UpdateRolePermissions(q, t, r, S) ==
    /\ r \in Visible(t)
    /\ ~SystemRole(r)
    /\ BeginChange(q, t, r, RowsOf(r), {<<r, p>> : p \in S})

SetUserRoles(q, u, S) ==
    /\ S \subseteq Visible(Home[u])
    /\ BeginChange(q, Home[u], u, RowsOf(u), {<<u, r>> : r \in S})

(* a role the user has already is reported as such                         *)
AssignRole(q, u, r) ==
    /\ r \in Visible(Home[u])
    /\ <<u, r>> \notin grants
    /\ BeginChange(q, Home[u], u, {}, {<<u, r>>})

(* a mutated form of FinishChange: nothing is deleted                      *)
FinishChangeAdding(q) ==
    LET x == roleWork[q].owner
        inserts == roleWork[q].inserts
    IN
    /\ roleWork[q] # NoRoleWork
    /\ \A row \in inserts : row \notin Rows
    /\ IF x \in Members
       THEN grants' = grants \cup inserts /\ UNCHANGED powers
       ELSE powers' = powers \cup inserts /\ UNCHANGED grants
    /\ Order(x, IF roleWork[q].deletes = {} THEN OrderedOf(x) \cup inserts ELSE inserts)
    /\ replaced' = replaced \cup {r \in {x} \cap roles : roleWork[q].tenant = System}
    /\ roleWork' = [roleWork EXCEPT ![q] = NoRoleWork]
    /\ UNCHANGED <<roles, system, mixed>>

(* the unique indexes refuse a row that is there already                   *)
FinishChange(q) ==
    LET x == roleWork[q].owner
        inserts == roleWork[q].inserts
        kept(rows) == rows \ roleWork[q].deletes
        table == IF x \in Members THEN grants ELSE powers
    IN
    /\ roleWork[q] # NoRoleWork
    /\ \A row \in inserts : row \notin kept(table)
    /\ IF x \in Members
       THEN grants' = kept(grants) \cup inserts /\ UNCHANGED powers
       ELSE powers' = kept(powers) \cup inserts /\ UNCHANGED grants
    /\ Order(x, IF roleWork[q].deletes = {} THEN OrderedOf(x) \cup inserts ELSE inserts)
    /\ replaced' = replaced \cup {r \in {x} \cap roles : roleWork[q].tenant = System}
    /\ roleWork' = [roleWork EXCEPT ![q] = NoRoleWork]
    /\ UNCHANGED <<roles, system, mixed>>

(* any error rolls the request back                                        *)
AbortChange(q) ==
    /\ roleWork[q] # NoRoleWork
    /\ roleWork' = [roleWork EXCEPT ![q] = NoRoleWork]
    /\ UNCHANGED <<roles, system, powers, grants, ordered, mixed, replaced>>

RevokeRole(u, r) ==
    /\ <<u, r>> \in grants
    /\ grants' = grants \ {<<u, r>>}
    /\ ordered' = ordered \ {<<u, r>>}
    /\ UNCHANGED <<roles, system, powers, roleWork, mixed, replaced>>

(* what get_user_permissions answers                                       *)
PermissionsOf(u) == {row[2] : row \in {x \in powers : <<u, x[1]>> \in grants}}

AccessInit ==
    /\ roles = {}
    /\ system = {}
    /\ powers = {}
    /\ grants = {}
    /\ roleWork = [q \in RoleRequests |-> NoRoleWork]
    /\ ordered = {}
    /\ mixed = {}
    /\ replaced = {}

AccessNext ==
    \/ InitDefaults
    \/ \E t \in AllTenants :
          \/ \E n \in Names, S \in SUBSET Permissions : CreateRole(t, n, S)
          \/ \E r \in roles :
                \/ DeleteRole(t, r)
                \/ \E q \in RoleRequests, S \in (SUBSET Permissions) \ {{}} :
                      SetRolePermissions(q, t, r, S) \/ UpdateRolePermissions(q, t, r, S)
    \/ \E u \in Members :
          \/ \E r \in roles :
                RevokeRole(u, r) \/ \E q \in RoleRequests : AssignRole(q, u, r)
          \/ \E q \in RoleRequests, S \in (SUBSET roles) \ {{}} : SetUserRoles(q, u, S)
    \/ \E q \in RoleRequests : FinishChange(q) \/ AbortChange(q)

AccessSpec == AccessInit /\ [][AccessNext]_accessVars

-----------------------------------------------------------------------------

AccessTypeOK ==
    /\ roles \subseteq AllRoles
    /\ system \subseteq roles \cap DefaultRoles
    /\ powers \subseteq roles \X Permissions
    /\ grants \subseteq Members \X roles
    /\ roleWork \in [RoleRequests ->
           [tenant : AllTenants,
            owner : AllRoles \cup Members \cup {<<>>},
            deletes : SUBSET (Rows \cup (AllRoles \X Permissions) \cup (Members \X AllRoles)),
            inserts : SUBSET ((AllRoles \X Permissions) \cup (Members \X AllRoles))]]
    /\ mixed \subseteq AllRoles \cup Members
    /\ replaced \subseteq AllRoles

(* What the system roles may do, which every tenant may give its users,    *)
(* changes only with a request of tenant 0: the two interfaces keep the    *)
(* others from it in different ways (rbac_service.py:325 matches the       *)
(* tenant, role_service.py:138 the flag), whatever requests overlap and    *)
(* whatever roles of its own tenant 0 creates, shows everyone and deletes. *)
SystemRolesKeepTheirPowers ==
    \A r \in system \ replaced : {row[2] : row \in RowsOf(r)} = Defaults[r[2]]

(* The permissions of a role and the roles of a user are those that the    *)
(* requests give them in the order they commit, and no others, unless two  *)
(* requests for the same one overlapped: those may leave the union.        *)
SetsReplace ==
    \A x \in (roles \cup Members) \ mixed : RowsOf(x) = OrderedOf(x)
=============================================================================
