----------------------------- MODULE Delegation -----------------------------
(***************************************************************************)
(* Who may hand out what: tenants with a permission ceiling, roles with    *)
(* their grantable roles and permissions, users, and the requests that     *)
(* change them (RoleService, UserManagementService, TenantService).        *)
(*                                                                         *)
(* get_current_user loads the actor with roles and tenant; the service     *)
(* checks against that and what it reads; the repositories commit, several *)
(* times in a row in some requests.  Nothing is locked in between.  What   *)
(* a commit does to masks and perm_version is in PermVersions.             *)
(***************************************************************************)
EXTENDS Naturals

CONSTANTS
  Tenants, Users, Permissions,
  Roles,              \* role ids; a deleted one is not used again
  Superusers,         \* users with is_superuser, there since cli/seed.py
  TenantPermissions,  \* the permissions of TENANT_ROLE_MASK
  Implies,            \* PERMISSION_IMPLIES
  Gate,               \* which permission each route of the role and user routers requires
  Workers,            \* requests that run at the same time
  MaxRequests,        \* bound: requests served
  Null                \* tenant_id NULL

Routes == {"create", "update", "delete", "add-permission", "delete-permission", "create user"}

ASSUME DelegationAssumption ==
  /\ Superusers \subseteq Users
  /\ TenantPermissions \subseteq Permissions
  /\ Implies \in [Permissions -> SUBSET Permissions]
  /\ Gate \in [Routes -> Permissions]
  /\ MaxRequests \in Nat
  /\ Null \notin Tenants

VARIABLES
  tenants,   \* rows of tenants
  ceiling,   \* tenants.allowed_permission_mask
  live,      \* rows of roles
  issued,    \* role ids given so far
  root,      \* the live roles that are named "tenant-admin"
  owner,     \* roles.tenant_id
  users,     \* rows of users
  home,      \* users.tenant_id
  rows,      \* the association tables
  session,   \* what each request's get_current_user has loaded
  work,      \* the write each request is about to commit
  served,    \* requests so far
  endowed,   \* history: what superusers ever put within a tenant's reach
  crossed,   \* history: tenants ever linked to roles or users that are not theirs
  held,      \* history: what a user's access tokens may say, every permission ever held
  drift      \* history: tenants whose last ceiling update was disturbed, or undone by hand

tables == <<tenants, ceiling, live, issued, root, owner, users, home, rows>>
requests == <<session, work, served>>
history == <<endowed, crossed, held, drift>>
vars == <<tables, requests, history>>

RP == "role_permissions"
UP == "user_permissions"
UR == "user_roles"
GR == "role_grantable_roles"
GP == "role_grantable_permissions"
TableNames == {RP, UP, UR, GR, GP}

Left(n) == IF n \in {UP, UR} THEN Users ELSE Roles
Right(n) == IF n \in {UR, GR} THEN Roles ELSE Permissions

Nobody == [actor |-> Null, roles |-> {}, ceil |-> {}]
Session == [actor: Users, roles: SUBSET Roles, ceil: SUBSET Permissions]

Nothing == [do |-> "nothing"]
RowWork == UNION {[do: {"insert", "delete"}, table: {n}, of: Left(n), to: Right(n),
                   next: SUBSET Permissions] : n \in TableNames}
RoleWork == [do: {"role"}, root: BOOLEAN, owner: Tenants \cup {Null},
             mask: SUBSET Permissions, links: SUBSET Roles]
LinkWork == [do: {"link"}, role: Roles, links: SUBSET Roles]
NameWork == [do: {"rename"}, role: Roles, root: BOOLEAN] \cup [do: {"drop"}, role: Roles]
UserWork == [do: {"user"}, user: Users, home: Tenants \cup {Null}, role: Roles \cup {Null}]
TenantWork == [do: {"tenant", "root"}, tenant: Tenants, mask: SUBSET Permissions, user: Users]
CeilingWork == [do: {"ceiling"}, tenant: Tenants, mask: SUBSET Permissions,
                loaded: SUBSET Permissions]
SyncWork == [do: {"sync"}, tenant: Tenants, mask: SUBSET Permissions, role: Roles,
             seen: SUBSET Permissions]
Work == {Nothing} \cup RowWork \cup RoleWork \cup LinkWork \cup NameWork \cup UserWork
          \cup TenantWork \cup CeilingWork \cup SyncWork

(* cli/seed.py has run. *)
Init ==
  /\ tenants = {} /\ ceiling = [t \in Tenants |-> {}]
  /\ live = {} /\ issued = {} /\ root = {} /\ owner = [r \in Roles |-> Null]
  /\ users = Superusers /\ home = [u \in Users |-> Null]
  /\ rows = [n \in TableNames |-> {}]
  /\ session = [w \in Workers |-> Nobody] /\ work = [w \in Workers |-> Nothing] /\ served = 0
  /\ endowed = [t \in Tenants |-> {}]
  /\ crossed = {}
  /\ held = [u \in Users |-> {}]
  /\ drift = {}

RolesOf(u) == {r \in Roles : <<u, r>> \in rows[UR]}
PermissionsOf(r) == {p \in Permissions : <<r, p>> \in rows[RP]}

(* effective_permissions: through the roles, and direct grants. *)
Effective(u) == {p \in Permissions : \/ <<u, p>> \in rows[UP]
                                     \/ \E r \in RolesOf(u) : p \in PermissionsOf(r)}

(* get_grantable_role_ids; get_grantable_permission_ids and _mask *)
GrantableRoles(rs) == {x \in Roles : \E r \in rs : <<r, x>> \in rows[GR]}
GrantablePermissions(rs) == {p \in Permissions : \E r \in rs : <<r, p>> \in rows[GP]}

(* expand_implied: the smallest superset that is closed under Implies. *)
Expand(N) == {p \in Permissions :
  \A S \in SUBSET Permissions : N \subseteq S /\ (\A q \in S : Implies[q] \subseteq S) => p \in S}
-----------------------------------------------------------------------------
Super(w) == session[w].actor \in Superusers
Home(w) == home[session[w].actor]

(* get_current_user: the actor with roles and, when there is one, the tenant's ceiling. *)
Begin(w, u) ==
  /\ session[w] = Nobody /\ u \in users /\ served < MaxRequests
  /\ session' = [session EXCEPT ![w] =
       [actor |-> u, roles |-> RolesOf(u),
        ceil |-> IF home[u] = Null THEN Permissions ELSE ceiling[home[u]]]]
  /\ served' = served + 1
  /\ UNCHANGED <<tables, work, endowed, drift>>

(* Wrong variant: the pending write is kept. *)
FinishKeepsWork(w) ==
  /\ session' = [session EXCEPT ![w] = Nobody]
  /\ UNCHANGED work

Finish(w) ==
  /\ session' = [session EXCEPT ![w] = Nobody]
  /\ work' = [work EXCEPT ![w] = Nothing]

(* A check that refuses, a constraint that is violated, a client or a worker that is gone. *)
GiveUp(w) ==
  /\ session[w] # Nobody
  /\ Finish(w)
  /\ UNCHANGED <<tables, served, endowed, drift>>

Undecided(w) == session[w] # Nobody /\ work[w] = Nothing

Decide(w, k) ==
  /\ work' = [work EXCEPT ![w] = k]
  /\ UNCHANGED <<tables, session, served, endowed, drift>>

(* permission_required tests the token, which is as old as it may be. *)
Passes(w, route) == Super(w) \/ Gate[route] \in held[session[w].actor]

(* _ensure_role_in_scope *)
InScope(w, r) == r \in live /\ (Super(w) \/ owner[r] \in {Null, Home(w)})

(* _ensure_same_tenant *)
SameTenant(w, u) == u \in users /\ (Super(w) \/ home[u] = Home(w))

CanGrantRole(w, r) == Super(w) \/ r \in GrantableRoles(session[w].roles)
CanGrantPermission(w, p) == Super(w) \/ p \in GrantablePermissions(session[w].roles)

(* Wrong variant: the tenant's ceiling is not looked at. *)
MayAuthorGrantable(w, N) == Super(w) \/ N \subseteq GrantablePermissions(session[w].roles)

(* requested_mask & ~_grantable_mask_for(actor) = 0 *)
MayAuthor(w, N) ==
  Super(w) \/ N \subseteq GrantablePermissions(session[w].roles) \cap session[w].ceil

Row(do, n, x, y, next) == [do |-> do, table |-> n, of |-> x, to |-> y, next |-> next]
Insert(n, x, y) == Row("insert", n, x, y, {})
Delete(n, x, y) == Row("delete", n, x, y, {})
-----------------------------------------------------------------------------
(* TenantService *)

CreateTenant(w, t, N, u) ==
  /\ Super(w) /\ t \notin tenants /\ u \notin users
  /\ Decide(w, [do |-> "tenant", tenant |-> t, mask |-> N \cap TenantPermissions, user |-> u])

UpdateTenantPermissions(w, t, N) ==
  /\ Super(w) /\ t \in tenants
  /\ Decide(w, [do |-> "ceiling", tenant |-> t, mask |-> N \cap TenantPermissions,
                loaded |-> ceiling[t]])

(* RoleService *)

Unique(t, isRoot) == isRoot => \A r \in root : owner[r] # t

(* Wrong variant: the permissions are checked before what they imply is added. *)
CreateRoleUnexpanded(w, isRoot, N) ==
  LET t == IF Super(w) THEN Null ELSE Home(w) IN
  /\ Passes(w, "create") /\ Unique(t, isRoot) /\ MayAuthor(w, N)
  /\ Decide(w, [do |-> "role", root |-> isRoot, owner |-> t, mask |-> Expand(N),
                links |-> IF Super(w) THEN {} ELSE session[w].roles])

CreateRole(w, isRoot, N) ==
  LET t == IF Super(w) THEN Null ELSE Home(w) IN
  /\ Passes(w, "create") /\ Unique(t, isRoot) /\ MayAuthor(w, Expand(N))
  /\ Decide(w, [do |-> "role", root |-> isRoot, owner |-> t, mask |-> Expand(N),
                links |-> IF Super(w) THEN {} ELSE session[w].roles])

(* A name that the role already has is not written. *)
UpdateRole(w, r, isRoot) ==
  /\ Passes(w, "update") /\ InScope(w, r) /\ ~(isRoot /\ r \in root)
  /\ Decide(w, [do |-> "rename", role |-> r, root |-> isRoot])

DeleteRole(w, r) ==
  /\ Passes(w, "delete") /\ InScope(w, r)
  /\ Decide(w, [do |-> "drop", role |-> r])

AddPermissionToRole(w, r, p) ==
  LET implied == Expand({p}) \ (PermissionsOf(r) \cup {p}) IN
  /\ Passes(w, "add-permission") /\ InScope(w, r)
  /\ p \notin PermissionsOf(r) /\ MayAuthor(w, {p} \cup implied)
  /\ Decide(w, Row("insert", RP, r, p, implied))

RemovePermissionFromRole(w, r, p) ==
  /\ Passes(w, "delete-permission") /\ InScope(w, r) /\ p \in PermissionsOf(r)
  /\ Decide(w, Delete(RP, r, p))

AddGrantableRole(w, r, x) ==
  /\ Passes(w, "update") /\ InScope(w, r) /\ x \in live
  /\ CanGrantRole(w, x) /\ <<r, x>> \notin rows[GR]
  /\ Decide(w, Insert(GR, r, x))

RemoveGrantableRole(w, r, x) ==
  /\ Passes(w, "update") /\ InScope(w, r) /\ x \in live /\ <<r, x>> \in rows[GR]
  /\ Decide(w, Delete(GR, r, x))

AddGrantablePermission(w, r, p) ==
  /\ Passes(w, "update") /\ InScope(w, r)
  /\ CanGrantPermission(w, p) /\ <<r, p>> \notin rows[GP]
  /\ Decide(w, Insert(GP, r, p))

RemoveGrantablePermission(w, r, p) ==
  /\ Passes(w, "update") /\ InScope(w, r) /\ <<r, p>> \in rows[GP]
  /\ Decide(w, Delete(GP, r, p))

(* UserManagementService *)

CreateUser(w, u) ==
  /\ Passes(w, "create user") /\ u \notin users
  /\ Decide(w, [do |-> "user", user |-> u, home |-> Home(w), role |-> Null])

AssignRole(w, u, r) ==
  /\ CanGrantRole(w, r) /\ r \in live /\ SameTenant(w, u) /\ <<u, r>> \notin rows[UR]
  /\ Decide(w, Insert(UR, u, r))

RemoveRole(w, u, r) ==
  /\ CanGrantRole(w, r) /\ r \in live /\ SameTenant(w, u) /\ <<u, r>> \in rows[UR]
  /\ Decide(w, Delete(UR, u, r))

GrantPermission(w, u, p) ==
  /\ CanGrantPermission(w, p) /\ SameTenant(w, u) /\ <<u, p>> \notin rows[UP]
  /\ Decide(w, Insert(UP, u, p))

RevokePermission(w, u, p) ==
  /\ CanGrantPermission(w, p) /\ SameTenant(w, u) /\ <<u, p>> \in rows[UP]
  /\ Decide(w, Delete(UP, u, p))
-----------------------------------------------------------------------------
(* Repositories: one transaction each. *)

TenantOfRow(n, x) == IF n \in {UP, UR} THEN home[x] ELSE owner[x]

(* A superuser hands the permission to whatever belongs to the row's tenant. *)
Endow(t, N) == endowed' = IF t \in Tenants THEN [endowed EXCEPT ![t] = @ \cup N] ELSE endowed

(* assign_to_user, add_permission, add_grantable_role, add_grantable_permission, grant_permission *)
InsertRow(w) ==
  LET k == work[w]
      t == TenantOfRow(k.table, k.of) IN
  /\ k.do = "insert"
  /\ k.table \in {RP, GR, GP} => k.of \in live
  /\ k.table \in {UR, GR} => k.to \in live
  /\ <<k.of, k.to>> \notin rows[k.table]
  /\ rows' = [rows EXCEPT ![k.table] = @ \cup {<<k.of, k.to>>}]
  /\ IF Super(w) /\ k.table \in {RP, GP, UP} THEN Endow(t, {k.to}) ELSE UNCHANGED endowed
  /\ drift' = IF Super(w) /\ k.table = RP THEN drift \cup ({t} \cap Tenants) ELSE drift
  /\ \/ k.next = {} /\ Finish(w)
     \/ \E p \in k.next : /\ work' = [work EXCEPT ![w] = Row("insert", k.table, k.of, p, k.next \ {p})]
                          /\ UNCHANGED session
  /\ UNCHANGED <<tenants, ceiling, live, issued, root, owner, users, home, served>>

(* remove_from_user, remove_permission, remove_grantable_role, ..., revoke_permission *)
DeleteRow(w) ==
  LET k == work[w] IN
  /\ k.do = "delete"
  /\ rows' = [rows EXCEPT ![k.table] = @ \ {<<k.of, k.to>>}]
  /\ Finish(w)
  /\ UNCHANGED <<tenants, ceiling, live, issued, root, owner, users, home, served, endowed, drift>>

(* RoleRepository.create *)
CommitRole(w) ==
  LET k == work[w] IN
  /\ k.do = "role" /\ Unique(k.owner, k.root)
  /\ \E r \in Roles \ issued :
       /\ live' = live \cup {r} /\ issued' = issued \cup {r}
       /\ root' = IF k.root THEN root \cup {r} ELSE root
       /\ owner' = [owner EXCEPT ![r] = k.owner]
       /\ rows' = [rows EXCEPT ![RP] = @ \cup ({r} \X k.mask)]
       /\ IF k.links = {} THEN Finish(w)
          ELSE /\ work' = [work EXCEPT ![w] = [do |-> "link", role |-> r, links |-> k.links]]
               /\ UNCHANGED session
  /\ UNCHANGED <<tenants, ceiling, users, home, served, endowed, drift>>

(* RoleService.create_role: every role of the actor may grant the new one, a commit each. *)
LinkRole(w) ==
  LET k == work[w] IN
  /\ k.do = "link"
  /\ \E x \in k.links :
       /\ <<x, k.role>> \in rows[GR] \/ {x, k.role} \subseteq live
       /\ rows' = [rows EXCEPT ![GR] = @ \cup {<<x, k.role>>}]
       /\ IF k.links = {x} THEN Finish(w)
          ELSE work' = [work EXCEPT ![w].links = @ \ {x}] /\ UNCHANGED session
  /\ UNCHANGED <<tenants, ceiling, live, issued, root, owner, users, home, served, endowed, drift>>

(* RoleRepository.update: the name, which is unique within the tenant. *)
CommitRename(w) ==
  LET k == work[w] IN
  /\ k.do = "rename" /\ k.role \in live
  /\ k.role \in root \/ Unique(owner[k.role], k.root)
  /\ root' = IF k.root THEN root \cup {k.role} ELSE root \ {k.role}
  /\ drift' = IF k.root THEN drift \cup ({owner[k.role]} \cap Tenants) ELSE drift
  /\ Finish(w)
  /\ UNCHANGED <<tenants, ceiling, live, issued, owner, users, home, rows, served, endowed>>

Mentions(n, row, r) == (n \in {RP, GR, GP} /\ row[1] = r) \/ (n \in {UR, GR} /\ row[2] = r)

(* RoleRepository.delete: the row, and its rows in the association tables. *)
CommitDrop(w) ==
  LET k == work[w] IN
  /\ k.do = "drop" /\ k.role \in live
  /\ live' = live \ {k.role} /\ root' = root \ {k.role}
  /\ rows' = [n \in TableNames |-> {row \in rows[n] : ~Mentions(n, row, k.role)}]
  /\ Finish(w)
  /\ UNCHANGED <<tenants, ceiling, issued, owner, users, home, served, endowed, drift>>

(* UserRepository.create; a tenant's first user is then given the tenant's first role. *)
CommitUser(w) ==
  LET k == work[w] IN
  /\ k.do = "user" /\ k.user \notin users
  /\ users' = users \cup {k.user}
  /\ home' = [home EXCEPT ![k.user] = k.home]
  /\ IF k.role = Null THEN Finish(w)
     ELSE /\ work' = [work EXCEPT ![w] = Insert(UR, k.user, k.role)]
          /\ UNCHANGED session
  /\ UNCHANGED <<tenants, ceiling, live, issued, root, owner, rows, served, endowed, drift>>

(* RegisterUser.register: anybody, without a tenant. *)
Register(u) ==
  /\ u \notin users
  /\ users' = users \cup {u}
  /\ UNCHANGED <<tenants, ceiling, live, issued, root, owner, home, rows, requests, endowed, drift>>

(* TenantRepository.create *)
CommitTenant(w) ==
  LET k == work[w] IN
  /\ k.do = "tenant" /\ k.tenant \notin tenants
  /\ tenants' = tenants \cup {k.tenant}
  /\ ceiling' = [ceiling EXCEPT ![k.tenant] = k.mask]
  /\ Endow(k.tenant, k.mask)
  /\ drift' = drift \cup {k.tenant}
  /\ work' = [work EXCEPT ![w].do = "root"]
  /\ UNCHANGED <<live, issued, root, owner, users, home, rows, session, served>>

(* Nothing else runs, and the ceiling is still the one that this request set. *)
Undisturbed(w) ==
  /\ \A o \in Workers \ {w} : session[o] = Nobody
  /\ ceiling[work[w].tenant] = work[w].mask

(* create_root_tenant_role *)
CommitRoot(w) ==
  LET k == work[w] IN
  /\ k.do = "root" /\ Unique(k.tenant, TRUE)
  /\ \E r \in Roles \ issued :
       /\ live' = live \cup {r} /\ issued' = issued \cup {r} /\ root' = root \cup {r}
       /\ owner' = [owner EXCEPT ![r] = k.tenant]
       /\ rows' = [rows EXCEPT ![RP] = @ \cup ({r} \X k.mask), ![GP] = @ \cup ({r} \X k.mask)]
       /\ work' = [work EXCEPT ![w] =
            [do |-> "user", user |-> k.user, home |-> k.tenant, role |-> r]]
  /\ drift' = IF Undisturbed(w) THEN drift \ {k.tenant} ELSE drift
  /\ UNCHANGED <<tenants, ceiling, users, home, session, served, endowed>>

(* set_allowed_permission_mask, whose flush writes nothing when the mask is the one that was   *)
(* loaded; then the lookup of the role named "tenant-admin".                                   *)
CommitCeiling(w) ==
  LET k == work[w] IN
  /\ k.do = "ceiling"
  /\ ceiling' = IF k.mask = k.loaded THEN ceiling ELSE [ceiling EXCEPT ![k.tenant] = k.mask]
  /\ Endow(k.tenant, k.mask)
  /\ drift' = drift \cup {k.tenant}
  /\ IF \A r \in root : owner[r] # k.tenant THEN Finish(w)
     ELSE \E r \in root :
            /\ owner[r] = k.tenant
            /\ work' = [work EXCEPT ![w] = [do |-> "sync", tenant |-> k.tenant, mask |-> k.mask,
                                            role |-> r, seen |-> PermissionsOf(r)]]
            /\ UNCHANGED session
  /\ UNCHANGED <<tenants, live, issued, root, owner, users, home, rows, served>>

(* Wrong variant: the role's own permissions are left as they were. *)
SyncedGrantableOnly(k) ==
  [rows EXCEPT ![GP] = {row \in @ : row[1] # k.role} \cup ({k.role} \X k.mask)]

(* The role's permissions change by the difference to what was loaded. *)
Synced(k) ==
  [rows EXCEPT ![RP] = (@ \ ({k.role} \X (k.seen \ k.mask))) \cup ({k.role} \X (k.mask \ k.seen)),
               ![GP] = {row \in @ : row[1] # k.role} \cup ({k.role} \X k.mask)]

(* sync_root_tenant_role_permissions *)
CommitSync(w) ==
  LET k == work[w] IN
  /\ k.do = "sync" /\ k.role \in live
  /\ PermissionsOf(k.role) \cap (k.mask \ k.seen) = {}
  /\ rows' = Synced(k)
  /\ drift' = IF Undisturbed(w) /\ PermissionsOf(k.role) = k.seen /\ k.role \in root
              THEN drift \ {k.tenant} ELSE drift
  /\ Finish(w)
  /\ UNCHANGED <<tenants, ceiling, live, issued, root, owner, users, home, served, endowed>>
-----------------------------------------------------------------------------
(* A tenant and something that is not the tenant's: a role's holder, or a role that grants. *)
Crosses(t) ==
  \/ \E u \in Users, r \in Roles : <<u, r>> \in rows[UR] /\ (home[u] = t) # (owner[r] = t)
  \/ \E r, x \in Roles : <<r, x>> \in rows[GR] /\ (owner[r] = t) # (owner[x] = t)

Remember ==
  /\ crossed' = crossed \cup {t \in Tenants : Crosses(t)'}
  /\ held' = [u \in Users |-> held[u] \cup Effective(u)']

Handler(w) ==
  /\ Undecided(w)
  /\ \/ \E t \in Tenants, N \in SUBSET Permissions, u \in Users : CreateTenant(w, t, N, u)
     \/ \E t \in Tenants, N \in SUBSET Permissions : UpdateTenantPermissions(w, t, N)
     \/ \E n \in BOOLEAN, N \in SUBSET Permissions : CreateRole(w, n, N)
     \/ \E r \in Roles, n \in BOOLEAN : UpdateRole(w, r, n)
     \/ \E r \in Roles : DeleteRole(w, r)
     \/ \E r \in Roles, p \in Permissions :
          \/ AddPermissionToRole(w, r, p) \/ RemovePermissionFromRole(w, r, p)
          \/ AddGrantablePermission(w, r, p) \/ RemoveGrantablePermission(w, r, p)
     \/ \E r, x \in Roles : AddGrantableRole(w, r, x) \/ RemoveGrantableRole(w, r, x)
     \/ \E u \in Users : CreateUser(w, u)
     \/ \E u \in Users, r \in Roles : AssignRole(w, u, r) \/ RemoveRole(w, u, r)
     \/ \E u \in Users, p \in Permissions : GrantPermission(w, u, p) \/ RevokePermission(w, u, p)

Commit(w) ==
  \/ InsertRow(w) \/ DeleteRow(w)
  \/ CommitRole(w) \/ LinkRole(w) \/ CommitRename(w) \/ CommitDrop(w)
  \/ CommitUser(w) \/ CommitTenant(w) \/ CommitRoot(w) \/ CommitCeiling(w) \/ CommitSync(w)

Next ==
  /\ \/ \E w \in Workers : \/ \E u \in Users : Begin(w, u)
                           \/ GiveUp(w) \/ Handler(w) \/ Commit(w)
     \/ \E u \in Users : Register(u)
  /\ Remember

Spec == Init /\ [][Next]_vars
-----------------------------------------------------------------------------
TypeOK ==
  /\ tenants \subseteq Tenants /\ ceiling \in [Tenants -> SUBSET Permissions]
  /\ live \subseteq issued /\ issued \subseteq Roles /\ root \subseteq live
  /\ owner \in [Roles -> Tenants \cup {Null}]
  /\ users \subseteq Users /\ home \in [Users -> Tenants \cup {Null}]
  /\ rows \in [TableNames -> SUBSET ((Users \cup Roles) \X (Roles \cup Permissions))]
  /\ \A n \in TableNames : rows[n] \subseteq Left(n) \X Right(n)
  /\ session \in [Workers -> Session \cup {Nobody}] /\ work \in [Workers -> Work]
  /\ \A w \in Workers : session[w] = Nobody => work[w] = Nothing
  /\ served \in Nat
  /\ endowed \in [Tenants -> SUBSET Permissions]
  /\ crossed \subseteq Tenants /\ drift \subseteq Tenants
  /\ held \in [Users -> SUBSET Permissions]

(* What the tenant's roles have or may grant, and what its users were granted directly. *)
Reach(t) == {p \in Permissions :
  \/ \E r \in Roles : owner[r] = t /\ (<<r, p>> \in rows[RP] \/ <<r, p>> \in rows[GP])
  \/ \E u \in Users : home[u] = t /\ <<u, p>> \in rows[UP]}

(* No sequence of requests of a tenant's own users, however they overlap, brings a permission   *)
(* within the tenant's reach that no superuser ever gave the tenant, as long as nothing links   *)
(* the tenant to global roles or other tenants.  role_service.py:163-202: "you can only let a   *)
(* role hand out delegation you yourself currently hold".                                       *)
NoEscalation == \A t \in Tenants \ crossed : Reach(t) \subseteq endowed[t]

(* tenant_service.py:81-87, role.py:97-107: after a ceiling update that nothing disturbed, the  *)
(* tenant-admin role stays within the ceiling until the next update, whatever the tenant's      *)
(* users do meanwhile; only a superuser's addition or a role renamed to it can break that.      *)
RootWithinCeiling ==
  \A r \in root : owner[r] \in Tenants \ drift => PermissionsOf(r) \subseteq ceiling[owner[r]]

(* role_service.py:34-47: what a request of a tenant's user adds to any role, the implied       *)
(* permissions included and in whichever of its commits, is within the tenant's ceiling,        *)
(* unless the ceiling changed after the request loaded it.                                      *)
NewPermissionsRespectCeiling ==
  [][\A w \in Workers :
       session[w] # Nobody /\ work'[w] # work[w] /\ ~Super(w) /\ Home(w) \in Tenants
         /\ session[w].ceil = ceiling[Home(w)]
       => \A r \in Roles : PermissionsOf(r)' \ PermissionsOf(r) \subseteq ceiling[Home(w)]]_vars
=============================================================================
