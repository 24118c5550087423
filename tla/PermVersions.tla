---------------------------- MODULE PermVersions ----------------------------
(***************************************************************************)
(* What an access token says and when it stops being true: roles with      *)
(* their cached permission mask, role membership, direct grants, and the   *)
(* perm_version that every mutation must move (RoleRepository,             *)
(* UserRepository, the services above them, mint_access_token).            *)
(*                                                                         *)
(* A handler loads ORM rows, checks them, and later commits constants      *)
(* computed from what it loaded; nothing locks the rows in between.  Only  *)
(* the role mutations bump perm_version in SQL, relative to the row as the *)
(* commit finds it.  A mask is the set of the permissions of its bits.     *)
(***************************************************************************)
EXTENDS Naturals

CONSTANTS
  Users,
  Roles,        \* role ids; a deleted one is not used again
  RootRoles,    \* "tenant-admin" roles, rewritten when the tenant's ceiling changes
  Permissions,  \* catalog rows, each with its bit
  Ceilings,     \* ceilings a superuser gives the tenant
  Implies,      \* PERMISSION_IMPLIES, transitively closed
  Requests,     \* mutation handlers that can run at the same time
  MaxVersion    \* bound: perm_version

ASSUME PermAssumption ==
  /\ RootRoles \subseteq Roles
  /\ Implies \in [Permissions -> SUBSET Permissions]
  /\ Ceilings \subseteq SUBSET Permissions
  /\ MaxVersion \in Nat \ {0}

VARIABLES
  alive,        \* rows of roles
  perms,        \* role_permissions
  mask,         \* roles.permission_mask
  member,       \* user_roles
  direct,       \* user_permissions
  version,      \* users.perm_version
  job,          \* what each mutation handler has loaded and is about to commit
  token,        \* the user's latest access token, its perm_version and perm_mask claims,
                \* and what its minting has read so far
  overlapped,   \* history: roles edited from a mask that another edit had replaced
  missed        \* history: users a role deletion or an overtaken grant has hit

tables == <<alive, perms, mask, member, direct, version>>
history == <<overlapped, missed>>
vars == <<tables, job, token, history>>

Idle == [op |-> "idle"]
Edit == [op: {"edit"}, role: Roles, insert: SUBSET Permissions, delete: SUBSET Permissions,
         loaded: SUBSET Permissions, new: SUBSET Permissions, implied: SUBSET Permissions]
More == [op: {"more"}, role: Roles, implied: SUBSET Permissions]
Link == [op: {"assign", "remove"}, user: Users, role: Roles]
Direct == [op: {"grant", "revoke"}, user: Users, perm: Permissions, loaded: 1..MaxVersion]
Job == {Idle} \cup Edit \cup More \cup Link \cup Direct

NoToken == [step |-> "none", version |-> 0, mask |-> {}]

Init ==
  /\ alive = Roles
  /\ perms \in [Roles -> SUBSET Permissions]
  /\ mask = perms
  /\ member \in [Users -> SUBSET Roles]
  /\ direct = [u \in Users |-> {}]
  /\ version = [u \in Users |-> 1]
  /\ job = [r \in Requests |-> Idle]
  /\ token = [u \in Users |-> NoToken]
  /\ overlapped = {}
  /\ missed = {}

RolesMask(u) == UNION {mask[a] : a \in member[u]}

(* effective_permission_mask: every role's cached mask and the direct grants. *)
Effective(u) == RolesMask(u) \cup direct[u]

Holders(a) == {u \in Users : a \in member[u]}
-----------------------------------------------------------------------------
(* Services: load rows, check, and decide what to commit. *)

Prepare(r, j) ==
  /\ job[r] = Idle
  /\ job' = [job EXCEPT ![r] = j]
  /\ UNCHANGED <<tables, token, history>>

AddOne(a, p, implied) ==
  [op |-> "edit", role |-> a, insert |-> {p}, delete |-> {},
   loaded |-> mask[a], new |-> mask[a] \cup {p}, implied |-> implied]

(* RoleService.add_permission_to_role: the permission, then what it implies. *)
AddPermission(r, a, p) ==
  /\ a \in alive /\ p \notin perms[a]
  /\ Prepare(r, AddOne(a, p, Implies[p] \ (perms[a] \cup {p})))

(* Wrong variant: the bit of a removed permission stays in the mask. *)
WithoutBitKept(m, p) == m

(* mask & ~bit *)
WithoutBit(m, p) == m \ {p}

RemovePermission(r, a, p) ==
  /\ a \in alive /\ p \in perms[a]
  /\ Prepare(r, [op |-> "edit", role |-> a, insert |-> {}, delete |-> {p},
                 loaded |-> mask[a], new |-> WithoutBit(mask[a], p), implied |-> {}])

(* sync_root_tenant_role_permissions: the role is rewritten to the new ceiling. *)
SyncRootRole(r, a, ceiling) ==
  /\ a \in alive \cap RootRoles
  /\ Prepare(r, [op |-> "edit", role |-> a, insert |-> ceiling \ perms[a], delete |-> perms[a] \ ceiling,
                 loaded |-> mask[a], new |-> ceiling, implied |-> {}])

(* UserManagementService.assign_role, remove_role *)
AssignRole(r, u, a) ==
  a \in alive \ member[u] /\ Prepare(r, [op |-> "assign", user |-> u, role |-> a])
RemoveRole(r, u, a) ==
  a \in alive \cap member[u] /\ Prepare(r, [op |-> "remove", user |-> u, role |-> a])

(* UserManagementService.grant_permission, revoke_permission *)
GrantPermission(r, u, p) ==
  p \notin direct[u] /\ Prepare(r, [op |-> "grant", user |-> u, perm |-> p, loaded |-> version[u]])
RevokePermission(r, u, p) ==
  p \in direct[u] /\ Prepare(r, [op |-> "revoke", user |-> u, perm |-> p, loaded |-> version[u]])
-----------------------------------------------------------------------------
(* Repositories: one transaction each. *)

Finish(r) == job' = [job EXCEPT ![r] = Idle]

(* An exception before the commit: a row inserted twice, a row that is gone, a crash. *)
Rollback(r) ==
  /\ job[r] # Idle
  /\ Finish(r)
  /\ UNCHANGED <<tables, token, history>>

(* Wrong variant: the bump is left out. *)
BumpForgotten(us) == UNCHANGED version

(* _bump_perm_version, _bump_perm_version_for_role_holders *)
Bump(us) ==
  /\ \A u \in us : version[u] < MaxVersion
  /\ version' = [u \in Users |-> version[u] + (IF u \in us THEN 1 ELSE 0)]

(* The flush leaves an attribute alone that was set to the value it had when loaded. *)
FlushMask(j) == IF j.new = j.loaded THEN mask ELSE [mask EXCEPT ![j.role] = j.new]

(* add_permission, remove_permission, sync_root_tenant_role_permissions *)
CommitEdit(r) ==
  LET j == job[r]
  IN /\ j.op = "edit" /\ j.role \in alive
     /\ j.insert \cap perms[j.role] = {}
     /\ perms' = [perms EXCEPT ![j.role] = (@ \ j.delete) \cup j.insert]
     /\ mask' = FlushMask(j)
     /\ Bump(Holders(j.role))
     /\ overlapped' = overlapped \cup (IF mask[j.role] = j.loaded THEN {} ELSE {j.role})
     /\ job' = [job EXCEPT ![r] = IF j.implied = {} THEN Idle
                                  ELSE [op |-> "more", role |-> j.role, implied |-> j.implied]]
     /\ UNCHANGED <<alive, member, direct, token, missed>>

(* db.refresh(role), then the next implied permission in a transaction of its own. *)
NextImplied(r) ==
  /\ job[r].op = "more" /\ job[r].role \in alive
  /\ \E p \in job[r].implied :
       job' = [job EXCEPT ![r] = AddOne(job[r].role, p, job[r].implied \ {p})]
  /\ UNCHANGED <<tables, token, history>>

(* assign_to_user; remove_from_user deletes a row that may be gone by now *)
CommitLink(r) ==
  LET j == job[r]
  IN /\ j.op \in {"assign", "remove"} /\ j.role \in alive
     /\ j.op = "assign" => j.role \notin member[j.user]
     /\ member' = [member EXCEPT ![j.user] = IF j.op = "assign" THEN @ \cup {j.role} ELSE @ \ {j.role}]
     /\ Bump({j.user})
     /\ Finish(r)
     /\ UNCHANGED <<alive, perms, mask, direct, token, history>>

(* UserRepository.grant_permission, revoke_permission: perm_version is the loaded one + 1. *)
CommitDirect(r) ==
  LET j == job[r]
  IN /\ j.op \in {"grant", "revoke"} /\ j.loaded < MaxVersion
     /\ j.op = "grant" => j.perm \notin direct[j.user]
     /\ direct' = [direct EXCEPT ![j.user] = IF j.op = "grant" THEN @ \cup {j.perm} ELSE @ \ {j.perm}]
     /\ version' = [version EXCEPT ![j.user] = j.loaded + 1]
     /\ missed' = missed \cup (IF version[j.user] = j.loaded THEN {} ELSE {j.user})
     /\ Finish(r)
     /\ UNCHANGED <<alive, perms, mask, member, token, overlapped>>

(* Wrong variant: the rows of user_roles are left behind. *)
UnlinkNothing(a) == member

(* The ORM empties user_roles of the deleted role. *)
Unlink(a) == [u \in Users |-> member[u] \ {a}]

(* RoleService.delete_role: no bump. *)
DeleteRole(a) ==
  /\ a \in alive
  /\ alive' = alive \ {a}
  /\ perms' = [perms EXCEPT ![a] = {}]
  /\ mask' = [mask EXCEPT ![a] = {}]
  /\ member' = Unlink(a)
  /\ missed' = missed \cup Holders(a)
  /\ UNCHANGED <<direct, version, job, token, overlapped>>
-----------------------------------------------------------------------------
(* mint_access_token over get_by_id_with_grants, which is several SELECTs: the user's row,
   then its roles, then its direct permissions. *)

MintReadUser(u) ==
  /\ token[u].step \in {"none", "minted"}
  /\ token' = [token EXCEPT ![u] = [step |-> "user", version |-> version[u], mask |-> {}]]
  /\ UNCHANGED <<tables, job, history>>

MintReadRoles(u) ==
  /\ token[u].step = "user"
  /\ token' = [token EXCEPT ![u] = [step |-> "roles", version |-> token[u].version, mask |-> RolesMask(u)]]
  /\ UNCHANGED <<tables, job, history>>

MintReadDirect(u) ==
  /\ token[u].step = "roles"
  /\ token' = [token EXCEPT ![u] = [step |-> "minted", version |-> token[u].version,
                                    mask |-> token[u].mask \cup direct[u]]]
  /\ UNCHANGED <<tables, job, history>>
-----------------------------------------------------------------------------
Handler(r) ==
  \/ \E a \in Roles, p \in Permissions : AddPermission(r, a, p) \/ RemovePermission(r, a, p)
  \/ \E a \in Roles, ceiling \in Ceilings : SyncRootRole(r, a, ceiling)
  \/ \E u \in Users, a \in Roles : AssignRole(r, u, a) \/ RemoveRole(r, u, a)
  \/ \E u \in Users, p \in Permissions : GrantPermission(r, u, p) \/ RevokePermission(r, u, p)
  \/ CommitEdit(r) \/ NextImplied(r) \/ CommitLink(r) \/ CommitDirect(r) \/ Rollback(r)

Next ==
  \/ \E r \in Requests : Handler(r)
  \/ \E a \in Roles : DeleteRole(a)
  \/ \E u \in Users : MintReadUser(u) \/ MintReadRoles(u) \/ MintReadDirect(u)

Spec == Init /\ [][Next]_vars
-----------------------------------------------------------------------------
(* Shapes, and what the foreign keys promise: nothing refers to a deleted role. *)
TypeOK ==
  /\ alive \in SUBSET Roles
  /\ perms \in [Roles -> SUBSET Permissions]
  /\ mask \in [Roles -> SUBSET Permissions]
  /\ member \in [Users -> SUBSET alive]
  /\ direct \in [Users -> SUBSET Permissions]
  /\ version \in [Users -> 1..MaxVersion]
  /\ job \in [Requests -> Job]
  /\ token \in [Users -> [step: {"none", "user", "roles", "minted"}, version: 0..MaxVersion,
                          mask: SUBSET Permissions]]
  /\ overlapped \in SUBSET Roles
  /\ missed \in SUBSET Users

(* The cached mask is the OR of the role's permissions' bits (Role.permission_mask), except
   where an edit was computed from a mask that another edit had already replaced: this is
   the ONLY way the two can part, whatever fails or runs in between. *)
MaskMatchesUnlessOverlapped == \A a \in Roles \ overlapped : mask[a] = perms[a]

(* is_stale against the committed perm_version: a token is accepted unless it is older. *)
Accepted(u) == token[u].step = "minted" /\ token[u].version >= version[u]

(* A token that perm_version does not outdate carries exactly the user's current effective
   mask, however many mutations ran between the SELECTs of its minting, unless the user
   lost a role by its deletion or was granted a permission by a handler that had loaded an
   overtaken perm_version: these are the ONLY two ways. *)
TokenIsHonest == \A u \in Users \ missed : Accepted(u) => token[u].mask = Effective(u)
=============================================================================
