------------------------- MODULE PermVersionsProofs -------------------------
(***************************************************************************)
(* Proofs about PermVersions, for any users, roles, permissions, implied   *)
(* permissions and concurrent handlers: the cached masks and the tokens    *)
(* are right unless one of the named overlaps happened.                    *)
(*                                                                         *)
(* Neither property is inductive alone.  A mask stays right because an     *)
(* edit in flight would turn the mask it loaded into the permissions it    *)
(* is about to write (EditsAreExact); a token stays honest because its     *)
(* perm_version never exceeds the user's (VersionsLead), and because what  *)
(* a minting has read so far is current until the version moves.           *)
(***************************************************************************)
EXTENDS PermVersions, TLAPS

EditsAreExact ==
  \A r \in Requests : job[r].op = "edit" /\ job[r].role \notin overlapped =>
    job[r].new = (job[r].loaded \ job[r].delete) \cup job[r].insert

VersionsLead == \A u \in Users \ missed : token[u].version <= version[u]

(* What a minting has read is what a mint would read now, while the version stands. *)
ReadsAreCurrent ==
  \A u \in Users \ missed : token[u].version = version[u] =>
    /\ token[u].step = "roles" => token[u].mask = RolesMask(u)
    /\ token[u].step = "minted" => token[u].mask = Effective(u)

MaskInv == TypeOK /\ EditsAreExact /\ MaskMatchesUnlessOverlapped

IndInv == MaskInv /\ VersionsLead /\ ReadsAreCurrent

LEMMA InitInv == Init => IndInv
<1> SUFFICES ASSUME Init PROVE IndInv
  OBVIOUS
<1> USE PermAssumption DEF Init
<1>1. TypeOK
  BY DEF TypeOK, Job, Idle, NoToken
<1>2. EditsAreExact /\ MaskMatchesUnlessOverlapped
  BY DEF EditsAreExact, MaskMatchesUnlessOverlapped, Idle
<1>3. VersionsLead /\ ReadsAreCurrent
  BY DEF VersionsLead, ReadsAreCurrent, NoToken
<1> QED
  BY <1>1, <1>2, <1>3 DEF IndInv, MaskInv
-----------------------------------------------------------------------------
(* Steps that only load rows or drop what was loaded. *)

LEMMA PrepareTyping ==
  ASSUME TypeOK, NEW r \in Requests, NEW j \in Job, Prepare(r, j)
  PROVE  TypeOK'
BY DEF TypeOK, Prepare, tables, history

LEMMA PreparePreserves ==
  ASSUME IndInv, NEW r \in Requests, NEW j \in Job, Prepare(r, j),
         j.op = "edit" /\ j.role \notin overlapped => j.new = (j.loaded \ j.delete) \cup j.insert
  PROVE  IndInv'
<1>1. TypeOK'
  BY PrepareTyping DEF IndInv, MaskInv
<1>2. EditsAreExact'
  BY DEF IndInv, MaskInv, EditsAreExact, TypeOK, Prepare, history
<1>3. UNCHANGED <<tables, token, history>>
  BY DEF Prepare
<1>4. MaskMatchesUnlessOverlapped' /\ VersionsLead' /\ ReadsAreCurrent'
  BY <1>3 DEF IndInv, MaskInv, MaskMatchesUnlessOverlapped, VersionsLead, ReadsAreCurrent,
              RolesMask, Effective, tables, history
<1> QED
  BY <1>1, <1>2, <1>4 DEF IndInv, MaskInv

(* What each service prepares is a job, and an exact edit. *)
LEMMA AddOneIsExact ==
  ASSUME TypeOK, NEW a \in Roles, NEW p \in Permissions, NEW implied \in SUBSET Permissions
  PROVE  /\ AddOne(a, p, implied) \in Job
         /\ AddOne(a, p, implied).op = "edit"
         /\ AddOne(a, p, implied).role = a
         /\ AddOne(a, p, implied).new
              = (AddOne(a, p, implied).loaded \ AddOne(a, p, implied).delete) \cup AddOne(a, p, implied).insert
<1>1. AddOne(a, p, implied) \in Edit
  BY DEF AddOne, Edit, TypeOK
<1> QED
  BY <1>1 DEF AddOne, Job

LEMMA AddPermissionPreserves ==
  ASSUME IndInv, NEW r \in Requests, NEW a \in Roles, NEW p \in Permissions, AddPermission(r, a, p)
  PROVE  IndInv'
<1>1. Implies[p] \ (perms[a] \cup {p}) \in SUBSET Permissions
  BY PermAssumption
<1> QED
  BY <1>1, AddOneIsExact, PreparePreserves DEF AddPermission, IndInv, MaskInv

LEMMA RemovePermissionPreserves ==
  ASSUME IndInv, NEW r \in Requests, NEW a \in Roles, NEW p \in Permissions, RemovePermission(r, a, p)
  PROVE  IndInv'
<1> DEFINE j == [op |-> "edit", role |-> a, insert |-> {}, delete |-> {p},
                 loaded |-> mask[a], new |-> WithoutBit(mask[a], p), implied |-> {}]
<1>1. j \in Edit
  BY DEF Edit, WithoutBit, IndInv, MaskInv, TypeOK
<1>2. j \in Job /\ j.new = (j.loaded \ j.delete) \cup j.insert
  BY <1>1 DEF Job, WithoutBit
<1> QED
  BY <1>2, PreparePreserves DEF RemovePermission

(* The ceiling replaces the mask: exact because the mask loaded was right. *)
LEMMA SyncRootRolePreserves ==
  ASSUME IndInv, NEW r \in Requests, NEW a \in Roles, NEW ceiling \in Ceilings, SyncRootRole(r, a, ceiling)
  PROVE  IndInv'
<1> DEFINE j == [op |-> "edit", role |-> a, insert |-> ceiling \ perms[a], delete |-> perms[a] \ ceiling,
                 loaded |-> mask[a], new |-> ceiling, implied |-> {}]
<1>1. j \in Edit
  BY PermAssumption DEF Edit, IndInv, MaskInv, TypeOK
<1>2. a \notin overlapped => mask[a] = perms[a]
  BY DEF IndInv, MaskInv, MaskMatchesUnlessOverlapped
<1>3. j \in Job /\ (j.role \notin overlapped => j.new = (j.loaded \ j.delete) \cup j.insert)
  BY <1>1, <1>2 DEF Job
<1> QED
  BY <1>3, PreparePreserves DEF SyncRootRole

LEMMA LinkPreserves ==
  ASSUME IndInv, NEW r \in Requests, NEW u \in Users, NEW a \in Roles,
         AssignRole(r, u, a) \/ RemoveRole(r, u, a)
  PROVE  IndInv'
BY PreparePreserves DEF AssignRole, RemoveRole, Job, Link

LEMMA DirectPreserves ==
  ASSUME IndInv, NEW r \in Requests, NEW u \in Users, NEW p \in Permissions,
         GrantPermission(r, u, p) \/ RevokePermission(r, u, p)
  PROVE  IndInv'
<1>1. version[u] \in 1..MaxVersion
  BY DEF IndInv, MaskInv, TypeOK
<1> QED
  BY <1>1, PreparePreserves DEF GrantPermission, RevokePermission, Job, Direct
-----------------------------------------------------------------------------
LEMMA RollbackPreserves ==
  ASSUME IndInv, NEW r \in Requests, Rollback(r)
  PROVE  IndInv'
BY DEF Rollback, Finish, Idle, IndInv, MaskInv, TypeOK, Job, EditsAreExact, MaskMatchesUnlessOverlapped,
       VersionsLead, ReadsAreCurrent, RolesMask, Effective, tables, history

LEMMA NextImpliedPreserves ==
  ASSUME IndInv, NEW r \in Requests, NextImplied(r)
  PROVE  IndInv'
<1>1. PICK p \in job[r].implied :
        job' = [job EXCEPT ![r] = AddOne(job[r].role, p, job[r].implied \ {p})]
  BY DEF NextImplied
<1>2. job[r] \in More
  BY DEF NextImplied, IndInv, MaskInv, TypeOK, Job, Idle, Edit, Link, Direct
<1>3. job[r].role \in Roles /\ p \in Permissions /\ job[r].implied \ {p} \in SUBSET Permissions
  BY <1>1, <1>2 DEF More
<1> DEFINE j == AddOne(job[r].role, p, job[r].implied \ {p})
<1>4. j \in Job /\ j.op = "edit" /\ j.role = job[r].role /\ j.new = (j.loaded \ j.delete) \cup j.insert
  BY <1>3, AddOneIsExact DEF IndInv, MaskInv
<1>5. UNCHANGED <<tables, token, history>>
  BY DEF NextImplied
<1> HIDE DEF j
<1>6. TypeOK'
  BY <1>1, <1>4, <1>5 DEF j, IndInv, MaskInv, TypeOK, tables, history
<1>7. EditsAreExact'
  BY <1>1, <1>4, <1>5 DEF j, IndInv, MaskInv, TypeOK, EditsAreExact, history
<1>8. MaskMatchesUnlessOverlapped' /\ VersionsLead' /\ ReadsAreCurrent'
  BY <1>5 DEF IndInv, MaskInv, MaskMatchesUnlessOverlapped, VersionsLead, ReadsAreCurrent,
              RolesMask, Effective, tables, history
<1> QED
  BY <1>6, <1>7, <1>8 DEF IndInv, MaskInv

(* A bump moves the versions of us by one and no others. *)
LEMMA BumpMoves ==
  ASSUME TypeOK, NEW us \in SUBSET Users, Bump(us)
  PROVE  /\ version' \in [Users -> 1..MaxVersion]
         /\ \A u \in us : version'[u] = version[u] + 1
         /\ \A u \in Users \ us : version'[u] = version[u]
BY PermAssumption DEF Bump, TypeOK

(* Moving the version of everyone whose masks change keeps tokens honest. *)
LEMMA BumpKeepsTokens ==
  ASSUME IndInv, NEW us \in SUBSET Users, Bump(us), UNCHANGED <<token, missed>>,
         \A u \in Users \ us : RolesMask(u)' = RolesMask(u) /\ Effective(u)' = Effective(u)
  PROVE  VersionsLead' /\ ReadsAreCurrent'
<1> USE PermAssumption
<1>1. /\ \A u \in us : version'[u] = version[u] + 1
      /\ \A u \in Users \ us : version'[u] = version[u]
  BY BumpMoves DEF IndInv, MaskInv
<1>2. \A u \in Users : version[u] \in Nat /\ token[u].version \in Nat
  BY DEF IndInv, MaskInv, TypeOK
<1>3. VersionsLead'
  BY <1>1, <1>2 DEF IndInv, VersionsLead
<1>4. \A u \in us \ missed : token[u].version # version'[u]
  BY <1>1, <1>2 DEF IndInv, VersionsLead
<1>5. ReadsAreCurrent'
  BY <1>1, <1>4 DEF IndInv, ReadsAreCurrent
<1> QED
  BY <1>3, <1>5

LEMMA CommitEditPreserves ==
  ASSUME IndInv, NEW r \in Requests, CommitEdit(r)
  PROVE  IndInv'
<1> DEFINE j == job[r]
           us == Holders(j.role)
<1> USE PermAssumption
<1>1. j \in Edit
  BY DEF CommitEdit, IndInv, MaskInv, TypeOK, Job, Idle, More, Link, Direct
<1>2. /\ j.role \in Roles /\ j.insert \in SUBSET Permissions /\ j.delete \in SUBSET Permissions
      /\ j.new \in SUBSET Permissions /\ j.implied \in SUBSET Permissions
  BY <1>1 DEF Edit
<1>3. us \in SUBSET Users
  BY DEF Holders
<1>4. /\ perms' = [perms EXCEPT ![j.role] = (@ \ j.delete) \cup j.insert]
      /\ mask' = FlushMask(j)
      /\ Bump(us)
      /\ overlapped' = overlapped \cup (IF mask[j.role] = j.loaded THEN {} ELSE {j.role})
      /\ job' = [job EXCEPT ![r] = IF j.implied = {} THEN Idle
                                   ELSE [op |-> "more", role |-> j.role, implied |-> j.implied]]
      /\ UNCHANGED <<alive, member, direct, token, missed>>
  BY DEF CommitEdit
<1>5. version' \in [Users -> 1..MaxVersion]
  BY <1>3, <1>4, BumpMoves DEF IndInv, MaskInv
<1>6. mask' \in [Roles -> SUBSET Permissions] /\ \A a \in Roles \ {j.role} : mask'[a] = mask[a]
  BY <1>2, <1>4 DEF FlushMask, IndInv, MaskInv, TypeOK
<1>7. job' \in [Requests -> Job] /\ job'[r].op # "edit" /\ \A q \in Requests \ {r} : job'[q] = job[q]
  <2>1. [op |-> "more", role |-> j.role, implied |-> j.implied] \in Job /\ Idle \in Job
    BY <1>2 DEF Job, More
  <2> QED
    BY <2>1, <1>4 DEF IndInv, MaskInv, TypeOK, Idle
<1>8. TypeOK'
  BY <1>2, <1>4, <1>5, <1>6, <1>7 DEF IndInv, MaskInv, TypeOK
<1>9. EditsAreExact'
  BY <1>4, <1>7 DEF IndInv, MaskInv, EditsAreExact
<1>10. MaskMatchesUnlessOverlapped'
  <2> SUFFICES ASSUME NEW a \in Roles \ overlapped' PROVE mask'[a] = perms'[a]
    BY DEF MaskMatchesUnlessOverlapped
  <2>1. mask[a] = perms[a]
    BY <1>4 DEF IndInv, MaskInv, MaskMatchesUnlessOverlapped
  <2>2. CASE a # j.role
    BY <2>1, <2>2, <1>4, <1>6 DEF IndInv, MaskInv, TypeOK
  <2>3. CASE a = j.role
    <3>1. mask[a] = j.loaded
      BY <2>3, <1>4
    <3>2. j.new = (j.loaded \ j.delete) \cup j.insert
      BY <2>3, <1>4 DEF IndInv, MaskInv, EditsAreExact, CommitEdit
    <3>3. mask'[a] = j.new
      BY <2>3, <3>1, <1>4 DEF FlushMask, IndInv, MaskInv, TypeOK
    <3>4. perms'[a] = (perms[a] \ j.delete) \cup j.insert
      BY <2>3, <1>2, <1>4 DEF IndInv, MaskInv, TypeOK
    <3> QED
      BY <2>1, <3>1, <3>2, <3>3, <3>4
  <2> QED
    BY <2>2, <2>3
<1>11. \A u \in Users \ us : RolesMask(u)' = RolesMask(u) /\ Effective(u)' = Effective(u)
  <2> SUFFICES ASSUME NEW u \in Users \ us PROVE RolesMask(u)' = RolesMask(u)
    BY <1>4 DEF Effective
  <2>1. member'[u] = member[u] /\ \A a \in member[u] : mask'[a] = mask[a]
    BY <1>4, <1>6 DEF Holders, IndInv, MaskInv, TypeOK
  <2> QED
    BY <2>1 DEF RolesMask
<1>12. VersionsLead' /\ ReadsAreCurrent'
  BY <1>3, <1>4, <1>11, BumpKeepsTokens
<1> QED
  BY <1>8, <1>9, <1>10, <1>12 DEF IndInv, MaskInv

LEMMA CommitLinkPreserves ==
  ASSUME IndInv, NEW r \in Requests, CommitLink(r)
  PROVE  IndInv'
<1> DEFINE j == job[r]
<1> USE PermAssumption
<1>1. j.user \in Users /\ j.role \in alive
  BY DEF CommitLink, IndInv, MaskInv, TypeOK, Job, Link, Idle, Edit, More, Direct
<1>2. /\ member' = [member EXCEPT ![j.user] = IF j.op = "assign" THEN @ \cup {j.role} ELSE @ \ {j.role}]
      /\ Bump({j.user})
      /\ job' = [job EXCEPT ![r] = Idle]
      /\ UNCHANGED <<alive, perms, mask, direct, token, overlapped, missed>>
  BY DEF CommitLink, Finish, history
<1>3. version' \in [Users -> 1..MaxVersion]
  BY <1>1, <1>2, BumpMoves DEF IndInv, MaskInv
<1>4. TypeOK'
  BY <1>1, <1>2, <1>3 DEF IndInv, MaskInv, TypeOK, Job
<1>5. EditsAreExact' /\ MaskMatchesUnlessOverlapped'
  BY <1>2 DEF IndInv, MaskInv, TypeOK, EditsAreExact, MaskMatchesUnlessOverlapped, Idle
<1>6. \A u \in Users \ {j.user} : RolesMask(u)' = RolesMask(u) /\ Effective(u)' = Effective(u)
  BY <1>2 DEF RolesMask, Effective, IndInv, MaskInv, TypeOK
<1>7. VersionsLead' /\ ReadsAreCurrent'
  BY <1>1, <1>2, <1>6, BumpKeepsTokens
<1> QED
  BY <1>4, <1>5, <1>7 DEF IndInv, MaskInv

(* Users not in missed' see their own version grow by one, like a bump. *)
LEMMA CommitDirectPreserves ==
  ASSUME IndInv, NEW r \in Requests, CommitDirect(r)
  PROVE  IndInv'
<1> DEFINE j == job[r]
<1> USE PermAssumption
<1>1. j.user \in Users /\ j.perm \in Permissions /\ j.loaded \in 1..MaxVersion
  BY DEF CommitDirect, IndInv, MaskInv, TypeOK, Job, Link, Idle, Edit, More, Direct
<1>2. /\ j.loaded < MaxVersion
      /\ direct' = [direct EXCEPT ![j.user] = IF j.op = "grant" THEN @ \cup {j.perm} ELSE @ \ {j.perm}]
      /\ version' = [version EXCEPT ![j.user] = j.loaded + 1]
      /\ missed' = missed \cup (IF version[j.user] = j.loaded THEN {} ELSE {j.user})
      /\ job' = [job EXCEPT ![r] = Idle]
      /\ UNCHANGED <<alive, perms, mask, member, token, overlapped>>
  BY DEF CommitDirect, Finish
<1>3. TypeOK'
  BY <1>1, <1>2 DEF IndInv, MaskInv, TypeOK, Job
<1>4. EditsAreExact' /\ MaskMatchesUnlessOverlapped'
  BY <1>2 DEF IndInv, MaskInv, TypeOK, EditsAreExact, MaskMatchesUnlessOverlapped, Idle
<1>5. \A u \in Users : RolesMask(u)' = RolesMask(u)
  BY <1>2 DEF RolesMask
<1>6. \A u \in Users \ {j.user} : Effective(u)' = Effective(u) /\ version'[u] = version[u]
  BY <1>2, <1>5 DEF Effective, IndInv, MaskInv, TypeOK
<1>7. \A u \in Users : version[u] \in Nat /\ token[u].version \in Nat
  BY DEF IndInv, MaskInv, TypeOK
<1>8. j.user \notin missed' => version'[j.user] = version[j.user] + 1
  BY <1>1, <1>2 DEF IndInv, MaskInv, TypeOK
<1>9. \A u \in Users \ missed' : u \notin missed
  BY <1>2
<1>10. VersionsLead'
  BY <1>2, <1>6, <1>7, <1>8, <1>9 DEF IndInv, VersionsLead
<1>11. j.user \notin missed' => token[j.user].version # version'[j.user]
  BY <1>1, <1>7, <1>8, <1>9 DEF IndInv, VersionsLead
<1>12. ReadsAreCurrent'
  BY <1>2, <1>5, <1>6, <1>9, <1>11 DEF IndInv, ReadsAreCurrent
<1> QED
  BY <1>3, <1>4, <1>10, <1>12 DEF IndInv, MaskInv

LEMMA DeleteRolePreserves ==
  ASSUME IndInv, NEW a \in Roles, DeleteRole(a)
  PROVE  IndInv'
<1>1. TypeOK'
  <2>1. member' \in [Users -> SUBSET alive']
    BY DEF DeleteRole, Unlink, IndInv, MaskInv, TypeOK
  <2>2. perms' \in [Roles -> SUBSET Permissions] /\ mask' \in [Roles -> SUBSET Permissions]
    BY DEF DeleteRole, IndInv, MaskInv, TypeOK
  <2>3. alive' \in SUBSET Roles /\ missed' \in SUBSET Users
    BY DEF DeleteRole, Holders, IndInv, MaskInv, TypeOK
  <2> QED
    BY <2>1, <2>2, <2>3 DEF DeleteRole, IndInv, MaskInv, TypeOK
<1>2. EditsAreExact' /\ MaskMatchesUnlessOverlapped'
  BY DEF DeleteRole, IndInv, MaskInv, TypeOK, EditsAreExact, MaskMatchesUnlessOverlapped
<1>3. VersionsLead'
  BY DEF DeleteRole, IndInv, VersionsLead
<1>4. \A u \in Users \ missed' : RolesMask(u)' = RolesMask(u) /\ u \notin missed
  <2> SUFFICES ASSUME NEW u \in Users \ missed' PROVE RolesMask(u)' = RolesMask(u) /\ u \notin missed
    OBVIOUS
  <2>1. a \notin member[u] /\ u \notin missed
    BY DEF DeleteRole, Holders
  <2>2. member'[u] = member[u] /\ \A b \in member[u] : mask'[b] = mask[b]
    BY <2>1 DEF DeleteRole, Unlink, IndInv, MaskInv, TypeOK
  <2> QED
    BY <2>1, <2>2 DEF RolesMask
<1>5. ReadsAreCurrent'
  BY <1>4 DEF DeleteRole, IndInv, ReadsAreCurrent, Effective
<1> QED
  BY <1>1, <1>2, <1>3, <1>5 DEF IndInv, MaskInv

(* The version is read first: if nothing moved it since, every later read is of one state. *)
LEMMA MintPreserves ==
  ASSUME IndInv, NEW u \in Users, MintReadUser(u) \/ MintReadRoles(u) \/ MintReadDirect(u)
  PROVE  IndInv'
<1> USE PermAssumption
<1>1. UNCHANGED <<tables, job, history>> /\ \A v \in Users \ {u} : token'[v] = token[v]
  BY DEF MintReadUser, MintReadRoles, MintReadDirect, IndInv, MaskInv, TypeOK
<1>2. \A v \in Users : RolesMask(v)' = RolesMask(v) /\ Effective(v)' = Effective(v)
  BY <1>1 DEF RolesMask, Effective, tables
<1>3. /\ RolesMask(u) \in SUBSET Permissions
      /\ version[u] \in 1..MaxVersion
      /\ token[u] \in [step: {"none", "user", "roles", "minted"}, version: 0..MaxVersion, mask: SUBSET Permissions]
  BY DEF RolesMask, IndInv, MaskInv, TypeOK
<1>4. /\ token' \in [Users -> [step: {"none", "user", "roles", "minted"}, version: 0..MaxVersion,
                              mask: SUBSET Permissions]]
      /\ \/ token'[u].step = "user" /\ token'[u].version = version[u]
         \/ /\ token'[u].version = token[u].version
            /\ token'[u].step = "roles" /\ token'[u].mask = RolesMask(u)
         \/ /\ token'[u].version = token[u].version /\ token[u].step = "roles"
            /\ token'[u].step = "minted" /\ token'[u].mask = token[u].mask \cup direct[u]
  <2> DEFINE t == token[u]
             T == [step: {"none", "user", "roles", "minted"}, version: 0..MaxVersion, mask: SUBSET Permissions]
             Put(x) == token' = [token EXCEPT ![u] = x]
  <2>1. token \in [Users -> T] /\ direct[u] \in SUBSET Permissions
    BY DEF IndInv, MaskInv, TypeOK
  <2>2. CASE MintReadUser(u)
    <3> DEFINE x == [step |-> "user", version |-> version[u], mask |-> {}]
    <3>1. Put(x) /\ x \in T
      BY <2>2, <1>3 DEF MintReadUser
    <3> QED
      BY <2>1, <3>1
  <2>3. CASE MintReadRoles(u)
    <3> DEFINE x == [step |-> "roles", version |-> t.version, mask |-> RolesMask(u)]
    <3>1. Put(x)
      BY <2>3 DEF MintReadRoles
    <3>2. x \in T /\ x.version = t.version /\ x.step = "roles" /\ x.mask = RolesMask(u)
      BY <1>3
    <3> HIDE DEF x
    <3> QED
      BY <2>1, <3>1, <3>2
  <2>4. CASE MintReadDirect(u)
    <3> DEFINE x == [step |-> "minted", version |-> t.version, mask |-> t.mask \cup direct[u]]
    <3>1. Put(x) /\ t.step = "roles"
      BY <2>4 DEF MintReadDirect
    <3>2. x \in T /\ x.version = t.version /\ x.step = "minted" /\ x.mask = t.mask \cup direct[u]
      BY <1>3, <2>1
    <3> HIDE DEF x
    <3> QED
      BY <2>1, <3>1, <3>2
  <2> QED
    BY <2>2, <2>3, <2>4
<1>5. TypeOK'
  BY <1>1, <1>4 DEF IndInv, MaskInv, TypeOK, tables, history
<1>6. EditsAreExact' /\ MaskMatchesUnlessOverlapped'
  BY <1>1 DEF IndInv, MaskInv, EditsAreExact, MaskMatchesUnlessOverlapped, tables, history
<1>7. VersionsLead'
  BY <1>1, <1>3, <1>4 DEF IndInv, VersionsLead, tables, history
<1>8. u \notin missed /\ token'[u].version = version[u] =>
        /\ token'[u].step = "roles" => token'[u].mask = RolesMask(u)
        /\ token'[u].step = "minted" => token'[u].mask = Effective(u)
  BY <1>4 DEF IndInv, ReadsAreCurrent, Effective
<1>9. ReadsAreCurrent'
  BY <1>1, <1>2, <1>8 DEF IndInv, ReadsAreCurrent, tables, history
<1> QED
  BY <1>5, <1>6, <1>7, <1>9 DEF IndInv, MaskInv

LEMMA StutterPreserves ==
  ASSUME IndInv, UNCHANGED vars
  PROVE  IndInv'
BY DEF vars, tables, history, IndInv, MaskInv, TypeOK, EditsAreExact, MaskMatchesUnlessOverlapped,
       VersionsLead, ReadsAreCurrent, RolesMask, Effective
-----------------------------------------------------------------------------
LEMMA HandlerPreserves ==
  ASSUME IndInv, NEW r \in Requests, Handler(r)
  PROVE  IndInv'
<1>1. CASE \E a \in Roles, p \in Permissions : AddPermission(r, a, p) \/ RemovePermission(r, a, p)
  BY <1>1, AddPermissionPreserves, RemovePermissionPreserves
<1>2. CASE \E a \in Roles, ceiling \in Ceilings : SyncRootRole(r, a, ceiling)
  BY <1>2, SyncRootRolePreserves
<1>3. CASE \E u \in Users, a \in Roles : AssignRole(r, u, a) \/ RemoveRole(r, u, a)
  BY <1>3, LinkPreserves
<1>4. CASE \E u \in Users, p \in Permissions : GrantPermission(r, u, p) \/ RevokePermission(r, u, p)
  BY <1>4, DirectPreserves
<1>5. CASE CommitEdit(r)
  BY <1>5, CommitEditPreserves
<1>6. CASE NextImplied(r)
  BY <1>6, NextImpliedPreserves
<1>7. CASE CommitLink(r)
  BY <1>7, CommitLinkPreserves
<1>8. CASE CommitDirect(r)
  BY <1>8, CommitDirectPreserves
<1>9. CASE Rollback(r)
  BY <1>9, RollbackPreserves
<1> QED
  BY <1>1, <1>2, <1>3, <1>4, <1>5, <1>6, <1>7, <1>8, <1>9 DEF Handler

(* The inductive invariant, for any number of users, roles, permissions and handlers. *)
THEOREM Invariance == Spec => []IndInv
<1>1. IndInv /\ [Next]_vars => IndInv'
  <2> SUFFICES ASSUME IndInv, [Next]_vars PROVE IndInv'
    OBVIOUS
  <2>1. CASE \E r \in Requests : Handler(r)
    BY <2>1, HandlerPreserves
  <2>2. CASE \E a \in Roles : DeleteRole(a)
    BY <2>2, DeleteRolePreserves
  <2>3. CASE \E u \in Users : MintReadUser(u) \/ MintReadRoles(u) \/ MintReadDirect(u)
    BY <2>3, MintPreserves
  <2>4. CASE UNCHANGED vars
    BY <2>4, StutterPreserves
  <2> QED
    BY <2>1, <2>2, <2>3, <2>4 DEF Next
<1> QED
  BY InitInv, <1>1, PTL DEF Spec
-----------------------------------------------------------------------------
(* Rows, jobs and tokens keep their shapes, and no user holds a role that was deleted
   (Role.users, user_roles.role_id). *)
THEOREM TypeCorrect == Spec => []TypeOK
<1>1. IndInv => TypeOK
  BY DEF IndInv, MaskInv
<1> QED
  BY Invariance, <1>1, PTL

(* RoleRepository.add_permission, remove_permission and sync_root_tenant_role_permissions
   part a role's cached mask from its permissions in one way only: an edit committed from
   a mask that another edit had replaced. *)
THEOREM MasksMatch == Spec => []MaskMatchesUnlessOverlapped
<1>1. IndInv => MaskMatchesUnlessOverlapped
  BY DEF IndInv, MaskInv
<1> QED
  BY Invariance, <1>1, PTL

(* AuthzCache.is_stale over perm_version is enough: except for the users that a role
   deletion or an overtaken grant has hit, a token that is accepted carries the mask its
   user has now, whatever ran between the SELECTs of mint_access_token. *)
THEOREM TokensAreHonest == Spec => []TokenIsHonest
<1>1. IndInv => TokenIsHonest
  <2> SUFFICES ASSUME IndInv, NEW u \in Users \ missed, Accepted(u)
               PROVE  token[u].mask = Effective(u)
    BY DEF TokenIsHonest
  <2>1. token[u].version \in Nat /\ version[u] \in Nat
    BY PermAssumption DEF IndInv, MaskInv, TypeOK
  <2>2. token[u].version = version[u]
    BY <2>1 DEF IndInv, VersionsLead, Accepted
  <2> QED
    BY <2>2 DEF IndInv, ReadsAreCurrent, Accepted
<1> QED
  BY Invariance, <1>1, PTL
=============================================================================
