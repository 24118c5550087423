-------------------------- MODULE DelegationProofs --------------------------
(* Proofs about Delegation, for any tenants, users, roles, permissions and number of requests. *)
EXTENDS Delegation, TLAPS

(* What is right about a write that request w is about to commit. *)
InsertOK(w, k) ==
  k.do = "insert" =>
    /\ k.table # RP => k.next = {}
    /\ k.table = UP => k.of \in users
    /\ k.table \in {RP, GP} => k.of \in issued
    /\ ~Super(w) /\ k.table \in {RP, GP} => owner[k.of] \in {Null, Home(w)}
    /\ ~Super(w) /\ k.table = UP => home[k.of] = Home(w)
    /\ ~Super(w) /\ k.table = RP => {k.to} \cup k.next \subseteq session[w].ceil
    /\ ~Super(w) /\ k.table \in {RP, GP, UP} /\ Home(w) \in Tenants \ crossed
         => {k.to} \cup k.next \subseteq endowed[Home(w)]

RoleOK(w, k) ==
  k.do = "role" =>
    /\ Super(w) => k.owner = Null
    /\ ~Super(w) => k.owner = Home(w) /\ k.mask \subseteq session[w].ceil
    /\ ~Super(w) /\ Home(w) \in Tenants \ crossed => k.mask \subseteq endowed[Home(w)]

TenantOK(w, k) ==
  /\ k.do \in {"tenant", "root", "ceiling", "sync"} => Super(w)
  /\ k.do \in {"root", "sync"} => k.tenant \in drift /\ k.mask \subseteq endowed[k.tenant]
  /\ k.do = "sync" => k.role \in issued /\ owner[k.role] = k.tenant

WorkOK(w, k) == InsertOK(w, k) /\ RoleOK(w, k) /\ TenantOK(w, k)

(* What a request has loaded is still good for: its roles are the tenant's, unless the tenant   *)
(* is crossed, and its ceiling is the tenant's, unless the tenant drifts.                       *)
SessionOK(w) ==
  session[w] # Nobody =>
    /\ session[w].actor \in users
    /\ session[w].roles \subseteq issued
    /\ Home(w) \in Tenants \ crossed => \A r \in session[w].roles : owner[r] = Home(w)
    /\ Home(w) \in Tenants \ drift => session[w].ceil = ceiling[Home(w)]

(* No row without its role or user. *)
RowsOK ==
  /\ \A r \in Roles, p \in Permissions : <<r, p>> \in rows[RP] \/ <<r, p>> \in rows[GP] => r \in live
  /\ \A u \in Users, p \in Permissions : <<u, p>> \in rows[UP] => u \in users
  /\ \A u \in Users, r \in Roles : <<u, r>> \in rows[UR] => r \in live

SupersOK == \A u \in Superusers : u \in users /\ home[u] = Null

CrossedOK == \A t \in Tenants : Crosses(t) => t \in crossed

RootsUnique == \A r, x \in root : owner[r] = owner[x] => r = x

IInv ==
  /\ TypeOK
  /\ RowsOK /\ SupersOK /\ CrossedOK /\ RootsUnique
  /\ \A w \in Workers : SessionOK(w) /\ WorkOK(w, work[w])
  /\ NoEscalation /\ RootWithinCeiling

LEMMA InitInv == Init => IInv
<1> SUFFICES ASSUME Init PROVE IInv
  OBVIOUS
<1> USE DelegationAssumption DEF Init
<1>1. TypeOK
  BY DEF TypeOK, Work, TableNames
<1>2. RowsOK /\ SupersOK /\ CrossedOK /\ RootsUnique
  BY DEF RowsOK, SupersOK, CrossedOK, Crosses, RootsUnique, TableNames, RP, GP, UP, UR, GR
<1>3. \A w \in Workers : SessionOK(w) /\ WorkOK(w, work[w])
  BY DEF SessionOK, WorkOK, InsertOK, RoleOK, TenantOK, Nothing
<1>4. NoEscalation /\ RootWithinCeiling
  BY DEF NoEscalation, Reach, RootWithinCeiling, TableNames, RP, GP, UP
<1> QED
  BY <1>1, <1>2, <1>3, <1>4 DEF IInv
-----------------------------------------------------------------------------
(* What every step does to the histories, and what a step leaves of what others rely on. *)

LEMMA Remembered ==
  ASSUME TypeOK, Remember
  PROVE  crossed \subseteq crossed' /\ crossed' \subseteq Tenants /\ CrossedOK'
         /\ held' \in [Users -> SUBSET Permissions]
<1>1. crossed \subseteq crossed' /\ crossed' \subseteq Tenants /\ CrossedOK'
  BY DEF TypeOK, Remember, CrossedOK
<1>2. \A u \in Users : Effective(u)' \subseteq Permissions
  BY DEF Effective
<1>3. held' \in [Users -> SUBSET Permissions]
  BY <1>2 DEF TypeOK, Remember
<1> QED
  BY <1>1, <1>3

(* Rows are never given to another tenant, and what was endowed stays so. *)
Grows ==
  /\ users \subseteq users' /\ \A u \in users : home'[u] = home[u]
  /\ issued \subseteq issued' /\ \A r \in issued : owner'[r] = owner[r]
  /\ \A t \in Tenants : endowed[t] \subseteq endowed'[t]
  /\ crossed \subseteq crossed'

LEMMA OthersKeep ==
  ASSUME TypeOK, Grows, NEW o \in Workers, SessionOK(o), WorkOK(o, work[o]),
         session'[o] = session[o], work'[o] = work[o],
         session[o] = Nobody \/ \A t \in Tenants \ drift' : t \notin drift /\ ceiling'[t] = ceiling[t]
  PROVE  SessionOK(o)' /\ WorkOK(o, work[o])'
<1>1. CASE session[o] = Nobody
  BY <1>1 DEF TypeOK, SessionOK, WorkOK, InsertOK, RoleOK, TenantOK, Nothing
<1>2. CASE session[o] # Nobody
  <2>1. Home(o)' = Home(o) /\ Super(o)' = Super(o) /\ session[o].actor \in users
    BY <1>2 DEF SessionOK, Home, Super, Grows
  <2>2. SessionOK(o)'
    BY <1>2, <2>1 DEF SessionOK, Grows
  <2>3. InsertOK(o, work[o])'
    BY <1>2, <2>1 DEF WorkOK, InsertOK, Grows
  <2>4. RoleOK(o, work[o])'
    BY <1>2, <2>1 DEF WorkOK, RoleOK, Grows
  <2>5. work[o] \in Work
    BY DEF TypeOK
  <2>6. work[o].do \in {"root", "sync"} => work[o].tenant \in Tenants
    BY <2>5 DEF Work, RowWork, RoleWork, LinkWork, NameWork, UserWork, TenantWork, CeilingWork,
                SyncWork, Nothing
  <2>7. TenantOK(o, work[o])'
    BY <1>2, <2>1, <2>6 DEF WorkOK, TenantOK, Grows, TypeOK
  <2> QED
    BY <2>2, <2>3, <2>4, <2>7 DEF WorkOK
<1> QED
  BY <1>1, <1>2

(* A step that leaves the tables and the histories of superusers alone. *)
LEMMA TablesKeep ==
  ASSUME IInv, Remember, UNCHANGED <<tables, endowed, drift>>
  PROVE  /\ RowsOK' /\ SupersOK' /\ CrossedOK' /\ RootsUnique' /\ NoEscalation' /\ RootWithinCeiling'
         /\ Grows
         /\ session' \in [Workers -> Session \cup {Nobody}] /\ work' \in [Workers -> Work]
              /\ (\A w \in Workers : session'[w] = Nobody => work'[w] = Nothing)
              /\ served' \in Nat => TypeOK'
<1> USE DEF tables
<1>0. TypeOK
  BY DEF IInv
<1>1. crossed \subseteq crossed' /\ crossed' \subseteq Tenants /\ CrossedOK'
      /\ held' \in [Users -> SUBSET Permissions]
  BY <1>0, Remembered
<1>2. RowsOK' /\ SupersOK' /\ RootsUnique'
  BY DEF IInv, RowsOK, SupersOK, RootsUnique
<1>3. \A t : Reach(t)' = Reach(t)
  BY DEF Reach
<1>4. NoEscalation'
  BY <1>1, <1>3 DEF IInv, NoEscalation
<1>5. RootWithinCeiling'
  BY DEF IInv, RootWithinCeiling, PermissionsOf
<1>6. Grows
  BY <1>1 DEF Grows
<1>7. session' \in [Workers -> Session \cup {Nobody}] /\ work' \in [Workers -> Work]
        /\ (\A w \in Workers : session'[w] = Nobody => work'[w] = Nothing)
        /\ served' \in Nat => TypeOK'
  BY <1>0, <1>1 DEF TypeOK
<1> QED
  BY <1>1, <1>2, <1>4, <1>5, <1>6, <1>7

LEMMA DecideKeeps ==
  ASSUME IInv, Remember, NEW w \in Workers, NEW k \in Work, Undecided(w), WorkOK(w, k), Decide(w, k)
  PROVE  IInv'
<1>0. TypeOK /\ UNCHANGED <<tables, endowed, drift>>
  BY DEF IInv, Decide
<1>1. RowsOK' /\ SupersOK' /\ CrossedOK' /\ RootsUnique' /\ NoEscalation' /\ RootWithinCeiling' /\ Grows
  BY <1>0, TablesKeep
<1>2. TypeOK'
  BY <1>0, TablesKeep DEF TypeOK, Decide, Undecided
<1>3. ASSUME NEW o \in Workers PROVE SessionOK(o)' /\ WorkOK(o, work[o])'
  <2>1. SessionOK(o) /\ WorkOK(o, work[o]) /\ session'[o] = session[o]
        /\ \A t \in Tenants \ drift' : t \notin drift /\ ceiling'[t] = ceiling[t]
    BY <1>0 DEF IInv, Decide, tables
  <2>2. CASE o # w
    <3>1. work'[o] = work[o]
      BY <2>2 DEF Decide, IInv, TypeOK
    <3> QED
      BY <1>0, <1>1, <2>1, <3>1, OthersKeep
  <2>3. CASE o = w
    <3>1. work'[w] = k /\ session[w] # Nobody
      BY DEF Decide, IInv, TypeOK, Undecided
    <3>2. Home(w)' = Home(w) /\ Super(w)' = Super(w) /\ session[w].actor \in users
      BY <2>1, <2>3, <3>1 DEF SessionOK, Home, Super, Decide, tables
    <3>3. SessionOK(w)'
      BY <1>1, <2>1, <2>3, <3>1, <3>2 DEF SessionOK, Grows
    <3>4. InsertOK(w, k)' /\ RoleOK(w, k)' /\ TenantOK(w, k)'
      BY <1>0, <1>1, <3>2 DEF WorkOK, InsertOK, RoleOK, TenantOK, Grows, Decide, tables
    <3> QED
      BY <2>3, <3>1, <3>3, <3>4 DEF WorkOK
  <2> QED
    BY <2>2, <2>3
<1> QED
  BY <1>1, <1>2, <1>3 DEF IInv

LEMMA BeginKeeps ==
  ASSUME IInv, Remember, NEW w \in Workers, NEW u \in Users, Begin(w, u)
  PROVE  IInv'
<1>0. TypeOK /\ UNCHANGED <<tables, endowed, drift>>
  BY DEF IInv, Begin
<1>1. RowsOK' /\ SupersOK' /\ CrossedOK' /\ RootsUnique' /\ NoEscalation' /\ RootWithinCeiling' /\ Grows
  BY <1>0, TablesKeep
<1>9. session'[w] = [actor |-> u, roles |-> RolesOf(u),
                     ceil |-> IF home[u] = Null THEN Permissions ELSE ceiling[home[u]]]
  BY <1>0 DEF Begin, TypeOK
<1>2. TypeOK'
  <2>1. session'[w] \in Session
    BY <1>0, <1>9 DEF Session, TypeOK, RolesOf
  <2>2. session' \in [Workers -> Session \cup {Nobody}] /\ served' \in Nat
        /\ work' \in [Workers -> Work]
    BY <1>0, <2>1, <1>9 DEF TypeOK, Begin
  <2>3. \A o \in Workers : session'[o] = Nobody => work'[o] = Nothing
    BY <1>0 DEF TypeOK, Begin
  <2> QED
    BY <1>0, <2>2, <2>3, TablesKeep
<1>3. ASSUME NEW o \in Workers PROVE SessionOK(o)' /\ WorkOK(o, work[o])'
  <2>1. SessionOK(o) /\ WorkOK(o, work[o]) /\ work'[o] = work[o]
        /\ \A t \in Tenants \ drift' : t \notin drift /\ ceiling'[t] = ceiling[t]
    BY <1>0 DEF IInv, Begin, tables
  <2>2. CASE o # w
    <3>1. session'[o] = session[o]
      BY <1>0, <2>2 DEF Begin, TypeOK
    <3> QED
      BY <1>0, <1>1, <2>1, <3>1, OthersKeep
  <2>3. CASE o = w
    <3>1. work[w] = Nothing
      BY <1>0 DEF TypeOK, Begin
    <3>2. Home(w)' = home[u] /\ u \in users'
      BY <1>0, <1>9 DEF Home, Begin, tables
    <3>3. \A r \in RolesOf(u) : r \in issued
      BY <1>0 DEF RolesOf, IInv, RowsOK, TypeOK
    <3>4. home[u] \in Tenants \ crossed => \A r \in RolesOf(u) : owner[r] = home[u]
      BY DEF IInv, CrossedOK, Crosses, RolesOf
    <3>5. home[u] \in Tenants => session'[w].ceil = ceiling[home[u]]
      BY <1>9, DelegationAssumption
    <3>6. SessionOK(w)'
      BY <1>0, <1>1, <1>9, <3>2, <3>3, <3>4, <3>5 DEF SessionOK, Grows, tables
    <3> QED
      BY <2>1, <2>3, <3>1, <3>6 DEF WorkOK, InsertOK, RoleOK, TenantOK, Nothing
  <2> QED
    BY <2>2, <2>3
<1> QED
  BY <1>1, <1>2, <1>3 DEF IInv

LEMMA GiveUpKeeps ==
  ASSUME IInv, Remember, NEW w \in Workers, GiveUp(w)
  PROVE  IInv'
<1>0. TypeOK /\ UNCHANGED <<tables, endowed, drift>>
  BY DEF IInv, GiveUp
<1>1. RowsOK' /\ SupersOK' /\ CrossedOK' /\ RootsUnique' /\ NoEscalation' /\ RootWithinCeiling' /\ Grows
  BY <1>0, TablesKeep
<1>2. TypeOK'
  BY <1>0, TablesKeep DEF TypeOK, GiveUp, Finish, Work
<1>3. ASSUME NEW o \in Workers PROVE SessionOK(o)' /\ WorkOK(o, work[o])'
  <2>1. SessionOK(o) /\ WorkOK(o, work[o])
        /\ \A t \in Tenants \ drift' : t \notin drift /\ ceiling'[t] = ceiling[t]
    BY <1>0 DEF IInv, tables
  <2>2. CASE o # w
    <3>1. session'[o] = session[o] /\ work'[o] = work[o]
      BY <1>0, <2>2 DEF GiveUp, Finish, TypeOK
    <3> QED
      BY <1>0, <1>1, <2>1, <3>1, OthersKeep
  <2>3. CASE o = w
    BY <1>0, <2>3 DEF GiveUp, Finish, TypeOK, SessionOK, WorkOK, InsertOK, RoleOK, TenantOK, Nothing
  <2> QED
    BY <2>2, <2>3
<1> QED
  BY <1>1, <1>2, <1>3 DEF IInv

LEMMA RegisterKeeps ==
  ASSUME IInv, Remember, NEW u \in Users, Register(u)
  PROVE  IInv'
<1>0. TypeOK
  BY DEF IInv
<1>1. crossed \subseteq crossed' /\ crossed' \subseteq Tenants /\ CrossedOK'
      /\ held' \in [Users -> SUBSET Permissions]
  BY <1>0, Remembered
<1>2. TypeOK'
  BY <1>0, <1>1 DEF TypeOK, Register, requests
<1>3. RowsOK' /\ SupersOK' /\ RootsUnique'
  BY DEF IInv, RowsOK, SupersOK, RootsUnique, Register
<1>4. NoEscalation' /\ RootWithinCeiling'
  BY <1>1 DEF IInv, NoEscalation, Reach, RootWithinCeiling, PermissionsOf, Register
<1>5. Grows
  BY <1>1 DEF Grows, Register
<1>6. ASSUME NEW o \in Workers PROVE SessionOK(o)' /\ WorkOK(o, work[o])'
  BY <1>0, <1>5, OthersKeep DEF IInv, Register, requests
<1> QED
  BY <1>1, <1>2, <1>3, <1>4, <1>6 DEF IInv
-----------------------------------------------------------------------------
(* The handlers: what they decide to write is right. *)

LEMMA ExpandTyping == \A N : Expand(N) \in SUBSET Permissions
BY DEF Expand

(* What an actor may put into a role is endowed to the actor's tenant. *)
LEMMA GrantableEndowed ==
  ASSUME IInv, NEW w \in Workers, session[w] # Nobody, Home(w) \in Tenants \ crossed
  PROVE  GrantablePermissions(session[w].roles) \subseteq endowed[Home(w)]
<1>1. \A r \in session[w].roles : owner[r] = Home(w) /\ r \in Roles
  BY DEF IInv, SessionOK, TypeOK
<1>2. GrantablePermissions(session[w].roles) \subseteq Reach(Home(w))
  BY <1>1 DEF GrantablePermissions, Reach
<1> QED
  BY <1>2 DEF IInv, NoEscalation

LEMMA HandlerKeeps ==
  ASSUME IInv, Remember, NEW w \in Workers, Handler(w)
  PROVE  IInv'
<1> USE DelegationAssumption
<1>0. TypeOK /\ Undecided(w) /\ session[w] # Nobody /\ session[w] \in Session
  BY DEF IInv, Handler, Undecided, TypeOK
<1>g. Home(w) \in Tenants \ crossed
        => GrantablePermissions(session[w].roles) \subseteq endowed[Home(w)]
  BY <1>0, GrantableEndowed
<1>h. session[w].actor \in Users /\ Home(w) \in Tenants \cup {Null}
      /\ session[w].roles \subseteq Roles
  BY <1>0 DEF Session, Home, TypeOK
<1>i. \A k \in Work : WorkOK(w, k) /\ Decide(w, k) => IInv'
  BY <1>0, DecideKeeps
<1> USE DEF WorkOK, InsertOK, RoleOK, TenantOK, Work
<1>1. ASSUME NEW t \in Tenants, NEW N \in SUBSET Permissions, NEW u \in Users,
             CreateTenant(w, t, N, u)
      PROVE  IInv'
  <2> DEFINE k == [do |-> "tenant", tenant |-> t, mask |-> N \cap TenantPermissions, user |-> u]
  <2>1. k \in TenantWork /\ Decide(w, k) /\ Super(w)
    BY <1>1 DEF CreateTenant, TenantWork
  <2> QED
    BY <1>i, <2>1
<1>2. ASSUME NEW t \in Tenants, NEW N \in SUBSET Permissions, UpdateTenantPermissions(w, t, N)
      PROVE  IInv'
  <2> DEFINE k == [do |-> "ceiling", tenant |-> t, mask |-> N \cap TenantPermissions,
                   loaded |-> ceiling[t]]
  <2>1. k \in CeilingWork /\ Decide(w, k) /\ Super(w)
    BY <1>0, <1>2 DEF UpdateTenantPermissions, CeilingWork, TypeOK
  <2> QED
    BY <1>i, <2>1
<1>3. ASSUME NEW n \in BOOLEAN, NEW N \in SUBSET Permissions, CreateRole(w, n, N)
      PROVE  IInv'
  <2> DEFINE k == [do |-> "role", root |-> n, owner |-> IF Super(w) THEN Null ELSE Home(w),
                   mask |-> Expand(N), links |-> IF Super(w) THEN {} ELSE session[w].roles]
  <2>1. Decide(w, k) /\ MayAuthor(w, Expand(N))
    BY <1>3 DEF CreateRole
  <2>2. k \in RoleWork
    BY <1>h, ExpandTyping DEF RoleWork
  <2>3. WorkOK(w, k)
    BY <1>g, <2>1 DEF MayAuthor
  <2> QED
    BY <1>i, <2>1, <2>2, <2>3
<1>4. ASSUME NEW r \in Roles, NEW n \in BOOLEAN, UpdateRole(w, r, n)
      PROVE  IInv'
  <2> DEFINE k == [do |-> "rename", role |-> r, root |-> n]
  <2>1. k \in NameWork /\ Decide(w, k)
    BY <1>4 DEF UpdateRole, NameWork
  <2> QED
    BY <1>i, <2>1
<1>5. ASSUME NEW r \in Roles, DeleteRole(w, r)
      PROVE  IInv'
  <2> DEFINE k == [do |-> "drop", role |-> r]
  <2>1. k \in NameWork /\ Decide(w, k)
    BY <1>5 DEF DeleteRole, NameWork
  <2> QED
    BY <1>i, <2>1
<1>6. ASSUME NEW r \in Roles, NEW p \in Permissions, AddPermissionToRole(w, r, p)
      PROVE  IInv'
  <2> DEFINE implied == Expand({p}) \ (PermissionsOf(r) \cup {p})
             k == Row("insert", RP, r, p, implied)
  <2>1. Decide(w, k) /\ MayAuthor(w, {p} \cup implied) /\ InScope(w, r)
    BY <1>6 DEF AddPermissionToRole
  <2>2. k \in RowWork
    BY ExpandTyping DEF RowWork, Row, TableNames, Left, Right, RP, UP, UR, GR
  <2>3. WorkOK(w, k)
    BY <1>0, <1>g, <2>1 DEF MayAuthor, InScope, Row, TypeOK, RP, UP, GP
  <2> QED
    BY <1>i, <2>1, <2>2, <2>3
<1>7. ASSUME NEW r \in Roles, NEW p \in Permissions, AddGrantablePermission(w, r, p)
      PROVE  IInv'
  <2> DEFINE k == Insert(GP, r, p)
  <2>1. Decide(w, k) /\ CanGrantPermission(w, p) /\ InScope(w, r)
    BY <1>7 DEF AddGrantablePermission
  <2>2. k \in RowWork
    BY DEF RowWork, Insert, Row, TableNames, Left, Right, GP, RP, UP, UR, GR
  <2>3. WorkOK(w, k)
    BY <1>0, <1>g, <2>1 DEF CanGrantPermission, InScope, Insert, Row, TypeOK, RP, UP, GP
  <2> QED
    BY <1>i, <2>1, <2>2, <2>3
<1>8. ASSUME NEW r \in Roles, NEW x \in Roles, AddGrantableRole(w, r, x)
      PROVE  IInv'
  <2> DEFINE k == Insert(GR, r, x)
  <2>1. Decide(w, k)
    BY <1>8 DEF AddGrantableRole
  <2>2. k \in RowWork /\ WorkOK(w, k)
    BY DEF RowWork, Insert, Row, TableNames, Left, Right, GP, RP, UP, UR, GR
  <2> QED
    BY <1>i, <2>1, <2>2
<1>9. ASSUME NEW u \in Users, CreateUser(w, u)
      PROVE  IInv'
  <2> DEFINE k == [do |-> "user", user |-> u, home |-> Home(w), role |-> Null]
  <2>1. k \in UserWork /\ Decide(w, k)
    BY <1>9, <1>h DEF CreateUser, UserWork
  <2> QED
    BY <1>i, <2>1
<1>10. ASSUME NEW u \in Users, NEW r \in Roles, AssignRole(w, u, r)
       PROVE  IInv'
  <2> DEFINE k == Insert(UR, u, r)
  <2>1. Decide(w, k)
    BY <1>10 DEF AssignRole
  <2>2. k \in RowWork /\ WorkOK(w, k)
    BY DEF RowWork, Insert, Row, TableNames, Left, Right, GP, RP, UP, UR, GR
  <2> QED
    BY <1>i, <2>1, <2>2
<1>11. ASSUME NEW u \in Users, NEW p \in Permissions, GrantPermission(w, u, p)
       PROVE  IInv'
  <2> DEFINE k == Insert(UP, u, p)
  <2>1. Decide(w, k) /\ CanGrantPermission(w, p) /\ SameTenant(w, u)
    BY <1>11 DEF GrantPermission
  <2>2. k \in RowWork
    BY DEF RowWork, Insert, Row, TableNames, Left, Right, GP, RP, UP, UR, GR
  <2>3. WorkOK(w, k)
    BY <1>g, <2>1 DEF CanGrantPermission, SameTenant, Insert, Row, RP, UP, GP
  <2> QED
    BY <1>i, <2>1, <2>2, <2>3
<1>12. ASSUME NEW n \in TableNames, NEW x \in Left(n), NEW y \in Right(n), Decide(w, Delete(n, x, y))
       PROVE  IInv'
  <2> DEFINE k == Delete(n, x, y)
  <2>1. k \in RowWork /\ WorkOK(w, k)
    BY DEF RowWork, Delete, Row
  <2> QED
    BY <1>i, <1>12, <2>1
<1>13. ASSUME NEW r \in Roles, NEW p \in Permissions,
              RemovePermissionFromRole(w, r, p) \/ RemoveGrantablePermission(w, r, p)
       PROVE  IInv'
  BY <1>12, <1>13 DEF RemovePermissionFromRole, RemoveGrantablePermission, TableNames, Left, Right,
                      RP, GP, UP, UR, GR
<1>14. ASSUME NEW r \in Roles, NEW x \in Roles, RemoveGrantableRole(w, r, x)
       PROVE  IInv'
  BY <1>12, <1>14 DEF RemoveGrantableRole, TableNames, Left, Right, RP, GP, UP, UR, GR
<1>15. ASSUME NEW u \in Users, NEW r \in Roles, RemoveRole(w, u, r)
       PROVE  IInv'
  BY <1>12, <1>15 DEF RemoveRole, TableNames, Left, Right, RP, GP, UP, UR, GR
<1>16. ASSUME NEW u \in Users, NEW p \in Permissions, RevokePermission(w, u, p)
       PROVE  IInv'
  BY <1>12, <1>16 DEF RevokePermission, TableNames, Left, Right, RP, GP, UP, UR, GR
<1> QED
  BY <1>1, <1>2, <1>3, <1>4, <1>5, <1>6, <1>7, <1>8, <1>9, <1>10, <1>11, <1>13, <1>14, <1>15, <1>16
  DEF Handler
-----------------------------------------------------------------------------
(* The commits.  Each is a turn of one request. *)

TablesOK ==
  /\ tenants \subseteq Tenants /\ ceiling \in [Tenants -> SUBSET Permissions]
  /\ live \subseteq issued /\ issued \subseteq Roles /\ root \subseteq live
  /\ owner \in [Roles -> Tenants \cup {Null}]
  /\ users \subseteq Users /\ home \in [Users -> Tenants \cup {Null}]
  /\ rows \in [TableNames -> SUBSET ((Users \cup Roles) \X (Roles \cup Permissions))]
  /\ \A n \in TableNames : rows[n] \subseteq Left(n) \X Right(n)
  /\ endowed \in [Tenants -> SUBSET Permissions] /\ drift \subseteq Tenants

(* The request is done, or goes on to its next commit. *)
Turn(w) ==
  \/ Finish(w)
  \/ /\ session' = session
     /\ \E k \in Work : work' = [work EXCEPT ![w] = k] /\ WorkOK(w, k)'
     /\ Super(w) \/ UNCHANGED <<ceiling, drift>>

(* What the others have loaded is as good as it was, or there are no others. *)
OthersGood(w) ==
  \/ \A o \in Workers \ {w} : session[o] = Nobody
  \/ \A t \in Tenants \ drift' : t \notin drift /\ ceiling'[t] = ceiling[t]

LEMMA TurnKeeps ==
  ASSUME IInv, Remember, served' = served, NEW w \in Workers, session[w] # Nobody, Turn(w), OthersGood(w),
         TablesOK', Grows, RowsOK', RootsUnique', NoEscalation', RootWithinCeiling'
  PROVE  IInv'
<1> USE DelegationAssumption
<1>0. TypeOK
  BY DEF IInv
<1>1. crossed \subseteq crossed' /\ crossed' \subseteq Tenants /\ CrossedOK'
      /\ held' \in [Users -> SUBSET Permissions]
  BY <1>0, Remembered
<1>2. SupersOK'
  BY DEF IInv, SupersOK, Grows
<1>3. Nothing \in Work
  BY DEF Work
<1>4. /\ session' \in [Workers -> Session \cup {Nobody}] /\ work' \in [Workers -> Work]
      /\ \A o \in Workers : session'[o] = Nobody => work'[o] = Nothing
      /\ \A o \in Workers \ {w} : session'[o] = session[o] /\ work'[o] = work[o]
  BY <1>0, <1>3 DEF TypeOK, Turn, Finish
<1>5. TypeOK'
  BY <1>0, <1>1, <1>4 DEF TypeOK, TablesOK
<1>6. ASSUME NEW o \in Workers \ {w} PROVE SessionOK(o)' /\ WorkOK(o, work[o])'
  BY <1>0, <1>4, OthersKeep DEF IInv, OthersGood
<1>7. SessionOK(w)' /\ WorkOK(w, work[w])'
  <2>1. CASE Finish(w)
    BY <1>0, <2>1 DEF Finish, TypeOK, SessionOK, WorkOK, InsertOK, RoleOK, TenantOK, Nothing
  <2>2. ASSUME session' = session, NEW k \in Work, work' = [work EXCEPT ![w] = k], WorkOK(w, k)',
               Super(w) \/ UNCHANGED <<ceiling, drift>>
        PROVE  SessionOK(w)' /\ WorkOK(w, work[w])'
    <3>1. work'[w] = k
      BY <1>0, <2>2 DEF TypeOK
    <3>2. WorkOK(w, work[w])'
      BY <2>2, <3>1
    <3>3. SessionOK(w)
      BY DEF IInv
    <3>4. Home(w)' = Home(w) /\ session[w].actor \in users
      BY <2>2, <3>3 DEF SessionOK, Home, Grows
    <3>5. Super(w) => Home(w) \notin Tenants
      BY DEF IInv, SupersOK, Super, Home
    <3>6. SessionOK(w)'
      BY <2>2, <3>3, <3>4, <3>5 DEF SessionOK, Grows
    <3> QED
      BY <3>2, <3>6
  <2> QED
    BY <2>1, <2>2 DEF Turn
<1> QED
  BY <1>1, <1>2, <1>5, <1>6, <1>7 DEF IInv

LEMMA WorkTyping ==
  ASSUME NEW k \in Work
  PROVE  /\ k.do \in {"insert", "delete"} => k \in RowWork /\ k.table \in TableNames
              /\ k.of \in Left(k.table) /\ k.to \in Right(k.table) /\ k.next \in SUBSET Permissions
         /\ k.do = "role" => k \in RoleWork
         /\ k.do = "link" => k \in LinkWork
         /\ k.do \in {"rename", "drop"} => k.role \in Roles
         /\ k.do = "user" => k \in UserWork
         /\ k.do \in {"tenant", "root"} => k \in TenantWork
         /\ k.do = "ceiling" => k \in CeilingWork
         /\ k.do = "sync" => k \in SyncWork
<1>1. ASSUME NEW n \in TableNames,
             k \in [do: {"insert", "delete"}, table: {n}, of: Left(n), to: Right(n),
                    next: SUBSET Permissions]
      PROVE  k.table \in TableNames /\ k.of \in Left(k.table) /\ k.to \in Right(k.table)
             /\ k.next \in SUBSET Permissions /\ k.do \in {"insert", "delete"}
  BY <1>1
<1>2. k \in RowWork => k.table \in TableNames /\ k.of \in Left(k.table) /\ k.to \in Right(k.table)
                       /\ k.next \in SUBSET Permissions /\ k.do \in {"insert", "delete"}
  BY <1>1 DEF RowWork
<1> QED
  BY <1>2 DEF Work, RoleWork, LinkWork, NameWork, UserWork, TenantWork, CeilingWork, SyncWork, Nothing

(* The request that commits is under way, with a write that was right. *)
LEMMA Working ==
  ASSUME IInv, NEW w \in Workers, work[w] # Nothing
  PROVE  /\ session[w] # Nobody /\ work[w] \in Work /\ SessionOK(w) /\ WorkOK(w, work[w])
         /\ TypeOK /\ TablesOK
BY DEF IInv, TypeOK, TablesOK

(* Fewer rows bring nobody more. *)
LEMMA FewerRows ==
  ASSUME IInv, Remember, UNCHANGED <<ceiling, owner, users, home, endowed, drift>>,
         issued \subseteq issued', root' \subseteq root,
         \A n \in TableNames : rows'[n] \subseteq rows[n]
  PROVE  Grows /\ RootsUnique' /\ NoEscalation' /\ RootWithinCeiling'
<1>1. crossed \subseteq crossed'
  BY Remembered DEF IInv
<1>2. \A t : Reach(t)' \subseteq Reach(t)
  BY DEF Reach, TableNames
<1>3. RootWithinCeiling'
  BY DEF IInv, RootWithinCeiling, PermissionsOf, TableNames
<1> QED
  BY <1>1, <1>2, <1>3 DEF Grows, IInv, NoEscalation, RootsUnique

LEMMA DeleteRowKeeps ==
  ASSUME IInv, Remember, NEW w \in Workers, DeleteRow(w)
  PROVE  IInv'
<1>1. work[w] # Nothing
  BY DEF DeleteRow, Nothing
<1>2. session[w] # Nobody /\ TypeOK /\ TablesOK /\ work[w].table \in TableNames
  BY <1>1, Working, WorkTyping DEF DeleteRow
<1>3. rows' = [rows EXCEPT ![work[w].table] = @ \ {<<work[w].of, work[w].to>>}]
      /\ UNCHANGED <<tenants, ceiling, live, issued, root, owner, users, home, served, endowed, drift>>
  BY DEF DeleteRow
<1>4. rows' \in [TableNames -> SUBSET ((Users \cup Roles) \X (Roles \cup Permissions))]
      /\ \A n \in TableNames : rows'[n] \subseteq rows[n]
  BY <1>2, <1>3 DEF TablesOK
<1>5. TablesOK'
  BY <1>2, <1>3, <1>4 DEF TablesOK
<1>6. Grows /\ RootsUnique' /\ NoEscalation' /\ RootWithinCeiling'
  BY <1>3, <1>4, FewerRows
<1>7. RowsOK'
  BY <1>3, <1>4 DEF IInv, RowsOK, TableNames
<1>8. Turn(w) /\ OthersGood(w)
  BY <1>3 DEF DeleteRow, Turn, OthersGood
<1> QED
  BY <1>2, <1>3, <1>5, <1>6, <1>7, <1>8, TurnKeeps

LEMMA CommitDropKeeps ==
  ASSUME IInv, Remember, NEW w \in Workers, CommitDrop(w)
  PROVE  IInv'
<1>1. work[w] # Nothing
  BY DEF CommitDrop, Nothing
<1>2. session[w] # Nobody /\ TypeOK /\ TablesOK
  BY <1>1, Working
<1> DEFINE r == work[w].role
<1>3. /\ live' = live \ {r} /\ root' = root \ {r}
      /\ rows' = [n \in TableNames |-> {row \in rows[n] : ~Mentions(n, row, r)}]
      /\ UNCHANGED <<tenants, ceiling, issued, owner, users, home, served, endowed, drift>>
  BY DEF CommitDrop
<1>4. \A n \in TableNames : rows'[n] \subseteq rows[n]
  BY <1>3
<1>5. rows' \in [TableNames -> SUBSET ((Users \cup Roles) \X (Roles \cup Permissions))]
  BY <1>2, <1>3, <1>4 DEF TablesOK
<1>6. TablesOK'
  BY <1>2, <1>3, <1>4, <1>5 DEF TablesOK
<1>7. Grows /\ RootsUnique' /\ NoEscalation' /\ RootWithinCeiling'
  BY <1>3, <1>4, FewerRows
<1>8. RowsOK'
  BY <1>3 DEF IInv, RowsOK, TableNames, Mentions, RP, GP, UP, UR, GR
<1>9. Turn(w) /\ OthersGood(w)
  BY <1>3 DEF CommitDrop, Turn, OthersGood
<1> QED
  BY <1>2, <1>3, <1>6, <1>7, <1>8, <1>9, TurnKeeps

LEMMA CommitRenameKeeps ==
  ASSUME IInv, Remember, NEW w \in Workers, CommitRename(w)
  PROVE  IInv'
<1>1. work[w] # Nothing
  BY DEF CommitRename, Nothing
<1>2. session[w] # Nobody /\ TypeOK /\ TablesOK
  BY <1>1, Working
<1> DEFINE r == work[w].role
<1>3. /\ r \in live
      /\ r \in root \/ Unique(owner[r], work[w].root)
      /\ root' = IF work[w].root THEN root \cup {r} ELSE root \ {r}
      /\ drift' = IF work[w].root THEN drift \cup ({owner[r]} \cap Tenants) ELSE drift
      /\ UNCHANGED <<tenants, ceiling, live, issued, owner, users, home, rows, served, endowed>>
  BY DEF CommitRename
<1>4. drift \subseteq drift'
  BY <1>3
<1>5. TablesOK'
  <2>1. root' \subseteq live' /\ drift' \subseteq Tenants
    BY <1>2, <1>3 DEF TablesOK
  <2> QED
    BY <1>2, <1>3, <2>1 DEF TablesOK
<1>6. Grows /\ NoEscalation'
  BY <1>2, <1>3, Remembered DEF Grows, IInv, NoEscalation, Reach
<1>7. RootsUnique'
  BY <1>3 DEF IInv, RootsUnique, Unique
<1>8. RootWithinCeiling'
  BY <1>2, <1>3 DEF IInv, RootWithinCeiling, PermissionsOf, TablesOK
<1>9. RowsOK'
  BY <1>3 DEF IInv, RowsOK
<1>10. Turn(w) /\ OthersGood(w)
  BY <1>3, <1>4 DEF CommitRename, Turn, OthersGood
<1> QED
  BY <1>2, <1>3, <1>5, <1>6, <1>7, <1>8, <1>9, <1>10, TurnKeeps

LEMMA LinkRoleKeeps ==
  ASSUME IInv, Remember, NEW w \in Workers, LinkRole(w)
  PROVE  IInv'
<1>1. work[w] # Nothing /\ work[w].do = "link"
  BY DEF LinkRole, Nothing
<1>2. session[w] # Nobody /\ TypeOK /\ TablesOK /\ work[w] \in LinkWork
  BY <1>1, Working, WorkTyping
<1>3. PICK x \in work[w].links :
        /\ <<x, work[w].role>> \in rows[GR] \/ {x, work[w].role} \subseteq live
        /\ rows' = [rows EXCEPT ![GR] = @ \cup {<<x, work[w].role>>}]
        /\ IF work[w].links = {x} THEN Finish(w)
           ELSE work' = [work EXCEPT ![w].links = @ \ {x}] /\ UNCHANGED session
  BY DEF LinkRole
<1>4. UNCHANGED <<tenants, ceiling, live, issued, root, owner, users, home, served, endowed, drift>>
  BY DEF LinkRole
<1>5. x \in Roles /\ work[w].role \in Roles
  BY <1>2 DEF LinkWork
<1>6. /\ rows' \in [TableNames -> SUBSET ((Users \cup Roles) \X (Roles \cup Permissions))]
      /\ \A n \in TableNames : rows'[n] \subseteq Left(n) \X Right(n)
      /\ \A n \in TableNames \ {GR} : rows'[n] = rows[n]
  BY <1>2, <1>3, <1>5 DEF TablesOK, TableNames, Left, Right, RP, GP, UP, UR, GR
<1>7. TablesOK'
  BY <1>2, <1>4, <1>6 DEF TablesOK
<1>8. UNCHANGED <<rows[RP], rows[GP], rows[UP], rows[UR]>>
  BY <1>6 DEF TableNames, RP, GP, UP, UR, GR
<1>9. Grows /\ NoEscalation' /\ RootsUnique' /\ RootWithinCeiling' /\ RowsOK'
  BY <1>2, <1>4, <1>8, Remembered
  DEF Grows, IInv, NoEscalation, Reach, RootsUnique, RootWithinCeiling, PermissionsOf, RowsOK
<1>10. Turn(w)
  <2>1. CASE work[w].links = {x}
    BY <1>3, <2>1 DEF Turn
  <2>2. CASE work[w].links # {x}
    <3> DEFINE k == [work[w] EXCEPT !.links = @ \ {x}]
    <3>1. work' = [work EXCEPT ![w] = k] /\ session' = session
      BY <1>2, <1>3, <2>2 DEF TypeOK
    <3>2. k \in LinkWork
      BY <1>2 DEF LinkWork
    <3>3. k \in Work /\ k.do = "link"
      BY <3>2 DEF Work, LinkWork
    <3>4. \A j \in Work : j.do = "link" => WorkOK(w, j)'
      BY DEF WorkOK, InsertOK, RoleOK, TenantOK
    <3> QED
      BY <1>4, <3>1, <3>3, <3>4 DEF Turn
  <2> QED
    BY <2>1, <2>2
<1>11. OthersGood(w)
  BY <1>4 DEF OthersGood
<1> QED
  BY <1>2, <1>4, <1>7, <1>9, <1>10, <1>11, TurnKeeps

LEMMA CommitUserKeeps ==
  ASSUME IInv, Remember, NEW w \in Workers, CommitUser(w)
  PROVE  IInv'
<1> USE DelegationAssumption
<1>1. work[w] # Nothing /\ work[w].do = "user"
  BY DEF CommitUser, Nothing
<1>2. session[w] # Nobody /\ TypeOK /\ TablesOK /\ work[w] \in UserWork
  BY <1>1, Working, WorkTyping
<1> DEFINE u == work[w].user
           h == work[w].home
           r == work[w].role
<1>3. /\ u \notin users /\ users' = users \cup {u} /\ home' = [home EXCEPT ![u] = h]
      /\ UNCHANGED <<tenants, ceiling, live, issued, root, owner, rows, served, endowed, drift>>
  BY DEF CommitUser
<1>4. u \in Users /\ h \in Tenants \cup {Null} /\ r \in Roles \cup {Null}
  BY <1>2 DEF UserWork
<1>5. home' \in [Users -> Tenants \cup {Null}] /\ \A x \in users : home'[x] = home[x]
  BY <1>2, <1>3, <1>4 DEF TablesOK
<1>6. TablesOK'
  BY <1>2, <1>3, <1>4, <1>5 DEF TablesOK
<1>7. Grows
  BY <1>2, <1>3, <1>5, Remembered DEF Grows
<1>8. NoEscalation'
  <2>1. \A x \in Users, p \in Permissions : <<x, p>> \in rows[UP] => x \in users
    BY DEF IInv, RowsOK
  <2>2. \A t : Reach(t)' = Reach(t)
    BY <1>3, <1>5, <2>1 DEF Reach
  <2> QED
    BY <1>3, <1>7, <2>2 DEF IInv, NoEscalation, Grows
<1>9. RowsOK' /\ RootsUnique' /\ RootWithinCeiling'
  BY <1>3 DEF IInv, RowsOK, RootsUnique, RootWithinCeiling, PermissionsOf
<1>10. Turn(w)
  <2>1. CASE r = Null
    BY <2>1 DEF CommitUser, Turn
  <2>2. CASE r # Null
    <3> DEFINE k == Insert(UR, u, r)
    <3>1. work' = [work EXCEPT ![w] = k] /\ session' = session
      BY <2>2 DEF CommitUser
    <3>2. k \in Work /\ k.do = "insert" /\ k.table = UR /\ k.next = {}
      BY <1>4, <2>2 DEF Work, RowWork, Insert, Row, TableNames, Left, Right, RP, GP, UP, UR, GR
    <3>3. \A j \in Work : j.do = "insert" /\ j.table = UR /\ j.next = {} => WorkOK(w, j)'
      BY DEF WorkOK, InsertOK, RoleOK, TenantOK, RP, GP, UP, UR
    <3> QED
      BY <1>3, <3>1, <3>2, <3>3 DEF Turn
  <2> QED
    BY <2>1, <2>2
<1>11. OthersGood(w)
  BY <1>3 DEF OthersGood
<1> QED
  BY <1>2, <1>3, <1>6, <1>7, <1>8, <1>9, <1>10, <1>11, TurnKeeps

LEMMA CommitTenantKeeps ==
  ASSUME IInv, Remember, NEW w \in Workers, CommitTenant(w)
  PROVE  IInv'
<1>1. work[w] # Nothing /\ work[w].do = "tenant"
  BY DEF CommitTenant, Nothing
<1>2. session[w] # Nobody /\ TypeOK /\ TablesOK /\ work[w] \in TenantWork /\ Super(w)
  BY <1>1, Working, WorkTyping DEF WorkOK, TenantOK
<1> DEFINE t == work[w].tenant
           N == work[w].mask
<1>3. /\ t \in Tenants /\ N \in SUBSET Permissions
      /\ tenants' = tenants \cup {t} /\ ceiling' = [ceiling EXCEPT ![t] = N]
      /\ endowed' = [endowed EXCEPT ![t] = @ \cup N] /\ drift' = drift \cup {t}
      /\ UNCHANGED <<live, issued, root, owner, users, home, rows, session, served>>
  BY <1>2 DEF CommitTenant, TenantWork, Endow
<1>4. TablesOK'
  BY <1>2, <1>3 DEF TablesOK
<1>5. Grows
  BY <1>2, <1>3, Remembered DEF Grows, TablesOK
<1>6. NoEscalation' /\ RootsUnique' /\ RowsOK'
  BY <1>3, <1>5 DEF IInv, NoEscalation, Reach, Grows, RootsUnique, RowsOK
<1>7. RootWithinCeiling'
  BY <1>2, <1>3 DEF IInv, RootWithinCeiling, PermissionsOf, TablesOK
<1>8. Turn(w)
  <2> DEFINE k == [work[w] EXCEPT !.do = "root"]
  <2>1. work' = [work EXCEPT ![w] = k]
    BY <1>2 DEF CommitTenant, TypeOK
  <2>2. k \in TenantWork /\ k.do = "root" /\ k.tenant = t /\ k.mask = N
    BY <1>2 DEF TenantWork
  <2>3. ASSUME NEW j \in TenantWork, j.do = "root", j.tenant = t, j.mask = N
        PROVE  WorkOK(w, j)'
    BY <1>2, <1>3, <2>3 DEF WorkOK, InsertOK, RoleOK, TenantOK, Super, TablesOK
  <2> QED
    BY <1>2, <1>3, <2>1, <2>2, <2>3 DEF Turn, Work
<1>9. OthersGood(w)
  BY <1>2, <1>3 DEF OthersGood, TablesOK
<1> QED
  BY <1>2, <1>3, <1>4, <1>5, <1>6, <1>7, <1>8, <1>9, TurnKeeps

LEMMA CommitCeilingKeeps ==
  ASSUME IInv, Remember, NEW w \in Workers, CommitCeiling(w)
  PROVE  IInv'
<1>1. work[w] # Nothing /\ work[w].do = "ceiling"
  BY DEF CommitCeiling, Nothing
<1>2. session[w] # Nobody /\ TypeOK /\ TablesOK /\ work[w] \in CeilingWork /\ Super(w)
  BY <1>1, Working, WorkTyping DEF WorkOK, TenantOK
<1> DEFINE t == work[w].tenant
           N == work[w].mask
<1>3. /\ t \in Tenants /\ N \in SUBSET Permissions
      /\ ceiling' = IF N = work[w].loaded THEN ceiling ELSE [ceiling EXCEPT ![t] = N]
      /\ endowed' = [endowed EXCEPT ![t] = @ \cup N] /\ drift' = drift \cup {t}
      /\ UNCHANGED <<tenants, live, issued, root, owner, users, home, rows, served>>
  BY <1>2 DEF CommitCeiling, CeilingWork, Endow
<1>4. ceiling' \in [Tenants -> SUBSET Permissions] /\ \A s \in Tenants \ {t} : ceiling'[s] = ceiling[s]
  BY <1>2, <1>3 DEF TablesOK
<1>5. TablesOK'
  BY <1>2, <1>3, <1>4 DEF TablesOK
<1>6. Grows
  BY <1>2, <1>3, Remembered DEF Grows, TablesOK
<1>7. NoEscalation' /\ RootsUnique' /\ RowsOK'
  BY <1>3, <1>6 DEF IInv, NoEscalation, Reach, Grows, RootsUnique, RowsOK
<1>8. RootWithinCeiling'
  BY <1>2, <1>3, <1>4 DEF IInv, RootWithinCeiling, PermissionsOf, TablesOK
<1>9. Turn(w)
  <2>1. CASE \A r \in root : owner[r] # t
    BY <2>1 DEF CommitCeiling, Turn
  <2>2. CASE \E r \in root : owner[r] = t
    <3>1. PICK r \in root :
            /\ owner[r] = t
            /\ work' = [work EXCEPT ![w] = [do |-> "sync", tenant |-> t, mask |-> N, role |-> r,
                                            seen |-> PermissionsOf(r)]]
            /\ UNCHANGED session
      BY <2>2 DEF CommitCeiling
    <3> DEFINE k == [do |-> "sync", tenant |-> t, mask |-> N, role |-> r, seen |-> PermissionsOf(r)]
    <3>2. r \in issued /\ r \in Roles
      BY <1>2 DEF TablesOK
    <3>3. k \in SyncWork
      BY <1>3, <3>2 DEF SyncWork, PermissionsOf
    <3>4. ASSUME NEW j \in SyncWork, j.do = "sync", j.tenant = t, j.mask = N, j.role = r
          PROVE  WorkOK(w, j)'
      BY <1>2, <1>3, <3>1, <3>2, <3>4 DEF WorkOK, InsertOK, RoleOK, TenantOK, Super, TablesOK
    <3> HIDE DEF k
    <3>5. k.do = "sync" /\ k.tenant = t /\ k.mask = N /\ k.role = r
      BY DEF k
    <3> QED
      BY <1>2, <3>1, <3>3, <3>4, <3>5 DEF Turn, Work, k
  <2> QED
    BY <2>1, <2>2
<1>10. OthersGood(w)
  BY <1>2, <1>3, <1>4 DEF OthersGood
<1> QED
  BY <1>2, <1>3, <1>5, <1>6, <1>7, <1>8, <1>9, <1>10, TurnKeeps

LEMMA InsertRowKeeps ==
  ASSUME IInv, Remember, NEW w \in Workers, InsertRow(w)
  PROVE  IInv'
<1> USE DelegationAssumption
<1>1. work[w] # Nothing /\ work[w].do = "insert"
  BY DEF InsertRow, Nothing
<1>2. session[w] # Nobody /\ work[w].do = "insert" /\ TypeOK /\ TablesOK /\ SessionOK(w)
      /\ InsertOK(w, work[w])
  BY <1>1, Working DEF WorkOK
<1> DEFINE n == work[w].table
           x == work[w].of
           y == work[w].to
           N == work[w].next
           t == TenantOfRow(n, x)
<1>3. n \in TableNames /\ x \in Left(n) /\ y \in Right(n) /\ N \in SUBSET Permissions
  BY <1>1, Working, WorkTyping
<1>4. /\ n \in {RP, GR, GP} => x \in live
      /\ n \in {UR, GR} => y \in live
      /\ rows' = [rows EXCEPT ![n] = @ \cup {<<x, y>>}]
      /\ IF Super(w) /\ n \in {RP, GP, UP} THEN Endow(t, {y}) ELSE UNCHANGED endowed
      /\ drift' = IF Super(w) /\ n = RP THEN drift \cup ({t} \cap Tenants) ELSE drift
      /\ UNCHANGED <<tenants, ceiling, live, issued, root, owner, users, home, served>>
  BY DEF InsertRow
<1>5. n \in {RP, GP, UP} => y \in Permissions
  BY <1>3 DEF Right, RP, GP, UP, UR, GR
<1>6. /\ rows' \in [TableNames -> SUBSET ((Users \cup Roles) \X (Roles \cup Permissions))]
      /\ \A m \in TableNames : rows'[m] \subseteq Left(m) \X Right(m)
      /\ \A m \in TableNames : rows'[m] = IF m = n THEN rows[m] \cup {<<x, y>>} ELSE rows[m]
  <2>1. <<x, y>> \in (Users \cup Roles) \X (Roles \cup Permissions)
    BY <1>3 DEF Left, Right
  <2>2. \A m \in TableNames : rows'[m] = IF m = n THEN rows[m] \cup {<<x, y>>} ELSE rows[m]
    BY <1>2, <1>3, <1>4 DEF TablesOK
  <2>3. rows' \in [TableNames -> SUBSET ((Users \cup Roles) \X (Roles \cup Permissions))]
    BY <1>2, <1>3, <1>4, <2>1 DEF TablesOK
  <2>4. \A m \in TableNames : rows'[m] \subseteq Left(m) \X Right(m)
    <3> SUFFICES ASSUME NEW m \in TableNames, NEW row \in rows'[m]
                 PROVE  row \in Left(m) \X Right(m)
      OBVIOUS
    <3>1. rows[m] \subseteq Left(m) \X Right(m)
      BY <1>2 DEF TablesOK
    <3>2. CASE row = <<x, y>> /\ m = n
      BY <1>3, <3>2
    <3>3. CASE row \in rows[m]
      BY <3>1, <3>3
    <3> QED
      BY <2>2, <3>2, <3>3
  <2> QED
    BY <2>2, <2>3, <2>4
<1>7. endowed' \in [Tenants -> SUBSET Permissions] /\ \A s \in Tenants : endowed[s] \subseteq endowed'[s]
  BY <1>2, <1>4, <1>5 DEF TablesOK, Endow
<1>8. TablesOK'
  BY <1>2, <1>4, <1>6, <1>7 DEF TablesOK
<1>9. Grows
  BY <1>2, <1>4, <1>7, Remembered DEF Grows
<1>10. NoEscalation'
  <2> SUFFICES ASSUME NEW s \in Tenants \ crossed', NEW p \in Reach(s)'
               PROVE  p \in endowed'[s]
    BY DEF NoEscalation
  <2>1. s \in Tenants \ crossed
    BY <1>9 DEF Grows
  <2>2. CASE p \in Reach(s)
    BY <1>7, <2>1, <2>2 DEF IInv, NoEscalation
  <2>3. CASE p \notin Reach(s)
    <3>1. n \in {RP, GP, UP} /\ p = y /\ s = t
      BY <1>3, <1>4, <1>6, <2>3 DEF Reach, TenantOfRow, TableNames, RP, GP, UP, UR, GR
    <3>2. CASE Super(w)
      BY <1>2, <1>4, <3>1, <3>2 DEF Endow, TablesOK
    <3>3. CASE ~Super(w)
      <4>1. s = Home(w)
        BY <1>2, <3>1, <3>3 DEF InsertOK, TenantOfRow, RP, GP, UP, UR
      <4> QED
        BY <1>2, <1>7, <2>1, <3>1, <3>3, <4>1 DEF InsertOK
    <3> QED
      BY <3>2, <3>3
  <2> QED
    BY <2>2, <2>3
<1>11. RootWithinCeiling'
  <2> SUFFICES ASSUME NEW r \in root, owner[r] \in Tenants \ drift', NEW p \in PermissionsOf(r)'
               PROVE  p \in ceiling[owner[r]]
    BY <1>4 DEF RootWithinCeiling
  <2>1. owner[r] \notin drift
    BY <1>4
  <2>2. CASE p \in PermissionsOf(r)
    BY <2>1, <2>2 DEF IInv, RootWithinCeiling
  <2>3. CASE p \notin PermissionsOf(r)
    <3>1. n = RP /\ x = r /\ y = p
      BY <1>6, <2>3 DEF PermissionsOf, TableNames
    <3>2. t = owner[r]
      BY <3>1 DEF TenantOfRow, RP, UP, UR
    <3>3. ~Super(w)
      BY <1>4, <3>1, <3>2
    <3>4. owner[r] = Home(w) /\ p \in session[w].ceil
      BY <1>2, <3>1, <3>3 DEF InsertOK
    <3> QED
      BY <1>2, <2>1, <3>4 DEF SessionOK
  <2> QED
    BY <2>2, <2>3
<1>12. RootsUnique'
  BY <1>4 DEF IInv, RootsUnique
<1>13. RowsOK'
  BY <1>2, <1>4, <1>6 DEF IInv, RowsOK, InsertOK, TableNames, RP, GP, UP, UR, GR
<1>14. Turn(w)
  <2>1. CASE Finish(w)
    BY <2>1 DEF Turn
  <2>2. ASSUME NEW p \in N, work' = [work EXCEPT ![w] = Row("insert", n, x, p, N \ {p})],
               session' = session
        PROVE  Turn(w)
    <3> DEFINE k == Row("insert", n, x, p, N \ {p})
    <3>1. p \in Permissions
      BY <1>3, <2>2
    <3>2. CASE n = RP
      <4>1. k \in Work
        BY <1>3, <3>1, <3>2 DEF Work, RowWork, Row, TableNames, Right, RP, UR, GR
      <4>2. Super(w)' = Super(w) /\ Home(w)' = Home(w)
        BY <1>4, <2>2 DEF Super, Home
      <4>3. ASSUME NEW j, j.do = "insert", j.table = n, j.of = x, j.to = p, j.next = N \ {p}
            PROVE  WorkOK(w, j)'
        <5>1. TenantOK(w, j)' /\ RoleOK(w, j)'
          BY <4>3 DEF TenantOK, RoleOK
        <5>2. InsertOK(w, j)'
          BY <1>2, <1>4, <1>7, <1>9, <2>2, <4>2, <4>3 DEF InsertOK, Grows
        <5> QED
          BY <5>1, <5>2 DEF WorkOK
      <4>4. k.do = "insert" /\ k.table = n /\ k.of = x /\ k.to = p /\ k.next = N \ {p}
        BY DEF Row
      <4>5. Super(w) \/ UNCHANGED <<ceiling, drift>>
        BY <1>4
      <4> HIDE DEF k
      <4> QED
        BY <2>2, <4>1, <4>3, <4>4, <4>5 DEF Turn, k
    <3>3. CASE n # RP
      BY <1>2, <2>2, <3>3 DEF InsertOK
    <3> QED
      BY <3>2, <3>3
  <2> QED
    BY <2>1, <2>2 DEF InsertRow
<1>15. OthersGood(w)
  BY <1>4 DEF OthersGood
<1> QED
  BY <1>2, <1>4, <1>8, <1>9, <1>10, <1>11, <1>12, <1>13, <1>14, <1>15, TurnKeeps

(* A new role for tenant t: no row mentions it before it has its mask. *)
LEMMA NewRole ==
  ASSUME IInv, Remember, NEW r \in Roles \ issued, NEW t \in Tenants \cup {Null},
         NEW N \in SUBSET Permissions,
         live' = live \cup {r}, issued' = issued \cup {r}, root \subseteq root', root' \subseteq root \cup {r},
         owner' = [owner EXCEPT ![r] = t],
         DOMAIN rows' = TableNames, rows' = [n \in TableNames |-> rows'[n]],
         rows'[RP] = rows[RP] \cup ({r} \X N), rows'[GP] \subseteq rows[GP] \cup ({r} \X N),
         \A n \in TableNames \ {RP, GP} : rows'[n] = rows[n],
         UNCHANGED <<tenants, ceiling, users, home, endowed>>, drift' \subseteq drift,
         t \in Tenants \ crossed => N \subseteq endowed[t]
  PROVE  /\ TablesOK' /\ Grows /\ RowsOK' /\ NoEscalation'
         /\ \A x \in root : owner'[x] = owner[x] /\ PermissionsOf(x)' = PermissionsOf(x)
         /\ owner'[r] = t /\ PermissionsOf(r)' = N
<1> USE DelegationAssumption
<1>1. TypeOK /\ TablesOK
  BY DEF IInv, TypeOK, TablesOK
<1>2. \A p : <<r, p>> \notin rows[RP] /\ <<r, p>> \notin rows[GP]
  <2>1. r \notin live
    BY <1>1 DEF TablesOK
  <2>2. \A p : <<r, p>> \in rows[RP] \/ <<r, p>> \in rows[GP] => p \in Permissions
    BY <1>1 DEF TablesOK, TableNames, Right, RP, GP, UP, UR, GR
  <2> QED
    BY <2>1, <2>2 DEF IInv, RowsOK
<1>3. /\ rows' \in [TableNames -> SUBSET ((Users \cup Roles) \X (Roles \cup Permissions))]
      /\ \A n \in TableNames : rows'[n] \subseteq Left(n) \X Right(n)
  <2>1. {r} \X N \subseteq Roles \X Permissions
    OBVIOUS
  <2>2. rows'[RP] \subseteq Left(RP) \X Right(RP) /\ rows'[GP] \subseteq Left(GP) \X Right(GP)
    BY <1>1, <2>1 DEF TablesOK, TableNames, Left, Right, RP, GP, UP, UR, GR
  <2>3. \A n \in TableNames : rows'[n] \subseteq Left(n) \X Right(n)
    BY <1>1, <2>2 DEF TablesOK
  <2>4. \A n \in TableNames : Left(n) \X Right(n) \subseteq (Users \cup Roles) \X (Roles \cup Permissions)
    BY DEF Left, Right
  <2> QED
    BY <2>3, <2>4
<1>4. owner' \in [Roles -> Tenants \cup {Null}] /\ owner'[r] = t
      /\ \A x \in Roles \ {r} : owner'[x] = owner[x]
  BY <1>1 DEF TablesOK
<1>5. TablesOK'
  BY <1>1, <1>3, <1>4 DEF TablesOK
<1>6. /\ \A x, p : <<x, p>> \in rows'[RP] <=> (<<x, p>> \in rows[RP] \/ (x = r /\ p \in N))
      /\ \A x, p : <<x, p>> \in rows'[GP] => (<<x, p>> \in rows[GP] \/ (x = r /\ p \in N))
      /\ rows'[UP] = rows[UP]
  BY DEF TableNames, RP, GP, UP
<1>7. Grows
  BY <1>1, <1>4, Remembered DEF Grows, TablesOK
<1>8. RowsOK'
  BY DEF IInv, RowsOK, TableNames, RP, GP, UP, UR, GR
<1>9. NoEscalation'
  <2> SUFFICES ASSUME NEW s \in Tenants \ crossed', NEW p \in Reach(s)'
               PROVE  p \in endowed[s]
    BY DEF NoEscalation
  <2>1. s \in Tenants \ crossed
    BY <1>7 DEF Grows
  <2>2. p \in Reach(s) \/ (s = t /\ p \in N)
    <3>1. p \in Permissions
      BY DEF Reach
    <3>2. CASE \E u \in Users : home[u] = s /\ <<u, p>> \in rows[UP]
      BY <3>1, <3>2 DEF Reach
    <3>3. ASSUME NEW x \in Roles, owner'[x] = s, <<x, p>> \in rows'[RP] \/ <<x, p>> \in rows'[GP]
          PROVE  p \in Reach(s) \/ (s = t /\ p \in N)
      <4>1. CASE x = r
        BY <1>2, <1>4, <1>6, <3>3, <4>1
      <4>2. CASE x # r
        <5>1. owner[x] = s /\ (<<x, p>> \in rows[RP] \/ <<x, p>> \in rows[GP])
          BY <1>4, <1>6, <3>3, <4>2
        <5> QED
          BY <3>1, <5>1 DEF Reach
      <4> QED
        BY <4>1, <4>2
    <3>4. \/ \E u \in Users : home[u] = s /\ <<u, p>> \in rows[UP]
          \/ \E x \in Roles : owner'[x] = s /\ (<<x, p>> \in rows'[RP] \/ <<x, p>> \in rows'[GP])
      BY <1>6 DEF Reach
    <3> QED
      BY <3>2, <3>3, <3>4
  <2> QED
    BY <2>1, <2>2 DEF IInv, NoEscalation
<1>10. \A x \in root : owner'[x] = owner[x] /\ PermissionsOf(x)' = PermissionsOf(x)
  BY <1>1, <1>4, <1>6 DEF PermissionsOf, TablesOK
<1>11. PermissionsOf(r)' = N
  BY <1>2, <1>6 DEF PermissionsOf
<1> QED
  BY <1>4, <1>5, <1>7, <1>8, <1>9, <1>10, <1>11

LEMMA CommitRoleKeeps ==
  ASSUME IInv, Remember, NEW w \in Workers, CommitRole(w)
  PROVE  IInv'
<1> USE DelegationAssumption
<1>1. work[w] # Nothing /\ work[w].do = "role"
  BY DEF CommitRole, Nothing
<1>2. session[w] # Nobody /\ TypeOK /\ TablesOK /\ SessionOK(w) /\ RoleOK(w, work[w])
      /\ work[w] \in RoleWork /\ work[w].do = "role"
  BY <1>1, Working, WorkTyping DEF WorkOK
<1> DEFINE t == work[w].owner
           N == work[w].mask
           L == work[w].links
<1>3. Unique(t, work[w].root) /\ UNCHANGED <<tenants, ceiling, users, home, served, endowed, drift>>
  BY DEF CommitRole
<1>4. PICK r \in Roles \ issued :
        /\ live' = live \cup {r} /\ issued' = issued \cup {r}
        /\ root' = IF work[w].root THEN root \cup {r} ELSE root
        /\ owner' = [owner EXCEPT ![r] = t]
        /\ rows' = [rows EXCEPT ![RP] = @ \cup ({r} \X N)]
        /\ IF L = {} THEN Finish(w)
           ELSE /\ work' = [work EXCEPT ![w] = [do |-> "link", role |-> r, links |-> L]]
                /\ UNCHANGED session
  BY DEF CommitRole
<1>5. t \in Tenants \cup {Null} /\ N \in SUBSET Permissions /\ L \in SUBSET Roles
  BY <1>2 DEF RoleWork
<1>6. t \in Tenants => ~Super(w) /\ t = Home(w) /\ N \subseteq session[w].ceil
  BY <1>2 DEF RoleOK
<1>7. t \in Tenants \ crossed => N \subseteq endowed[t]
  BY <1>2, <1>6 DEF RoleOK
<1>8. /\ DOMAIN rows' = TableNames /\ rows' = [n \in TableNames |-> rows'[n]]
      /\ rows'[RP] = rows[RP] \cup ({r} \X N) /\ \A n \in TableNames \ {RP} : rows'[n] = rows[n]
  BY <1>2, <1>4 DEF TablesOK, TableNames
<1>9. /\ TablesOK' /\ Grows /\ RowsOK' /\ NoEscalation'
      /\ \A x \in root : owner'[x] = owner[x] /\ PermissionsOf(x)' = PermissionsOf(x)
      /\ owner'[r] = t /\ PermissionsOf(r)' = N
  <2>1. root \subseteq root' /\ root' \subseteq root \cup {r} /\ drift' \subseteq drift
        /\ UNCHANGED <<tenants, ceiling, users, home, endowed>>
        /\ r \in Roles \ issued /\ live' = live \cup {r} /\ issued' = issued \cup {r}
    BY <1>3, <1>4
  <2>2. rows'[GP] \subseteq rows[GP] \cup ({r} \X N)
        /\ \A n \in TableNames \ {RP, GP} : rows'[n] = rows[n]
    BY <1>8 DEF TableNames, RP, GP
  <2>3. ASSUME NEW s \in Tenants \cup {Null}, NEW M \in SUBSET Permissions,
               s \in Tenants \ crossed => M \subseteq endowed[s], owner' = [owner EXCEPT ![r] = s],
               rows'[RP] = rows[RP] \cup ({r} \X M), rows'[GP] \subseteq rows[GP] \cup ({r} \X M)
        PROVE  /\ TablesOK' /\ Grows /\ RowsOK' /\ NoEscalation'
               /\ \A x \in root : owner'[x] = owner[x] /\ PermissionsOf(x)' = PermissionsOf(x)
               /\ owner'[r] = s /\ PermissionsOf(r)' = M
    BY <1>8, <2>1, <2>2, <2>3, NewRole
  <2> QED
    BY <1>4, <1>5, <1>7, <1>8, <2>2, <2>3
<1>10. RootsUnique'
  BY <1>3, <1>4, <1>9 DEF IInv, RootsUnique, Unique
<1>11. RootWithinCeiling'
  <2>1. t \in Tenants \ drift => N \subseteq ceiling[t]
    BY <1>2, <1>6 DEF SessionOK
  <2> QED
    BY <1>3, <1>4, <1>9, <2>1 DEF IInv, RootWithinCeiling
<1>12. Turn(w)
  <2>1. CASE L = {}
    BY <1>4, <2>1 DEF Turn
  <2>2. CASE L # {}
    <3> DEFINE k == [do |-> "link", role |-> r, links |-> L]
    <3>1. k \in Work /\ k.do = "link"
      BY <1>5 DEF Work, LinkWork
    <3>2. \A j \in Work : j.do = "link" => WorkOK(w, j)'
      BY DEF WorkOK, InsertOK, RoleOK, TenantOK
    <3>3. work' = [work EXCEPT ![w] = k] /\ session' = session
      BY <1>4, <2>2
    <3> QED
      BY <1>3, <3>1, <3>2, <3>3 DEF Turn
  <2> QED
    BY <2>1, <2>2
<1>13. OthersGood(w)
  BY <1>3 DEF OthersGood
<1> QED
  BY <1>2, <1>3, <1>9, <1>10, <1>11, <1>12, <1>13, TurnKeeps

LEMMA CommitRootKeeps ==
  ASSUME IInv, Remember, NEW w \in Workers, CommitRoot(w)
  PROVE  IInv'
<1> USE DelegationAssumption
<1>1. work[w] # Nothing /\ work[w].do = "root"
  BY DEF CommitRoot, Nothing
<1>2. session[w] # Nobody /\ TypeOK /\ TablesOK /\ work[w] \in TenantWork /\ Super(w)
      /\ work[w].tenant \in drift /\ work[w].mask \subseteq endowed[work[w].tenant]
  BY <1>1, Working, WorkTyping DEF WorkOK, TenantOK
<1> DEFINE t == work[w].tenant
           N == work[w].mask
<1>3. /\ Unique(t, TRUE) /\ UNCHANGED <<tenants, ceiling, users, home, session, served, endowed>>
      /\ drift' = IF Undisturbed(w) THEN drift \ {t} ELSE drift
  BY DEF CommitRoot
<1>4. PICK r \in Roles \ issued :
        /\ live' = live \cup {r} /\ issued' = issued \cup {r} /\ root' = root \cup {r}
        /\ owner' = [owner EXCEPT ![r] = t]
        /\ rows' = [rows EXCEPT ![RP] = @ \cup ({r} \X N), ![GP] = @ \cup ({r} \X N)]
        /\ work' = [work EXCEPT ![w] =
             [do |-> "user", user |-> work[w].user, home |-> t, role |-> r]]
  BY DEF CommitRoot
<1>5. t \in Tenants /\ N \in SUBSET Permissions /\ work[w].user \in Users
  BY <1>2 DEF TenantWork
<1>6. /\ TablesOK' /\ Grows /\ RowsOK' /\ NoEscalation'
      /\ \A x \in root : owner'[x] = owner[x] /\ PermissionsOf(x)' = PermissionsOf(x)
      /\ owner'[r] = t /\ PermissionsOf(r)' = N
  <2>1. root \subseteq root' /\ root' \subseteq root \cup {r} /\ drift' \subseteq drift
        /\ UNCHANGED <<tenants, ceiling, users, home, endowed>>
        /\ r \in Roles \ issued /\ live' = live \cup {r} /\ issued' = issued \cup {r}
    BY <1>3, <1>4
  <2>2. /\ DOMAIN rows' = TableNames /\ rows' = [n \in TableNames |-> rows'[n]]
        /\ rows'[RP] = rows[RP] \cup ({r} \X N) /\ rows'[GP] \subseteq rows[GP] \cup ({r} \X N)
        /\ \A n \in TableNames \ {RP, GP} : rows'[n] = rows[n]
    BY <1>2, <1>4 DEF TablesOK, TableNames, RP, GP
  <2>3. ASSUME NEW s \in Tenants \cup {Null}, NEW M \in SUBSET Permissions,
               s \in Tenants \ crossed => M \subseteq endowed[s], owner' = [owner EXCEPT ![r] = s],
               rows'[RP] = rows[RP] \cup ({r} \X M), rows'[GP] \subseteq rows[GP] \cup ({r} \X M)
        PROVE  /\ TablesOK' /\ Grows /\ RowsOK' /\ NoEscalation'
               /\ \A x \in root : owner'[x] = owner[x] /\ PermissionsOf(x)' = PermissionsOf(x)
               /\ owner'[r] = s /\ PermissionsOf(r)' = M
    BY <2>1, <2>2, <2>3, NewRole
  <2>4. /\ t \in Tenants \cup {Null} /\ N \in SUBSET Permissions
        /\ t \in Tenants \ crossed => N \subseteq endowed[t]
        /\ owner' = [owner EXCEPT ![r] = t]
    BY <1>2, <1>4, <1>5
  <2>5. rows'[RP] = rows[RP] \cup ({r} \X N) /\ rows'[GP] \subseteq rows[GP] \cup ({r} \X N)
    BY <2>2
  <2> HIDE DEF t, N
  <2> QED
    BY <2>3, <2>4, <2>5
<1>7. RootsUnique'
  BY <1>3, <1>4, <1>6 DEF IInv, RootsUnique, Unique
<1>8. RootWithinCeiling'
  <2> SUFFICES ASSUME NEW x \in root', owner'[x] \in Tenants \ drift'
               PROVE  PermissionsOf(x)' \subseteq ceiling[owner'[x]]
    BY <1>3 DEF RootWithinCeiling
  <2>1. CASE x = r
    BY <1>2, <1>3, <1>6, <2>1 DEF Undisturbed
  <2>2. CASE x # r
    BY <1>3, <1>4, <1>6, <2>2 DEF IInv, RootWithinCeiling, Unique
  <2> QED
    BY <2>1, <2>2
<1>9. Turn(w)
  <2> DEFINE k == [do |-> "user", user |-> work[w].user, home |-> t, role |-> r]
  <2>1. k \in Work /\ k.do = "user"
    BY <1>5 DEF Work, UserWork
  <2>2. \A j \in Work : j.do = "user" => WorkOK(w, j)'
    BY DEF WorkOK, InsertOK, RoleOK, TenantOK
  <2>3. work' = [work EXCEPT ![w] = k]
    BY <1>4
  <2> QED
    BY <1>2, <1>3, <2>1, <2>2, <2>3 DEF Turn
<1>10. OthersGood(w)
  BY <1>3 DEF OthersGood, Undisturbed
<1> QED
  BY <1>2, <1>3, <1>6, <1>7, <1>8, <1>9, <1>10, TurnKeeps

LEMMA CommitSyncKeeps ==
  ASSUME IInv, Remember, NEW w \in Workers, CommitSync(w)
  PROVE  IInv'
<1> USE DelegationAssumption
<1>1. work[w] # Nothing /\ work[w].do = "sync"
  BY DEF CommitSync, Nothing
<1> DEFINE t == work[w].tenant
           N == work[w].mask
           r == work[w].role
           S == work[w].seen
<1>2. session[w] # Nobody /\ TypeOK /\ TablesOK /\ work[w] \in SyncWork
      /\ t \in drift /\ N \subseteq endowed[t] /\ owner[r] = t
  BY <1>1, Working, WorkTyping DEF WorkOK, TenantOK
<1>3. t \in Tenants /\ N \in SUBSET Permissions /\ r \in Roles /\ S \in SUBSET Permissions
  BY <1>2 DEF SyncWork
<1>4. /\ r \in live /\ rows' = Synced(work[w]) /\ Finish(w)
      /\ drift' = IF Undisturbed(w) /\ PermissionsOf(r) = S /\ r \in root THEN drift \ {t} ELSE drift
      /\ UNCHANGED <<tenants, ceiling, live, issued, root, owner, users, home, served, endowed>>
  BY DEF CommitSync
<1>5. /\ rows'[RP] = (rows[RP] \ ({r} \X (S \ N))) \cup ({r} \X (N \ S))
      /\ rows'[GP] = {row \in rows[GP] : row[1] # r} \cup ({r} \X N)
      /\ \A n \in TableNames \ {RP, GP} : rows'[n] = rows[n]
  BY <1>2, <1>4 DEF Synced, TablesOK, TableNames, RP, GP
<1>6. /\ rows' \in [TableNames -> SUBSET ((Users \cup Roles) \X (Roles \cup Permissions))]
      /\ \A n \in TableNames : rows'[n] \subseteq Left(n) \X Right(n)
  <2>1. {r} \X (N \ S) \subseteq Roles \X Permissions /\ {r} \X N \subseteq Roles \X Permissions
    BY <1>3
  <2>2. rows'[RP] \subseteq Left(RP) \X Right(RP) /\ rows'[GP] \subseteq Left(GP) \X Right(GP)
    BY <1>2, <1>5, <2>1 DEF TablesOK, TableNames, Left, Right, RP, GP, UP, UR, GR
  <2>3. \A n \in TableNames : rows'[n] \subseteq Left(n) \X Right(n)
    BY <1>2, <1>5, <2>2 DEF TablesOK
  <2>4. \A n \in TableNames : Left(n) \X Right(n) \subseteq (Users \cup Roles) \X (Roles \cup Permissions)
    BY DEF Left, Right
  <2>5. DOMAIN rows' = TableNames /\ rows' = [n \in TableNames |-> rows'[n]]
    BY <1>2, <1>4 DEF Synced, TablesOK
  <2> QED
    BY <2>3, <2>4, <2>5
<1>7. TablesOK'
  BY <1>2, <1>4, <1>6 DEF TablesOK
<1>8. Grows
  BY <1>2, <1>4, Remembered DEF Grows
<1>9. NoEscalation'
  <2> SUFFICES ASSUME NEW s \in Tenants \ crossed', NEW p \in Reach(s)'
               PROVE  p \in endowed[s]
    BY <1>4 DEF NoEscalation
  <2>1. s \in Tenants \ crossed
    BY <1>8 DEF Grows
  <2>2. p \in Reach(s) \/ (s = t /\ p \in N)
    BY <1>2, <1>4, <1>5 DEF Reach, TableNames, RP, GP, UP
  <2> QED
    BY <1>2, <2>1, <2>2 DEF IInv, NoEscalation
<1>10. RootsUnique'
  BY <1>4 DEF IInv, RootsUnique
<1>11. RowsOK'
  BY <1>4, <1>5 DEF IInv, RowsOK, TableNames, RP, GP, UP, UR, GR
<1>12. RootWithinCeiling'
  <2> SUFFICES ASSUME NEW x \in root, owner[x] \in Tenants \ drift'
               PROVE  PermissionsOf(x)' \subseteq ceiling[owner[x]]
    BY <1>4 DEF RootWithinCeiling
  <2>1. CASE x # r
    <3>1. PermissionsOf(x)' = PermissionsOf(x)
      BY <1>5, <2>1 DEF PermissionsOf
    <3>2. owner[x] \notin drift
      BY <1>2, <1>4, <2>1 DEF IInv, RootsUnique
    <3> QED
      BY <3>1, <3>2 DEF IInv, RootWithinCeiling
  <2>2. CASE x = r
    <3>1. Undisturbed(w) /\ PermissionsOf(r) = S
      BY <1>2, <1>4, <2>2
    <3>2. PermissionsOf(x)' = N
      <4>1. \A p : <<x, p>> \in rows'[RP]
                    <=> ((<<x, p>> \in rows[RP] /\ p \notin S \ N) \/ p \in N \ S)
        BY <1>5, <2>2
      <4> QED
        BY <1>3, <2>2, <3>1, <4>1 DEF PermissionsOf
    <3> QED
      BY <1>2, <2>2, <3>1, <3>2 DEF Undisturbed
  <2> QED
    BY <2>1, <2>2
<1>13. Turn(w) /\ OthersGood(w)
  BY <1>4 DEF Turn, OthersGood, Undisturbed
<1> QED
  BY <1>2, <1>4, <1>7, <1>8, <1>9, <1>10, <1>11, <1>12, <1>13, TurnKeeps
-----------------------------------------------------------------------------
(* The theorems. *)

LEMMA StutterKeeps ==
  ASSUME IInv, UNCHANGED vars
  PROVE  IInv'
<1> USE DEF vars, tables, requests, history
<1>1. TypeOK' /\ RowsOK' /\ SupersOK' /\ CrossedOK' /\ RootsUnique'
  <2>1. TypeOK'
    BY DEF IInv, TypeOK
  <2>2. RowsOK' /\ SupersOK'
    BY DEF IInv, RowsOK, SupersOK
  <2>3. CrossedOK'
    BY DEF IInv, CrossedOK, Crosses
  <2>4. RootsUnique'
    BY DEF IInv, RootsUnique
  <2> QED
    BY <2>1, <2>2, <2>3, <2>4
<1>2. ASSUME NEW w \in Workers PROVE SessionOK(w)' /\ WorkOK(w, work[w])'
  BY DEF IInv, SessionOK, WorkOK, InsertOK, RoleOK, TenantOK, Home, Super
<1>3. NoEscalation' /\ RootWithinCeiling'
  BY DEF IInv, NoEscalation, Reach, RootWithinCeiling, PermissionsOf
<1> QED
  BY <1>1, <1>2, <1>3 DEF IInv

LEMMA NextKeeps ==
  ASSUME IInv, [Next]_vars
  PROVE  IInv'
<1>1. ASSUME NEW w \in Workers, Remember, Commit(w)
      PROVE  IInv'
  BY <1>1, InsertRowKeeps, DeleteRowKeeps, CommitRoleKeeps, LinkRoleKeeps, CommitRenameKeeps,
     CommitDropKeeps, CommitUserKeeps, CommitTenantKeeps, CommitRootKeeps, CommitCeilingKeeps,
     CommitSyncKeeps DEF Commit
<1>2. CASE Next
  BY <1>1, <1>2, BeginKeeps, GiveUpKeeps, HandlerKeeps, RegisterKeeps DEF Next
<1> QED
  BY <1>2, StutterKeeps

(* Every state is one in which what the requests are about to write is right. *)
THEOREM Inductive == Spec => []IInv
<1>1. IInv /\ [Next]_vars => IInv'
  BY NextKeeps
<1> QED
  BY <1>1, InitInv, PTL DEF Spec

(* The variables keep their types. *)
THEOREM TypeCorrect == Spec => []TypeOK
<1>1. IInv => TypeOK
  BY DEF IInv
<1> QED
  BY <1>1, Inductive, PTL

(* role_service.py:163-202: delegation never brings a tenant what no superuser gave it. *)
THEOREM DelegationIsBounded == Spec => []NoEscalation
<1>1. IInv => NoEscalation
  BY DEF IInv
<1> QED
  BY <1>1, Inductive, PTL

(* tenant_service.py:81-87: an undisturbed ceiling update binds the tenant-admin role. *)
THEOREM RootBounded == Spec => []RootWithinCeiling
<1>1. IInv => RootWithinCeiling
  BY DEF IInv
<1> QED
  BY <1>1, Inductive, PTL

LEMMA NewPermissionsStep ==
  ASSUME IInv, [Next]_vars, NEW w \in Workers, session[w] # Nobody, work'[w] # work[w], ~Super(w),
         NEW r \in Roles, NEW p \in PermissionsOf(r)' \ PermissionsOf(r)
  PROVE  p \in session[w].ceil
<1>0. TypeOK
  BY DEF IInv
<1>1. <<r, p>> \in rows'[RP] /\ <<r, p>> \notin rows[RP]
  BY DEF PermissionsOf
<1>2. \E o \in Workers : Commit(o)
  <2>1. ASSUME NEW o \in Workers, Handler(o)
        PROVE  rows' = rows
    BY <2>1 DEF Handler, tables, Decide, CreateTenant, UpdateTenantPermissions, CreateRole,
       UpdateRole, DeleteRole, AddPermissionToRole, RemovePermissionFromRole, AddGrantableRole,
       RemoveGrantableRole, AddGrantablePermission, RemoveGrantablePermission, CreateUser,
       AssignRole, RemoveRole, GrantPermission, RevokePermission
  <2> QED
    BY <1>1, <2>1 DEF Next, vars, tables, Begin, GiveUp, Register
<1>3. Commit(w)
  <2>1. ASSUME NEW o \in Workers \ {w}, NEW k, work' = [work EXCEPT ![o] = k]
        PROVE  FALSE
    BY <1>0, <2>1 DEF TypeOK
  <2>2. ASSUME NEW o \in Workers \ {w}
        PROVE  ~Commit(o)
    BY <1>0, <2>1, <2>2
    DEF Commit, InsertRow, DeleteRow, CommitRole, LinkRole, CommitRename, CommitDrop, CommitUser,
        CommitTenant, CommitRoot, CommitCeiling, CommitSync, Finish, TypeOK
  <2> QED
    BY <1>2, <2>2
<1>4. work[w] # Nothing
  <2>1. work[w].do # "nothing"
    BY <1>3 DEF Commit, InsertRow, DeleteRow, CommitRole, LinkRole, CommitRename, CommitDrop,
                CommitUser, CommitTenant, CommitRoot, CommitCeiling, CommitSync
  <2> QED
    BY <2>1 DEF Nothing
<1>5. WorkOK(w, work[w]) /\ TablesOK /\ work[w] \in Work
  BY <1>4, Working
<1>6. CASE InsertRow(w)
  <2>1. work[w].table = RP /\ work[w].to = p /\ work[w].do = "insert"
    BY <1>1, <1>5, <1>6 DEF InsertRow, TablesOK, TableNames
  <2> QED
    BY <1>5, <2>1 DEF WorkOK, InsertOK
<1>7. CASE CommitRole(w)
  <2>1. p \in work[w].mask /\ work[w].do = "role"
    BY <1>1, <1>5, <1>7 DEF CommitRole, TablesOK, TableNames
  <2> QED
    BY <1>5, <2>1 DEF WorkOK, RoleOK
<1>8. CASE CommitRoot(w) \/ CommitSync(w)
  BY <1>5, <1>8 DEF CommitRoot, CommitSync, WorkOK, TenantOK
<1>9. CASE DeleteRow(w)
  BY <1>1, <1>5, <1>9 DEF DeleteRow, TablesOK, TableNames
<1>10. CASE LinkRole(w)
  BY <1>1, <1>5, <1>10 DEF LinkRole, TablesOK, TableNames, RP, GR
<1>11. CASE CommitDrop(w)
  BY <1>1, <1>11 DEF CommitDrop, TableNames
<1>12. CASE CommitRename(w) \/ CommitUser(w) \/ CommitTenant(w) \/ CommitCeiling(w)
  BY <1>1, <1>12 DEF CommitRename, CommitUser, CommitTenant, CommitCeiling
<1> QED
  BY <1>3, <1>6, <1>7, <1>8, <1>9, <1>10, <1>11, <1>12 DEF Commit

(* role_service.py:34-47: a tenant's users add to roles what the tenant's ceiling allows. *)
THEOREM CeilingBindsAuthors == Spec => NewPermissionsRespectCeiling
<1> DEFINE Respects == \A w \in Workers :
       session[w] # Nobody /\ work'[w] # work[w] /\ ~Super(w) /\ Home(w) \in Tenants
         /\ session[w].ceil = ceiling[Home(w)]
       => \A r \in Roles : PermissionsOf(r)' \ PermissionsOf(r) \subseteq ceiling[Home(w)]
<1>1. IInv /\ [Next]_vars => [Respects]_vars
  BY NewPermissionsStep
<1> QED
  BY <1>1, Inductive, PTL DEF Spec, NewPermissionsRespectCeiling
=============================================================================
