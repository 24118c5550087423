---------------------------- MODULE MCDelegation ----------------------------
(* Small instances of Delegation for TLC: "edit" opens every route and implies "read";       *)
(* "own" stands for the permissions that only superusers use.                                *)
EXTENDS Delegation, TLC

CONSTANTS edit, read, own
MCPermissions == {edit, read, own}
MCTenantPermissions == {edit, read}
MCImplies == (edit :> {read}) @@ (read :> {}) @@ (own :> {})
MCGate == [route \in Routes |-> edit]

(* A tenant exists: its role, its admin, and nothing else, as one create_tenant_with_admin leaves them. *)
Bootstrapped ==
  \E t \in Tenants, N \in SUBSET TenantPermissions, r \in Roles, u \in Users \ Superusers :
    /\ tenants = {t} /\ ceiling = [x \in Tenants |-> IF x = t THEN N ELSE {}]
    /\ live = {r} /\ issued = {r} /\ root = {r}
    /\ owner = [x \in Roles |-> IF x = r THEN t ELSE Null]
    /\ users = Superusers \cup {u} /\ home = [x \in Users |-> IF x = u THEN t ELSE Null]
    /\ rows = [n \in TableNames |-> IF n = UR THEN {<<u, r>>} ELSE
                                    IF n \in {RP, GP} THEN {r} \X N ELSE {}]
    /\ session = [w \in Workers |-> Nobody] /\ work = [w \in Workers |-> Nothing] /\ served = 0
    /\ endowed = [x \in Tenants |-> IF x = t THEN N ELSE {}]
    /\ crossed = {} /\ drift = {}
    /\ held = [x \in Users |-> IF x = u THEN N ELSE {}]

MCSpec == (Init \/ Bootstrapped) /\ [][Next]_vars

(* Role ids, users without is_superuser and workers are interchangeable. *)
MCSymmetry == Permutations(Roles) \cup Permutations(Workers) \cup Permutations(Users \ Superusers)
=============================================================================
