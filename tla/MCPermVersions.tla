--------------------------- MODULE MCPermVersions ---------------------------
(* Small instances of PermVersions for TLC: one permission implies the other. *)
EXTENDS PermVersions, TLC

CONSTANTS p, q
MCPermissions == {p, q}
MCImplies == (p :> {q}) @@ (q :> {})
MCCeilings == {{q}}

(* Requests are interchangeable: nothing but job mentions them. *)
MCSymmetry == Permutations(Requests)
=============================================================================
