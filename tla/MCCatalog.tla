------------------------------ MODULE MCCatalog ------------------------------
(* Small instances of Catalog for TLC. *)
EXTENDS Catalog, TLC

CONSTANTS a, b, c, v1, v2, renumbered, reused, doubled, w1, w2

MCNames == {a, b, c}
MCImplies == (c :> {a}) @@ (a :> {b}) @@ (b :> {})

Is(n, k) == [name |-> n, bit |-> k]

(* Two releases that follow the rules of registry.py, one that changes an integer, one
   that reuses a retired one, and one its own assertion stops. *)
MCRegistry ==
  (v1 :> <<Is(a, 0), Is(b, 1)>>) @@ (v2 :> <<Is(a, 0), Is(b, 1), Is(c, 2)>>)
  @@ (renumbered :> <<Is(a, 0), Is(b, 2)>>) @@ (reused :> <<Is(a, 0), Is(c, 1)>>)
  @@ (doubled :> <<Is(a, 0), Is(b, 0)>>)
MCReleases == {v1, v2, renumbered, reused, doubled}
MCRequired == [r \in MCReleases |-> {a}]

Symmetry == Permutations({w1, w2})

(* expand_implied answers with the least set that holds the request and what it implies. *)
Closed(S) == \A n \in S : Implies[n] \subseteq S
ASSUME ExpandImpliedIsLeast ==
  \A S \in SUBSET Names :
    /\ S \subseteq ExpandImplied(S) /\ Closed(ExpandImplied(S))
    /\ \A T \in SUBSET Names : S \subseteq T /\ Closed(T) => ExpandImplied(S) \subseteq T
=============================================================================
