------------------------- MODULE RefreshTokensProofs -------------------------
(***************************************************************************)
(* Proofs about RefreshTokens, for any sets of users and of concurrent     *)
(* refreshes and any number of tokens.                                     *)
(*                                                                         *)
(* OneSessionPerLogin is inductive only together with the lineage facts:   *)
(* families and parents are tokens already created, a family has one       *)
(* owner, and the token a refresh has revoked stays revoked or gone until  *)
(* its successor exists.  The refinement needs WipedIsGone besides: a      *)
(* breach leaves its user's sessions no row at all.                        *)
(***************************************************************************)
EXTENDS RefreshTokens, TLAPS

Dead(t) == row[t] \in {"absent", "revoked"}

(* Lineage: histories only name tokens that exist, and a refresh past its first commit
   holds a token nobody can exchange any more.  A family belongs to one user. *)
Lineage ==
  /\ \A t \in Tokens : family[t] <= issued /\ parent[t] <= issued
  /\ \A t \in Tokens : t <= issued => owner[t] \in Users /\ family[t] # NoToken
  /\ \A t \in Tokens : t > issued => family[t] = NoToken /\ parent[t] = NoToken
  /\ \A r \in Requests : pc[r] = "revoked" => Dead(held[r])
  /\ \A t \in Tokens : t <= issued => owner[family[t]] = owner[t]
  /\ \A f \in wiped : Started(f)

(* What a breach was to end has no row, until a refresh that was under way inserts one. *)
WipedIsGone == \A t \in Tokens : family[t] \in wiped => row[t] = "absent"

IndInv == TypeOK /\ Lineage /\ WipedIsGone /\ RotatedTokenIsDead /\ OneSessionPerLogin

(* The steps that create no token and revoke none: they only remove rows, let them
   expire, or move handlers that are not between revocation and insert. *)
Quiet ==
  /\ UNCHANGED <<issued, owner, family, parent, forked>>
  /\ wiped' \in SUBSET Tokens /\ \A f \in wiped' : Started(f)
  /\ \A t \in Tokens : family[t] \in wiped' => family[t] \in wiped \/ row'[t] = "absent"
  /\ row' \in [Tokens -> RowStates]
  /\ \A t \in Tokens : \/ row'[t] = row[t]
                       \/ row'[t] = "absent"
                       \/ row[t] = "valid" /\ row'[t] = "expired"
  /\ pc' \in [Requests -> {"idle", "breach", "expired", "found", "revoked"}]
  /\ held' \in [Requests -> Tokens \cup {NoToken}]
  /\ \A r \in Requests : held'[r] <= issued /\ (pc'[r] # "idle" <=> held'[r] # NoToken)
  /\ \A r \in Requests : pc'[r] = "revoked" => pc[r] = "revoked" /\ held'[r] = held[r]

LEMMA InitInv == Init => IndInv
<1> SUFFICES ASSUME Init PROVE IndInv
  OBVIOUS
<1>1. TypeOK
  BY RefreshAssumption DEF Init, TypeOK, Tokens, NoToken, RowStates
<1>2. Lineage
  BY RefreshAssumption DEF Init, Lineage, Dead, Tokens, NoToken, Started
<1>3. RotatedTokenIsDead
  BY DEF Init, RotatedTokenIsDead, NoToken
<1>4. OneSessionPerLogin
  BY DEF Init, OneSessionPerLogin, Unrevoked, Carries
<1>5. WipedIsGone
  BY DEF Init, WipedIsGone
<1> QED
  BY <1>1, <1>2, <1>3, <1>4, <1>5 DEF IndInv

(* A quiet step preserves every part of the invariant. *)
LEMMA QuietPreserves ==
  ASSUME IndInv, Quiet
  PROVE  IndInv'
<1> USE RefreshAssumption
<1>1. TypeOK'
  BY DEF IndInv, TypeOK, Quiet, Tokens, RowStates, NoToken
<1>2. Lineage'
  <2>1. UNCHANGED <<issued, owner, family, parent>> /\ \A f \in wiped' : Started(f)
    BY DEF Quiet
  <2>2. \A r \in Requests : pc'[r] = "revoked" => row'[held'[r]] \in {"absent", "revoked"}
    <3> SUFFICES ASSUME NEW r \in Requests, pc'[r] = "revoked" PROVE row'[held'[r]] \in {"absent", "revoked"}
      OBVIOUS
    <3>1. pc[r] = "revoked" /\ held'[r] = held[r]
      BY DEF Quiet
    <3>2. row[held[r]] \in {"absent", "revoked"}
      BY <3>1 DEF IndInv, Lineage, Dead
    <3>3. held[r] \in Tokens
      BY <3>1 DEF IndInv, TypeOK
    <3> QED
      BY <3>1, <3>2, <3>3 DEF Quiet
  <2> QED
    BY <2>1, <2>2 DEF IndInv, Lineage, Dead, Started
<1>3. RotatedTokenIsDead'
  BY DEF IndInv, TypeOK, RotatedTokenIsDead, Quiet, Tokens, RowStates, NoToken
<1>4. \A t \in Tokens, f \in Tokens : Unrevoked(t, f)' => Unrevoked(t, f)
  BY DEF Unrevoked, Quiet
<1>5. \A r \in Requests, f \in Tokens : Carries(r, f)' => Carries(r, f)
  BY DEF Carries, Quiet
<1>6. forked' = forked
  BY DEF Quiet
<1>7. OneSessionPerLogin'
  BY <1>4, <1>5, <1>6 DEF IndInv, OneSessionPerLogin
<1>8. WipedIsGone'
  BY DEF IndInv, WipedIsGone, Quiet
<1> QED
  BY <1>1, <1>2, <1>3, <1>7, <1>8 DEF IndInv

(* A breach removes every row of every session of its user: a family has one owner. *)
LEMMA BreachIsQuiet ==
  ASSUME IndInv, NEW r \in Requests, EndAllSessions(r)
  PROVE  Quiet
<1> USE RefreshAssumption DEF Tokens, NoToken, RowStates, IndInv, TypeOK
<1> DEFINE u == owner[held[r]]
<1>1. /\ row' = [t \in Tokens |-> IF t \in RowsOf(u) THEN "absent" ELSE row[t]]
      /\ wiped' = wiped \cup SessionsOf(u) /\ Finish(r)
      /\ UNCHANGED <<issued, owner, family, parent, forked>>
  BY DEF EndAllSessions, Delete, lineage
<1>2. u \in Users
  BY DEF EndAllSessions, Lineage
<1>3. \A s \in Tokens : owner[s] = u => s <= issued /\ family[s] \in Tokens /\ owner[family[s]] = u
  BY <1>2 DEF Lineage
<1>4. \A f \in SessionsOf(u) : f \in Tokens /\ owner[f] = u /\ Started(f)
  BY <1>3 DEF SessionsOf, Started
<1>5. \A t \in Tokens : family[t] \in SessionsOf(u) => t <= issued /\ owner[t] = u
  BY <1>4 DEF Lineage
<1>6. \A t \in Tokens : family[t] \in SessionsOf(u) => row'[t] = "absent"
  BY <1>1, <1>5 DEF RowsOf
<1>7. wiped' \in SUBSET Tokens /\ \A f \in wiped' : Started(f)
  BY <1>1, <1>4 DEF Lineage
<1>8. \A t \in Tokens : family[t] \in wiped' => family[t] \in wiped \/ row'[t] = "absent"
  BY <1>1, <1>6
<1>9. /\ row' \in [Tokens -> RowStates]
      /\ \A t \in Tokens : row'[t] = row[t] \/ row'[t] = "absent"
  BY <1>1
<1>10. /\ pc' \in [Requests -> {"idle", "breach", "expired", "found", "revoked"}]
       /\ held' \in [Requests -> Tokens \cup {NoToken}]
       /\ \A q \in Requests : held'[q] <= issued /\ (pc'[q] # "idle" <=> held'[q] # NoToken)
       /\ \A q \in Requests : pc'[q] = "revoked" => pc[q] = "revoked" /\ held'[q] = held[q]
  BY <1>1 DEF Finish
<1> QED
  BY <1>1, <1>7, <1>8, <1>9, <1>10 DEF Quiet

(* Every step but the three that create or revoke a token is quiet, and only a breach adds
   to what is wiped. *)
LEMMA QuietSteps ==
  ASSUME IndInv, [Next]_vars
  PROVE  \/ Quiet /\ (wiped' = wiped \/ \E r \in Requests : EndAllSessions(r))
         \/ \E u \in Users : Login(u)
         \/ \E r \in Requests : RevokeHeld(r) \/ Rotate(r)
<1> USE RefreshAssumption DEF Tokens, NoToken, RowStates, IndInv, TypeOK, lineage, Lineage
<1> DEFINE Tame == Quiet /\ wiped' = wiped
<1>1. ASSUME UNCHANGED vars PROVE Tame
  BY <1>1 DEF vars, handler, history, Quiet
<1>2. ASSUME NEW r \in Requests, NEW t \in Tokens, ReadRow(r, t) PROVE Tame
  BY <1>2 DEF ReadRow, Verdict, history, Quiet
<1>3. ASSUME NEW r \in Requests, EndAllSessions(r) PROVE Quiet
  BY <1>3, BreachIsQuiet
<1>4. ASSUME NEW r \in Requests, DeleteExpired(r) PROVE Tame
  BY <1>4 DEF DeleteExpired, Delete, Finish, history, Quiet
<1>5. ASSUME NEW r \in Requests, Finish(r), UNCHANGED <<row, issued, owner, history>> PROVE Tame
  BY <1>5 DEF Finish, history, Quiet
<1>9. ASSUME NEW r \in Requests, RevokeFails(r) \/ MintRefused(r) \/ Crash(r) PROVE Tame
  BY <1>9, <1>5 DEF RevokeFails, MintRefused, Crash
<1>6. ASSUME NEW t \in Tokens, Logout(t) PROVE Tame
  BY <1>6 DEF Logout, Delete, handler, history, Quiet
<1>7. ASSUME NEW t \in Tokens, Expire(t) PROVE Tame
  BY <1>7 DEF Expire, handler, history, Quiet
<1>8. ASSUME Cleanup PROVE Tame
  BY <1>8 DEF Cleanup, Delete, handler, history, Quiet
<1> HIDE DEF Tame, TypeOK, Lineage, IndInv
<1>10. Tame => Quiet /\ wiped' = wiped
  BY DEF Tame
<1> QED
  BY <1>1, <1>2, <1>3, <1>4, <1>5, <1>9, <1>6, <1>7, <1>8, <1>10 DEF Next, RefreshStep

(* A new token has no family and no parent yet, and nobody holds it. *)
LEMMA CreatePreserves ==
  ASSUME IndInv, NEW u \in Users, NEW p \in Tokens \cup {NoToken}, Create(u, p),
         p <= issued, p # NoToken => Dead(p),
         UNCHANGED forked, wiped' \in SUBSET wiped,
         p # NoToken => owner[p] = u /\ family[p] \notin wiped',
         pc' \in [Requests -> {"idle", "breach", "expired", "found", "revoked"}],
         held' \in [Requests -> Tokens \cup {NoToken}],
         \A r \in Requests : pc'[r] # "idle" <=> held'[r] # NoToken,
         \A r \in Requests : (held'[r] = held[r] /\ pc'[r] = pc[r]) \/ held'[r] = NoToken,
         \A f \in Tokens \ forked : p # NoToken /\ family[p] = f =>
           /\ \A t \in Tokens : ~Unrevoked(t, f)
           /\ \A r \in Requests : Carries(r, f) => pc'[r] = "idle"
  PROVE  IndInv'
<1> USE RefreshAssumption DEF Tokens, NoToken
<1>0. issued \in Nat /\ issued + 1 \in Tokens
  BY DEF Create, IndInv, TypeOK
<1> PICK t0 \in Tokens : t0 = issued + 1
  BY <1>0
<1>1. t0 \in Tokens /\ t0 = issued + 1 /\ issued \in Nat /\ issued' = t0
  BY <1>0 DEF Create
<1>2. row' = [row EXCEPT ![t0] = "valid"] /\ owner' = [owner EXCEPT ![t0] = u]
  BY <1>1 DEF Create, Inserted
<1>3. /\ parent' = [parent EXCEPT ![t0] = p]
      /\ family' = [family EXCEPT ![t0] = IF p = NoToken THEN t0 ELSE family[p]]
  BY <1>1 DEF Create
<1>4. family[t0] = NoToken /\ row[t0] = "absent" /\ \A r \in Requests : held[r] <= issued
  BY <1>1 DEF IndInv, TypeOK, Lineage
<1>5. TypeOK'
  BY <1>1, <1>2, <1>3, <1>4 DEF IndInv, TypeOK, RowStates
<1>6. Lineage'
  <2>1. \A r \in Requests : pc'[r] = "revoked" => held'[r] # t0 /\ Dead(held[r]) /\ held'[r] = held[r]
    BY <1>1, <1>4 DEF IndInv, Lineage
  <2>2. \A r \in Requests : pc'[r] = "revoked" => row'[held'[r]] \in {"absent", "revoked"}
    BY <2>1, <1>2 DEF Dead, IndInv, TypeOK
  <2>3. \A t \in Tokens : family'[t] <= issued' /\ parent'[t] <= issued'
    <3> SUFFICES ASSUME NEW t \in Tokens PROVE family'[t] <= issued' /\ parent'[t] <= issued'
      OBVIOUS
    <3>1. family[t] <= issued /\ parent[t] <= issued /\ (p # NoToken => family[p] <= issued)
      BY DEF IndInv, Lineage
    <3>2. family[t] \in Nat /\ parent[t] \in Nat /\ (p # NoToken => family[p] \in Nat)
      BY DEF IndInv, TypeOK
    <3>3. CASE t = t0
      BY <3>1, <3>2, <3>3, <1>1, <1>3 DEF IndInv, TypeOK
    <3>4. CASE t # t0
      BY <3>1, <3>2, <3>4, <1>1, <1>3 DEF IndInv, TypeOK
    <3> QED
      BY <3>3, <3>4
  <2>4. \A t \in Tokens : t <= issued' => owner'[t] \in Users /\ family'[t] # NoToken
    BY <1>1, <1>2, <1>3 DEF IndInv, TypeOK, Lineage
  <2>5. \A t \in Tokens : t > issued' => family'[t] = NoToken /\ parent'[t] = NoToken
    BY <1>1, <1>3 DEF IndInv, TypeOK, Lineage
  <2>6. \A t \in Tokens : t <= issued' => owner'[family'[t]] = owner'[t]
    <3> SUFFICES ASSUME NEW t \in Tokens, t <= issued' PROVE owner'[family'[t]] = owner'[t]
      OBVIOUS
    <3>1. CASE t = t0 /\ p = NoToken
      BY <3>1, <1>1, <1>2, <1>3 DEF IndInv, TypeOK
    <3>2. CASE t = t0 /\ p # NoToken
      <4>1. family'[t] = family[p] /\ family[p] \in Tokens /\ family[p] # t0
        BY <3>2, <1>1, <1>3 DEF IndInv, TypeOK, Lineage
      <4>2. owner[family[p]] = u
        BY <3>2 DEF IndInv, TypeOK, Lineage
      <4> QED
        BY <3>2, <4>1, <4>2, <1>1, <1>2 DEF IndInv, TypeOK
    <3>3. CASE t # t0
      <4>1. t <= issued /\ family'[t] = family[t] /\ family[t] \in Tokens /\ family[t] # t0
        BY <3>3, <1>1, <1>3 DEF IndInv, TypeOK, Lineage
      <4> QED
        BY <3>3, <4>1, <1>1, <1>2 DEF IndInv, TypeOK, Lineage
    <3> QED
      BY <3>1, <3>2, <3>3
  <2>7. \A f \in wiped' : Started(f)'
    <3> SUFFICES ASSUME NEW f \in wiped' PROVE \E t \in Tokens : family'[t] = f
      BY DEF Started
    <3>1. f \in Tokens /\ \E t \in Tokens : family[t] = f
      BY DEF IndInv, TypeOK, Lineage, Started
    <3> QED
      BY <3>1, <1>1, <1>3, <1>4 DEF IndInv, TypeOK
  <2> QED
    BY <2>2, <2>3, <2>4, <2>5, <2>6, <2>7 DEF Lineage, Dead
<1>7. RotatedTokenIsDead'
  BY <1>1, <1>2, <1>3 DEF IndInv, TypeOK, Lineage, RotatedTokenIsDead, Dead
<1>8. \A t \in Tokens, f \in Tokens : Unrevoked(t, f)' /\ t # t0 => Unrevoked(t, f)
  BY <1>1, <1>2, <1>3 DEF Unrevoked, IndInv, TypeOK
<1>9. \A r \in Requests, f \in Tokens : Carries(r, f)' => Carries(r, f) /\ pc'[r] # "idle"
  <2> SUFFICES ASSUME NEW r \in Requests, NEW f \in Tokens, Carries(r, f)'
               PROVE  Carries(r, f) /\ pc'[r] # "idle"
    OBVIOUS
  <2>1. held'[r] = held[r] /\ pc'[r] = pc[r] /\ pc[r] = "revoked"
    BY DEF Carries
  <2>2. held[r] # t0 /\ held[r] \in Tokens
    BY <2>1, <1>1, <1>4 DEF IndInv, TypeOK
  <2> QED
    BY <2>1, <2>2, <1>1, <1>3 DEF Carries, IndInv, TypeOK
<1>10. ASSUME NEW f \in Tokens \ forked, Unrevoked(t0, f)'
       PROVE  /\ \A t \in Tokens : ~Unrevoked(t, f)
              /\ \A r \in Requests : ~Carries(r, f)'
  <2>1. f = IF p = NoToken THEN t0 ELSE family[p]
    BY <1>10, <1>1, <1>3 DEF Unrevoked, IndInv, TypeOK
  <2>2. CASE p = NoToken
    <3>1. \A t \in Tokens : family[t] # f
      BY <2>1, <2>2, <1>1 DEF IndInv, TypeOK, Lineage
    <3>2. \A r \in Requests : pc[r] = "revoked" => held[r] \in Tokens
      BY DEF IndInv, TypeOK
    <3> QED
      BY <3>1, <3>2, <1>9 DEF Unrevoked, Carries
  <2>3. CASE p # NoToken
    BY <2>1, <2>3, <1>9
  <2> QED
    BY <2>2, <2>3
<1>11. OneSessionPerLogin'
  <2> SUFFICES ASSUME NEW f \in Tokens \ forked
               PROVE  /\ \A t, s \in Tokens : Unrevoked(t, f)' /\ Unrevoked(s, f)' => t = s
                      /\ \A r, q \in Requests : Carries(r, f)' /\ Carries(q, f)' => r = q
                      /\ \A t \in Tokens, r \in Requests : ~(Unrevoked(t, f)' /\ Carries(r, f)')
    BY DEF OneSessionPerLogin
  <2>1. /\ \A t, s \in Tokens : Unrevoked(t, f) /\ Unrevoked(s, f) => t = s
        /\ \A r, q \in Requests : Carries(r, f) /\ Carries(q, f) => r = q
        /\ \A t \in Tokens, r \in Requests : ~(Unrevoked(t, f) /\ Carries(r, f))
    BY DEF IndInv, OneSessionPerLogin
  <2>2. CASE Unrevoked(t0, f)'
    BY <2>2, <2>1, <1>8, <1>9, <1>10
  <2>3. CASE ~Unrevoked(t0, f)'
    BY <2>3, <2>1, <1>8, <1>9
  <2> QED
    BY <2>2, <2>3
<1>12. WipedIsGone'
  <2> SUFFICES ASSUME NEW t \in Tokens, family'[t] \in wiped' PROVE row'[t] = "absent"
    BY DEF WipedIsGone
  <2>1. family'[t] \in wiped /\ family'[t] <= issued
    BY DEF IndInv, TypeOK, Lineage, Started
  <2>2. t # t0
    BY <2>1, <1>1, <1>3 DEF IndInv, TypeOK
  <2> QED
    BY <2>1, <2>2, <1>1, <1>2, <1>3 DEF IndInv, TypeOK, WipedIsGone
<1> QED
  BY <1>5, <1>6, <1>7, <1>11, <1>12 DEF IndInv

LEMMA LoginPreserves ==
  ASSUME IndInv, NEW u \in Users, Login(u)
  PROVE  IndInv'
<1>1. Create(u, NoToken) /\ UNCHANGED <<handler, forked, wiped>>
  BY DEF Login
<1> QED
  BY <1>1, RefreshAssumption, CreatePreserves DEF IndInv, TypeOK, handler, NoToken

(* The refresh that carries a family is the only one, and its insert ends that. *)
LEMMA RotatePreserves ==
  ASSUME IndInv, NEW r \in Requests, Rotate(r)
  PROVE  IndInv'
<1> USE RefreshAssumption DEF NoToken
<1>1. held[r] \in Tokens /\ held[r] <= issued /\ Dead(held[r])
  BY DEF Rotate, IndInv, TypeOK, Lineage
<1>2. owner[held[r]] \in Users
  BY <1>1 DEF IndInv, Lineage
<1>3. \A f \in Tokens \ forked : family[held[r]] = f =>
           /\ \A t \in Tokens : ~Unrevoked(t, f)
           /\ \A q \in Requests : Carries(q, f) => pc'[q] = "idle"
  BY DEF Rotate, Finish, Carries, IndInv, TypeOK, OneSessionPerLogin
<1>4. /\ Create(owner[held[r]], held[r]) /\ UNCHANGED forked
      /\ wiped' \in SUBSET wiped /\ family[held[r]] \notin wiped'
  BY DEF Rotate
<1> QED
  BY <1>1, <1>2, <1>3, <1>4, CreatePreserves DEF Rotate, Finish, IndInv, TypeOK

(* Revoking an unrevoked token makes its handler the family's carrier; revoking it a
   second time marks the family as forked. *)
LEMMA RevokePreserves ==
  ASSUME IndInv, NEW r \in Requests, RevokeHeld(r)
  PROVE  IndInv'
<1> USE RefreshAssumption DEF Tokens, NoToken
<1> DEFINE h == held[r]
<1>1. h \in Tokens /\ h <= issued
  BY DEF RevokeHeld, IndInv, TypeOK
<1>2. row' = [row EXCEPT ![h] = "revoked"] /\ pc' = [pc EXCEPT ![r] = "revoked"]
  BY DEF RevokeHeld, Revoked
<1>3. UNCHANGED <<issued, owner, held, family, parent, wiped>>
  BY DEF RevokeHeld
<1>4. TypeOK'
  <2>1. family[h] \in Tokens
    BY <1>1 DEF IndInv, TypeOK, Lineage
  <2>2. forked' \in SUBSET Tokens
    BY <2>1 DEF RevokeHeld, IndInv, TypeOK
  <2> QED
    BY <2>2, <1>1, <1>2, <1>3 DEF IndInv, TypeOK, RowStates
<1>5. Lineage'
  BY <1>1, <1>2, <1>3 DEF IndInv, TypeOK, Lineage, Dead, Started
<1>6. RotatedTokenIsDead'
  BY <1>1, <1>2, <1>3 DEF IndInv, TypeOK, RotatedTokenIsDead
<1>7. \A t \in Tokens, f \in Tokens : Unrevoked(t, f)' => Unrevoked(t, f) /\ t # h
  BY <1>1, <1>2, <1>3 DEF Unrevoked, IndInv, TypeOK
<1>8. \A q \in Requests, f \in Tokens : Carries(q, f)' => Carries(q, f) \/ (q = r /\ family[h] = f)
  BY <1>2, <1>3 DEF Carries, IndInv, TypeOK
<1>9. ASSUME NEW f \in Tokens, f \notin forked', family[h] = f
      PROVE  f \notin forked /\ Unrevoked(h, f)
  BY <1>9, <1>1 DEF RevokeHeld, Unrevoked, IndInv, TypeOK, RowStates
<1>10. forked \subseteq forked'
  BY DEF RevokeHeld
<1>11. OneSessionPerLogin'
  BY <1>1, <1>7, <1>8, <1>9, <1>10 DEF IndInv, OneSessionPerLogin
<1>12. WipedIsGone'
  BY <1>1, <1>2, <1>3 DEF RevokeHeld, IndInv, TypeOK, WipedIsGone
<1> QED
  BY <1>4, <1>5, <1>6, <1>11, <1>12 DEF IndInv

THEOREM Invariance == Spec => []IndInv
<1>1. IndInv /\ [Next]_vars => IndInv'
  BY QuietSteps, QuietPreserves, LoginPreserves, RotatePreserves, RevokePreserves
<1> QED
  BY InitInv, <1>1, PTL DEF Spec

(* Type correctness of the table, the handlers and the history. *)
THEOREM TypeCorrect == Spec => []TypeOK
<1>1. IndInv => TypeOK
  BY DEF IndInv
<1> QED
  BY Invariance, <1>1, PTL

(* A token that has been exchanged can never be exchanged again: the revocation is
   committed before the successor's insert (Refresh.refresh). *)
THEOREM RotationKillsToken == Spec => []RotatedTokenIsDead
<1>1. IndInv => RotatedTokenIsDead
  BY DEF IndInv
<1> QED
  BY Invariance, <1>1, PTL

(* A login is worth one session at a time, unless two refreshes revoked the same row. *)
THEOREM OneSession == Spec => []OneSessionPerLogin
<1>1. IndInv => OneSessionPerLogin
  BY DEF IndInv
<1> QED
  BY Invariance, <1>1, PTL

(* When a breach has run no row is left of any session of its user, whatever else was under
   way; a row there again is a refresh's that the breach found between its two commits
   (Refresh.refresh, delete_all_for_user). *)
THEOREM BreachLeavesNoToken == Spec => []WipedIsGone
<1>1. IndInv => WipedIsGone
  BY DEF IndInv
<1> QED
  BY Invariance, <1>1, PTL

(* A row that becomes valid is the row of the token this step creates. *)
OnlyNewRowsAppear ==
  \A t \in Tokens : row'[t] = "valid" /\ row[t] # "valid" => t = issued' /\ t = issued + 1

LEMMA NewRowsOnly ==
  ASSUME IndInv, [Next]_vars
  PROVE  OnlyNewRowsAppear
<1> USE RefreshAssumption DEF Tokens
<1>1. ASSUME Quiet PROVE OnlyNewRowsAppear
  BY <1>1 DEF Quiet, OnlyNewRowsAppear
<1>2. ASSUME NEW u \in Users, Login(u) PROVE OnlyNewRowsAppear
  BY <1>2 DEF Login, Create, Inserted, IndInv, TypeOK, OnlyNewRowsAppear
<1>3. ASSUME NEW r \in Requests, RevokeHeld(r) PROVE OnlyNewRowsAppear
  BY <1>3 DEF RevokeHeld, Revoked, IndInv, TypeOK, OnlyNewRowsAppear
<1>4. ASSUME NEW r \in Requests, Rotate(r) PROVE OnlyNewRowsAppear
  BY <1>4 DEF Rotate, Create, Inserted, IndInv, TypeOK, OnlyNewRowsAppear
<1> QED
  BY <1>1, <1>2, <1>3, <1>4, QuietSteps

(* A refresh that found its token expired deletes a row that has not become valid since. *)
ExpiredForGood == \A r \in Requests : pc[r] = "expired" => row[held[r]] # "valid"

LEMMA ExpiredForGoodNext ==
  ASSUME IndInv, ExpiredForGood, [Next]_vars
  PROVE  ExpiredForGood'
<1> SUFFICES ASSUME NEW r \in Requests, pc'[r] = "expired", row'[held'[r]] = "valid"
             PROVE  FALSE
  BY DEF ExpiredForGood
<1>1. \/ pc[r] = "expired" /\ held'[r] = held[r]
      \/ \E t \in Tokens : ReadRow(r, t)
  <2> USE DEF IndInv, TypeOK
  <2>1. CASE UNCHANGED handler
    BY <2>1 DEF handler
  <2>2. ASSUME NEW q \in Requests, Finish(q) PROVE pc[r] = "expired" /\ held'[r] = held[r]
    BY <2>2 DEF Finish
  <2>3. ASSUME NEW q \in Requests, RevokeHeld(q) PROVE pc[r] = "expired" /\ held'[r] = held[r]
    BY <2>3 DEF RevokeHeld
  <2>4. ASSUME NEW q \in Requests, NEW t \in Tokens, ReadRow(q, t), q # r
        PROVE  pc[r] = "expired" /\ held'[r] = held[r]
    BY <2>4 DEF ReadRow
  <2>5. UNCHANGED vars => UNCHANGED handler
    BY DEF vars, handler
  <2>6. \A u \in Users : Login(u) => UNCHANGED handler
    BY DEF Login
  <2>7. \A t \in Tokens : Logout(t) \/ Expire(t) => UNCHANGED handler
    BY DEF Logout, Expire
  <2>8. \A q \in Requests :
          \/ EndAllSessions(q)
          \/ DeleteExpired(q)
          \/ RevokeFails(q)
          \/ MintRefused(q)
          \/ Rotate(q)
          \/ Crash(q)
          => Finish(q)
    BY DEF EndAllSessions, DeleteExpired, RevokeFails, MintRefused, Rotate, Crash
  <2>9. Cleanup => UNCHANGED handler
    BY DEF Cleanup
  <2> QED
    BY <2>1, <2>2, <2>3, <2>4, <2>5, <2>6, <2>7, <2>8, <2>9 DEF Next, RefreshStep
<1>2. CASE pc[r] = "expired" /\ held'[r] = held[r]
  <2>1. held[r] \in Tokens /\ held[r] <= issued /\ issued \in Nat /\ row[held[r]] # "valid"
    BY <1>2 DEF IndInv, TypeOK, ExpiredForGood
  <2>2. held[r] = issued + 1
    BY <1>2, <2>1, NewRowsOnly DEF OnlyNewRowsAppear
  <2> QED BY <2>1, <2>2 DEF Tokens
<1>3. CASE \E t \in Tokens : ReadRow(r, t)
  BY <1>3 DEF ReadRow, Verdict, IndInv, TypeOK
<1> QED BY <1>1, <1>2, <1>3

(* Who takes a valid row away: each of the steps that write old rows. *)
LEMMA RowsGoByRight ==
  ASSUME IndInv, ExpiredForGood, [Next]_vars, NEW t \in Tokens,
         row[t] = "valid", row'[t] \notin {"valid", "expired"}
  PROVE  Logout(t) \/ \E r \in Requests : pc'[r] # pc[r] /\ MayEnd(r, t)
<1> USE DEF IndInv, TypeOK
<1>1. CASE Cleanup \/ UNCHANGED vars
  BY <1>1 DEF Cleanup, Delete, Reclaims, vars
<1>2. ASSUME NEW s \in Tokens, Logout(s) \/ Expire(s) PROVE Logout(t)
  BY <1>2 DEF Logout, Delete, Expire
<1>3. ASSUME NEW u, NEW p, Create(u, p) PROVE FALSE
  BY <1>3 DEF Create, Inserted
<1>4. ASSUME NEW r \in Requests, EndAllSessions(r) \/ RevokeHeld(r)
      PROVE  pc'[r] # pc[r] /\ MayEnd(r, t)
  BY <1>4 DEF EndAllSessions, RevokeHeld, Revoked, Delete, RowsOf, Finish, MayEnd
<1>5. ASSUME NEW r \in Requests, DeleteExpired(r) PROVE FALSE
  BY <1>5 DEF DeleteExpired, Delete, ExpiredForGood
<1>6. ASSUME NEW r \in Requests,
             \/ \E s \in Tokens : ReadRow(r, s)
             \/ RevokeFails(r)
             \/ MintRefused(r)
             \/ Crash(r)
      PROVE  FALSE
  BY <1>6 DEF ReadRow, RevokeFails, MintRefused, Crash
<1> QED
  BY <1>1, <1>2, <1>3, <1>4, <1>5, <1>6 DEF Next, RefreshStep, Login, Rotate

(* Rows become valid by their creation only, and a valid one goes only by its own refresh or
   logout, or by a breach of its own user (revoke, logout, delete_all_for_user). *)
THEOREM RowsAreOrderly == Spec => RowLifecycle
<1>1. Init => ExpiredForGood
  BY DEF Init, ExpiredForGood
<1>2. Spec => []ExpiredForGood
  BY <1>1, ExpiredForGoodNext, Invariance, PTL DEF Spec
<1>3. IndInv /\ ExpiredForGood /\ [Next]_vars => [\A t \in Tokens : OrderlyLife(t)]_vars
  BY NewRowsOnly, RowsGoByRight DEF OrderlyLife, OnlyNewRowsAppear
<1> QED
  BY <1>2, <1>3, Invariance, PTL DEF Spec, RowLifecycle
-----------------------------------------------------------------------------
(* The refinement of Sessions: which steps move the session of which login. *)
LEMMA SameSession ==
  ASSUME NEW f \in Tokens, f \in forked' <=> f \in forked, Alive(f)' <=> Alive(f),
         Turning(f)' <=> Turning(f), Started(f)' <=> Started(f)
  PROVE  SessionOf(f)' = SessionOf(f)
BY DEF SessionOf

LEMMA OneMoves ==
  ASSUME NEW f \in Tokens, NEW from, NEW to, SessionOf(f) \in from, SessionOf(f)' = to,
         \A g \in Tokens \ {f} : SessionOf(g)' = SessionOf(g)
  PROVE  Promise!Move(f, from, to)
BY DEF Promise!Move

LEMMA NoneMoves ==
  ASSUME \A g \in Tokens : SessionOf(g)' = SessionOf(g), UNCHANGED (wiped \ forked)
  PROVE  UNCHANGED Promise!vars
BY DEF Promise!vars

(* A live session has no refresh between its two commits. *)
LEMMA AliveOrTurning ==
  ASSUME IndInv, NEW f \in Tokens \ forked
  PROVE  /\ ~(Alive(f) /\ Turning(f))
         /\ Alive(f) => Started(f)
         /\ Turning(f) => Started(f)
<1>1. ~(Alive(f) /\ Turning(f))
  BY DEF IndInv, OneSessionPerLogin, Alive, Turning
<1>2. Alive(f) => Started(f)
  BY DEF Alive, Unrevoked, Started
<1>3. ASSUME NEW r \in Requests, Carries(r, f) PROVE Started(f)
  <2>1. held[r] \in Tokens
    BY <1>3 DEF Carries, IndInv, TypeOK
  <2> QED BY <1>3, <2>1 DEF Carries, Started
<1> QED BY <1>1, <1>2, <1>3 DEF Turning

LEMMA QuietImplements ==
  ASSUME IndInv, Quiet, wiped' = wiped
  PROVE  \E fs \in SUBSET Tokens : Promise!End(fs)
<1> DEFINE fs == {f \in Tokens : SessionOf(f)' # SessionOf(f)}
<1>1. ASSUME NEW f \in Tokens
      PROVE  \/ SessionOf(f)' = SessionOf(f)
             \/ SessionOf(f) \in {"live", "turning"} /\ SessionOf(f)' = "over"
  <2>1. UNCHANGED <<family, forked>>
    BY DEF Quiet
  <2>2. Alive(f)' => Alive(f)
    BY <2>1 DEF Alive, Unrevoked, Quiet
  <2>3. Turning(f)' => Turning(f)
    BY <2>1 DEF Turning, Carries, Quiet
  <2>4. Started(f)' <=> Started(f)
    BY <2>1 DEF Started
  <2> QED BY <2>1, <2>2, <2>3, <2>4, AliveOrTurning DEF SessionOf
<1>2. \A f \in fs : SessionOf(f) \in {"live", "turning"} /\ SessionOf(f)' = "over"
  BY <1>1
<1>3. UNCHANGED (wiped \ forked)
  BY DEF Quiet
<1>4. Promise!End(fs)
  BY <1>2, <1>3 DEF Promise!End
<1> QED BY <1>4

(* A breach ends the live sessions of its user and leaves the turning ones turning. *)
LEMMA BreachImplements ==
  ASSUME IndInv, NEW r \in Requests, EndAllSessions(r)
  PROVE  \E fs \in SUBSET Tokens : Promise!Breach(fs)
<1> USE RefreshAssumption DEF Tokens, NoToken
<1> DEFINE u == owner[held[r]]
           fs == SessionsOf(u) \ forked
<1>1. /\ row' = [t \in Tokens |-> IF t \in RowsOf(u) THEN "absent" ELSE row[t]]
      /\ wiped' = wiped \cup SessionsOf(u)
      /\ UNCHANGED <<issued, owner, family, parent, forked>>
      /\ pc[r] = "breach" /\ pc' = [pc EXCEPT ![r] = "idle"]
      /\ held' = [held EXCEPT ![r] = NoToken]
  BY DEF EndAllSessions, Delete, Finish, lineage
<1>2. Quiet /\ IndInv'
  BY BreachIsQuiet, QuietPreserves
<1>3. \A f \in wiped' : Started(f) /\ f \in Tokens
  BY <1>2 DEF Quiet
<1>4. \A f \in Tokens : Started(f)' <=> Started(f)
  BY <1>1 DEF Started
<1>5. \A f \in Tokens : Turning(f)' <=> Turning(f)
  BY <1>1 DEF Turning, Carries, IndInv, TypeOK
<1>6. ASSUME NEW f \in fs
      PROVE  /\ f \in Tokens
             /\ SessionOf(f) \in {"live", "turning", "over"}
             /\ SessionOf(f)' = IF SessionOf(f) = "live" THEN "over" ELSE SessionOf(f)
  <2>1. f \in Tokens \ forked /\ Started(f) /\ f \in wiped'
    BY <1>1, <1>3
  <2>2. ~Alive(f)'
    BY <1>1, <1>2, <2>1 DEF Alive, Unrevoked, IndInv, WipedIsGone
  <2>3. ~(Alive(f) /\ Turning(f))
    BY <2>1, AliveOrTurning
  <2> QED BY <1>1, <1>4, <1>5, <2>1, <2>2, <2>3 DEF SessionOf
<1>7. ASSUME NEW f \in Tokens, f \notin fs
      PROVE  SessionOf(f)' = SessionOf(f)
  <2>1. CASE f \in forked
    BY <1>1, <2>1 DEF SessionOf
  <2>2. CASE f \notin forked
    <3>1. \A t \in Tokens : family[t] = f => row'[t] = row[t]
      BY <1>1, <1>7, <2>2 DEF SessionsOf, RowsOf
    <3>2. Alive(f)' <=> Alive(f)
      BY <1>1, <3>1 DEF Alive, Unrevoked
    <3> QED BY <1>1, <1>4, <1>5, <2>2, <3>2, SameSession
  <2> QED BY <2>1, <2>2
<1>8. wiped' \ forked' = (wiped \ forked) \cup fs
  BY <1>1
<1> HIDE DEF fs
<1>9. fs \in SUBSET Tokens
  BY <1>6
<1>10. [f \in Tokens |-> SessionOf(f)']
         = [f \in Tokens |-> IF f \in fs /\ SessionOf(f) = "live" THEN "over" ELSE SessionOf(f)]
  BY <1>6, <1>7
<1>11. Promise!Breach(fs)
  BY <1>6, <1>8, <1>9, <1>10 DEF Promise!Breach
<1> QED BY <1>9, <1>11

(* A new row belongs to the session of its family and to no other. *)
LEMMA CreateImplements ==
  ASSUME IndInv, NEW u, NEW p \in Tokens \cup {NoToken}, Create(u, p), p <= issued,
         UNCHANGED forked,
         NEW f \in Tokens, f = IF p = NoToken THEN issued + 1 ELSE family[p],
         \A r \in Requests, g \in Tokens \ {f} : Carries(r, g)' <=> Carries(r, g)
  PROVE  /\ \A g \in Tokens \ {f} : SessionOf(g)' = SessionOf(g)
         /\ f \notin forked => SessionOf(f)' = "live"
<1> USE RefreshAssumption DEF Tokens, NoToken
<1> PICK n \in Tokens : n = issued + 1
  BY DEF Create, IndInv, TypeOK
<1>1. /\ row' = [row EXCEPT ![n] = "valid"] /\ family' = [family EXCEPT ![n] = f]
      /\ family[n] = NoToken /\ row[n] = "absent"
  BY DEF Create, Inserted, IndInv, TypeOK, Lineage
<1>2. row'[n] = "valid" /\ family'[n] = f
  BY <1>1 DEF IndInv, TypeOK
<1>3. \A t \in Tokens \ {n} : row'[t] = row[t] /\ family'[t] = family[t]
  BY <1>1 DEF IndInv, TypeOK
<1>4. ASSUME NEW g \in Tokens \ {f} PROVE SessionOf(g)' = SessionOf(g)
  <2>1. Started(g)' <=> Started(g)
    BY <1>1, <1>2, <1>3 DEF Started
  <2>2. Alive(g)' <=> Alive(g)
    BY <1>1, <1>2, <1>3 DEF Alive, Unrevoked
  <2>3. Turning(g)' <=> Turning(g)
    BY DEF Turning
  <2> QED BY <2>1, <2>2, <2>3, SameSession
<1>5. Alive(f)'
  BY <1>2 DEF Alive, Unrevoked
<1> QED BY <1>4, <1>5 DEF SessionOf

LEMMA LoginImplements ==
  ASSUME IndInv, NEW u \in Users, Login(u)
  PROVE  \/ \E f \in Tokens : Promise!Start(f)
         \/ UNCHANGED Promise!vars
<1> USE RefreshAssumption DEF Tokens, NoToken
<1> PICK n \in Tokens : n = issued + 1
  BY DEF Login, Create, IndInv, TypeOK
<1>1. Create(u, NoToken) /\ UNCHANGED <<pc, held, forked, wiped>>
  BY DEF Login, handler
<1>2. \A r \in Requests : held[r] # n /\ held[r] \in Tokens \cup {NoToken}
  BY DEF IndInv, TypeOK
<1>3. \A t \in Tokens \ {n} : family'[t] = family[t]
  BY <1>1 DEF Create, IndInv, TypeOK
<1>4. \A r \in Requests, g \in Tokens : Carries(r, g)' <=> Carries(r, g)
  BY <1>1, <1>2, <1>3 DEF Carries, IndInv, TypeOK
<1>5. /\ \A g \in Tokens \ {n} : SessionOf(g)' = SessionOf(g)
      /\ n \notin forked => SessionOf(n)' = "live"
  BY <1>1, <1>4, CreateImplements DEF IndInv, TypeOK
<1>6. CASE n \in forked
  <2>1. SessionOf(n)' = SessionOf(n)
    BY <1>1, <1>6 DEF SessionOf
  <2> QED BY <1>1, <1>5, <2>1, NoneMoves
<1>7. CASE n \notin forked
  <2>1. ~Started(n)
    BY DEF Started, IndInv, TypeOK, Lineage
  <2>2. SessionOf(n) = "none"
    BY <1>7, <2>1, AliveOrTurning DEF SessionOf
  <2>3. Promise!Start(n)
    BY <1>1, <1>5, <1>7, <2>2, OneMoves DEF Promise!Start
  <2> QED BY <2>3
<1> QED BY <1>6, <1>7

LEMMA RotateImplements ==
  ASSUME IndInv, NEW r \in Requests, Rotate(r)
  PROVE  \/ \E f \in Tokens : Promise!Renew(f)
         \/ UNCHANGED Promise!vars
<1> USE RefreshAssumption DEF Tokens, NoToken
<1>1. held[r] \in Tokens /\ held[r] <= issued /\ pc[r] = "revoked"
  BY DEF Rotate, IndInv, TypeOK
<1>2. family[held[r]] \in Tokens
  BY <1>1 DEF IndInv, TypeOK, Lineage
<1> PICK p \in Tokens, f \in Tokens, u \in Users \cup {NoUser} :
       p = held[r] /\ f = family[p] /\ u = owner[p]
  BY <1>1, <1>2 DEF IndInv, TypeOK
<1>3. Create(u, p) /\ UNCHANGED forked /\ wiped' = wiped \ {f} /\ pc'[r] = "idle"
      /\ \A q \in Requests \ {r} : pc'[q] = pc[q] /\ held'[q] = held[q]
  BY DEF Rotate, Finish, IndInv, TypeOK
<1>4. \A t \in Tokens : t <= issued => family'[t] = family[t]
  BY <1>3 DEF Create, IndInv, TypeOK
<1>5. \A q \in Requests, g \in Tokens \ {f} : Carries(q, g)' <=> Carries(q, g)
  <2> SUFFICES ASSUME NEW q \in Requests, NEW g \in Tokens \ {f}
               PROVE  Carries(q, g)' <=> Carries(q, g)
    OBVIOUS
  <2>1. CASE q = r
    BY <1>3, <2>1 DEF Carries
  <2>2. CASE q # r
    <3>1. pc[q] = "revoked" => held[q] \in Tokens /\ held[q] <= issued
      BY DEF IndInv, TypeOK
    <3> QED BY <1>3, <1>4, <2>2, <3>1 DEF Carries
  <2> QED BY <2>1, <2>2
<1>6. /\ \A g \in Tokens \ {f} : SessionOf(g)' = SessionOf(g)
      /\ f \notin forked => SessionOf(f)' = "live"
  BY <1>1, <1>3, <1>5, CreateImplements
<1>7. CASE f \in forked
  <2>1. SessionOf(f)' = SessionOf(f)
    BY <1>3, <1>7 DEF SessionOf
  <2>2. UNCHANGED (wiped \ forked)
    BY <1>3, <1>7
  <2> QED BY <1>6, <2>1, <2>2, NoneMoves
<1>8. CASE f \notin forked
  <2>1. Turning(f)
    BY <1>1 DEF Turning, Carries
  <2>2. SessionOf(f) = "turning"
    BY <1>8, <2>1, AliveOrTurning DEF SessionOf
  <2>3. wiped' \ forked' = (wiped \ forked) \ {f}
    BY <1>3
  <2>4. Promise!Renew(f)
    BY <1>6, <1>8, <2>2, <2>3, OneMoves DEF Promise!Renew
  <2> QED BY <2>4
<1> QED BY <1>7, <1>8

(* The first revocation of a row turns its session, a second one forks it; neither comes
   after a breach of it, which leaves no row. *)
LEMMA RevokeImplements ==
  ASSUME IndInv, NEW r \in Requests, RevokeHeld(r)
  PROVE  \/ \E f \in Tokens : Promise!Turn(f) \/ Promise!Fork(f)
         \/ UNCHANGED Promise!vars
<1>1. held[r] \in Tokens /\ family[held[r]] \in Tokens /\ row[held[r]] # "absent"
  BY RefreshAssumption DEF RevokeHeld, IndInv, TypeOK, Lineage, Tokens, NoToken
<1> PICK h \in Tokens, f \in Tokens : h = held[r] /\ f = family[h]
  BY <1>1
<1>2. /\ row'[h] = "revoked" /\ \A t \in Tokens \ {h} : row'[t] = row[t]
      /\ pc'[r] = "revoked" /\ \A q \in Requests \ {r} : pc'[q] = pc[q]
      /\ pc[r] = "found" /\ UNCHANGED <<held, family, wiped>>
      /\ forked' = IF row[h] = "revoked" THEN forked \cup {f} ELSE forked
  BY DEF RevokeHeld, Revoked, IndInv, TypeOK
<1>3. ASSUME NEW g \in Tokens \ {f} PROVE SessionOf(g)' = SessionOf(g)
  <2>1. g \in forked' <=> g \in forked
    BY <1>2
  <2>2. Alive(g)' <=> Alive(g)
    BY <1>2 DEF Alive, Unrevoked
  <2>3. Turning(g)' <=> Turning(g)
    BY <1>2 DEF Turning, Carries
  <2>4. Started(g)' <=> Started(g)
    BY <1>2 DEF Started
  <2> QED BY <2>1, <2>2, <2>3, <2>4, SameSession
<1>4. CASE f \in forked
  <2>1. SessionOf(f)' = SessionOf(f)
    BY <1>2, <1>4 DEF SessionOf
  <2>2. UNCHANGED (wiped \ forked)
    BY <1>2, <1>4
  <2> QED BY <1>3, <2>1, <2>2, NoneMoves
<1>5. CASE f \notin forked /\ row[h] = "revoked"
  <2>1. Started(f)
    BY DEF Started
  <2>2. SessionOf(f) \in {"live", "turning", "over"} /\ SessionOf(f)' = "forked"
    BY <1>2, <1>5, <2>1 DEF SessionOf
  <2>3. f \notin wiped
    BY <1>1 DEF IndInv, WipedIsGone
  <2>4. wiped' \ forked' = wiped \ forked
    BY <1>2, <1>5, <2>3
  <2>5. Promise!Fork(f)
    BY <1>3, <2>2, <2>3, <2>4, OneMoves DEF Promise!Fork
  <2> QED BY <2>5
<1>6. CASE f \notin forked /\ row[h] # "revoked"
  <2>1. Unrevoked(h, f)
    BY <1>1, <1>6 DEF Unrevoked, IndInv, TypeOK, RowStates
  <2>2. SessionOf(f) = "live"
    BY <1>6, <2>1 DEF SessionOf, Alive
  <2>3. ~Alive(f)'
    BY <1>2, <1>6, <2>1 DEF Alive, Unrevoked, IndInv, OneSessionPerLogin
  <2>4. Turning(f)'
    BY <1>2 DEF Turning, Carries
  <2>5. SessionOf(f)' = "turning"
    BY <1>2, <1>6, <2>3, <2>4 DEF SessionOf
  <2>6. Promise!Turn(f)
    BY <1>2, <1>3, <1>6, <2>2, <2>5, OneMoves DEF Promise!Turn
  <2> QED BY <2>6
<1> QED BY <1>4, <1>5, <1>6

(* Login, rotation, reuse detection, logout, expiry, cleanup and crashes keep what Sessions
   says of a login: every step starts, turns, renews, ends or forks sessions, or is a breach
   that ends all of a user's sessions but the turning ones. *)
THEOREM SessionsKept == Spec => ImplementsSessions
<1>1. Init => Promise!Init
  BY DEF Init, Promise!Init, SessionOf, Alive, Turning, Started, Unrevoked, Carries, Tokens,
     NoToken
<1>2. IndInv /\ [Next]_vars => [Promise!Next]_(Promise!vars)
  <2> SUFFICES ASSUME IndInv, [Next]_vars
               PROVE  Promise!Next \/ UNCHANGED Promise!vars
    OBVIOUS
  <2>1. CASE Quiet /\ wiped' = wiped
    BY <2>1, QuietImplements DEF Promise!Next
  <2>2. ASSUME NEW r \in Requests, EndAllSessions(r)
        PROVE  Promise!Next \/ UNCHANGED Promise!vars
    BY <2>2, BreachImplements DEF Promise!Next
  <2>3. ASSUME NEW u \in Users, Login(u)
        PROVE  Promise!Next \/ UNCHANGED Promise!vars
    BY <2>3, LoginImplements DEF Promise!Next
  <2>4. ASSUME NEW r \in Requests, Rotate(r) \/ RevokeHeld(r)
        PROVE  Promise!Next \/ UNCHANGED Promise!vars
    BY <2>4, RotateImplements, RevokeImplements DEF Promise!Next
  <2> QED BY <2>1, <2>2, <2>3, <2>4, QuietSteps
<1> QED BY <1>1, <1>2, Invariance, PTL DEF Spec, ImplementsSessions, Promise!Spec

(* So a session without an exchangeable token and without a refresh between its two commits
   stays over, unless two refreshes revoked one row of it; if a breach ended it, it stays
   over without exception; and of the sessions a breach was to end only one that it found
   between those two commits can come back (Refresh.refresh, delete_all_for_user). *)
THEOREM EndedStaysEnded == Spec => Promise!OverIsOver
<1>1. IndInv => Promise!WipedIsNotLive
  <2> SUFFICES ASSUME IndInv, NEW f \in wiped \ forked
               PROVE  f \in Tokens /\ SessionOf(f) \in {"turning", "over"}
    BY DEF Promise!WipedIsNotLive
  <2>1. f \in Tokens /\ Started(f)
    BY DEF IndInv, TypeOK, Lineage
  <2>2. ~Alive(f)
    BY DEF IndInv, WipedIsGone, Alive, Unrevoked
  <2> QED BY <2>1, <2>2 DEF SessionOf
<1>2. Promise!Next => Promise!TakesNothingUp
  BY DEF Promise!Next, Promise!Start, Promise!Turn, Promise!Renew, Promise!Fork, Promise!End,
     Promise!Breach, Promise!Move, Promise!TakesNothingUp
<1> QED
  BY <1>1, <1>2, Invariance, SessionsKept, PTL
     DEF ImplementsSessions, Promise!Spec, Promise!OverIsOver
=============================================================================
