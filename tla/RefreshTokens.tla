---------------------------- MODULE RefreshTokens ----------------------------
(***************************************************************************)
(* Refresh-token sessions: login, rotation with reuse detection, logout,   *)
(* the periodic cleanup task, and requests that die between two commits    *)
(* (app/services/auth/actions, repositories/auth/token.py, queue/task.py). *)
(*                                                                         *)
(* A refresh commits twice: it revokes the presented row, then loads the   *)
(* user, mints, and inserts the successor.  Nothing locks the row between  *)
(* the SELECT and the UPDATE.                                              *)
(***************************************************************************)
EXTENDS Naturals

CONSTANTS
  Users,
  NoUser,      \* owner of a token that does not exist yet
  Requests,    \* handlers that can run at the same time
  MaxTokens    \* bound: refresh tokens ever created

ASSUME RefreshAssumption == MaxTokens \in Nat /\ NoUser \notin Users

Tokens == 1..MaxTokens
NoToken == 0

VARIABLES
  row,      \* the refreshtoken table: is the row there, past expires_at, is_revoked
  issued,   \* tokens 1..issued have been created (the jti makes each unique)
  owner,    \* refreshtoken.user_id
  pc,       \* where each refresh is
  held,     \* the token it was given
  family,   \* history: the login token a token descends from
  parent,   \* history: the token it was rotated from
  forked,   \* history: families in which two refreshes revoked the same row
  wiped     \* history: families a breach was to end and no rotation has renewed since

handler == <<pc, held>>
lineage == <<family, parent, forked>>
history == <<lineage, wiped>>
vars == <<row, issued, owner, handler, history>>

(* A revoked row is treated alike before and after its expires_at. *)
RowStates == {"absent", "valid", "expired", "revoked"}

Init ==
  /\ row = [t \in Tokens |-> "absent"]
  /\ issued = 0
  /\ owner = [t \in Tokens |-> NoUser]
  /\ pc = [r \in Requests |-> "idle"]
  /\ held = [r \in Requests |-> NoToken]
  /\ family = [t \in Tokens |-> NoToken]
  /\ parent = [t \in Tokens |-> NoToken]
  /\ forked = {}
  /\ wiped = {}
-----------------------------------------------------------------------------
Finish(r) == pc' = [pc EXCEPT ![r] = "idle"] /\ held' = [held EXCEPT ![r] = NoToken]

Delete(ts) == row' = [t \in Tokens |-> IF t \in ts THEN "absent" ELSE row[t]]

(* RefreshTokenRepository.create adds one row. *)
Inserted(t) == [row EXCEPT ![t] = "valid"]

(* A new row for user u, descending from token p. *)
Create(u, p) ==
  LET t == issued + 1
  IN /\ issued < MaxTokens
     /\ issued' = t
     /\ row' = Inserted(t)
     /\ owner' = [owner EXCEPT ![t] = u]
     /\ parent' = [parent EXCEPT ![t] = p]
     /\ family' = [family EXCEPT ![t] = IF p = NoToken THEN t ELSE family[p]]

(* LoginUser.login and the OAuth callback: their only write to the table is the insert. *)
Login(u) == Create(u, NoToken) /\ UNCHANGED <<handler, forked, wiped>>

(* Wrong variant: the answer of the SELECT is not tested for None. *)
VerdictUntested(t) ==
  CASE row[t] = "revoked" -> "breach"
    [] row[t] = "expired" -> "expired"
    [] OTHER              -> "found"

(* Refresh.refresh up to its first write: unknown, reused, expired or fine. *)
Verdict(t) ==
  CASE row[t] = "absent"  -> "idle"
    [] row[t] = "revoked" -> "breach"
    [] row[t] = "expired" -> "expired"
    [] OTHER              -> "found"

(* get_by_token: the handler goes on with what this SELECT returned. *)
ReadRow(r, t) ==
  /\ pc[r] = "idle" /\ Verdict(t) # "idle"
  /\ pc' = [pc EXCEPT ![r] = Verdict(t)]
  /\ held' = [held EXCEPT ![r] = t]
  /\ UNCHANGED <<row, issued, owner, history>>

(* Wrong variant: a breach deletes every refresh token. *)
RowsOfAnyone(u) == Tokens

(* Wrong variant: a breach deletes the revoked rows only. *)
RowsRevoked(u) == {t \in Tokens : owner[t] = u /\ row[t] = "revoked"}

(* DELETE ... WHERE user_id *)
RowsOf(u) == {t \in Tokens : owner[t] = u}

(* The sessions a breach of user u is to end. *)
SessionsOf(u) == {family[t] : t \in {s \in Tokens : owner[s] = u}}

(* delete_all_for_user, then 403.  It deletes the rows there are: a refresh that has
   committed its revocation and not yet its insert goes on. *)
EndAllSessions(r) ==
  /\ pc[r] = "breach"
  /\ Delete(RowsOf(owner[held[r]]))
  /\ Finish(r)
  /\ wiped' = wiped \cup SessionsOf(owner[held[r]])
  /\ UNCHANGED <<issued, owner, lineage>>

(* delete_instance, then 401; deleting a row that is gone is only a warning *)
DeleteExpired(r) ==
  /\ pc[r] = "expired"
  /\ Delete({held[r]})
  /\ Finish(r)
  /\ UNCHANGED <<issued, owner, history>>

(* Wrong variant: the flag is set on the object but not committed. *)
RevokedForgotten(t) == row

(* RefreshTokenRepository.revoke: the UPDATE matches the row whatever its flag. *)
Revoked(t) == [row EXCEPT ![t] = "revoked"]

RevokeHeld(r) ==
  /\ pc[r] = "found" /\ row[held[r]] # "absent"
  /\ row' = Revoked(held[r])
  /\ forked' = IF row[held[r]] = "revoked" THEN forked \cup {family[held[r]]} ELSE forked
  /\ pc' = [pc EXCEPT ![r] = "revoked"]
  /\ UNCHANGED <<issued, owner, held, family, parent, wiped>>

(* The row was deleted meanwhile: StaleDataError, a 500. *)
RevokeFails(r) ==
  /\ pc[r] = "found" /\ row[held[r]] = "absent"
  /\ Finish(r)
  /\ UNCHANGED <<row, issued, owner, history>>

(* get_by_id_with_grants and mint_access_token, which refuses a deactivated user or
   tenant: by then the presented row is revoked. *)
MintRefused(r) ==
  /\ pc[r] = "revoked"
  /\ Finish(r)
  /\ UNCHANGED <<row, issued, owner, history>>

(* The rest of the refresh: mint both tokens, insert the successor, respond. *)
Rotate(r) ==
  /\ pc[r] = "revoked"
  /\ Create(owner[held[r]], held[r])
  /\ Finish(r)
  /\ wiped' = wiped \ {family[held[r]]}
  /\ UNCHANGED forked

(* The process dies or the database fails before the next commit. *)
Crash(r) ==
  /\ pc[r] # "idle"
  /\ Finish(r)
  /\ UNCHANGED <<row, issued, owner, history>>

(* LogoutUser.logout deletes the row of the cookie.  Only a login sets the cookie: it
   still holds the first token of the family however often the session was rotated. *)
Logout(t) ==
  /\ t <= issued /\ family[t] = t
  /\ Delete({t})
  /\ UNCHANGED <<issued, owner, handler, history>>

Expire(t) ==
  /\ row[t] = "valid"
  /\ row' = [row EXCEPT ![t] = "expired"]
  /\ UNCHANGED <<issued, owner, handler, history>>

(* Wrong variant: only expired rows are removed. *)
ReclaimsExpiredOnly(t) == row[t] = "expired"

(* expires_at < now OR is_revoked *)
Reclaims(t) == row[t] \in {"expired", "revoked"}

(* cleanup_expired_tokens, one DELETE *)
Cleanup ==
  /\ \E t \in Tokens : Reclaims(t)
  /\ Delete({t \in Tokens : Reclaims(t)})
  /\ UNCHANGED <<issued, owner, handler, history>>

-----------------------------------------------------------------------------
RefreshStep(r) ==
  \/ \E t \in Tokens : ReadRow(r, t)
  \/ EndAllSessions(r) \/ DeleteExpired(r)
  \/ RevokeHeld(r) \/ RevokeFails(r) \/ MintRefused(r) \/ Rotate(r)
  \/ Crash(r)

Next ==
  \/ \E u \in Users : Login(u)
  \/ \E r \in Requests : RefreshStep(r)
  \/ \E t \in Tokens : Logout(t) \/ Expire(t)
  \/ Cleanup

Spec == Init /\ [][Next]_vars

(* Celery beat runs the cleanup every day. *)
FairSpec == Spec /\ WF_vars(Cleanup)
-----------------------------------------------------------------------------
(* The table, the handlers and the history keep the shapes the code gives them. *)
TypeOK ==
  /\ row \in [Tokens -> RowStates]
  /\ issued \in 0..MaxTokens
  /\ owner \in [Tokens -> Users \cup {NoUser}]
  /\ pc \in [Requests -> {"idle", "breach", "expired", "found", "revoked"}]
  /\ held \in [Requests -> Tokens \cup {NoToken}]
  /\ family \in [Tokens -> Tokens \cup {NoToken}]
  /\ parent \in [Tokens -> Tokens \cup {NoToken}]
  /\ forked \in SUBSET Tokens
  /\ wiped \in SUBSET Tokens
  /\ \A t \in Tokens : t > issued => row[t] = "absent" /\ owner[t] = NoUser
  /\ \A r \in Requests : held[r] <= issued /\ (pc[r] # "idle" <=> held[r] # NoToken)

(* A token that has a successor can never be exchanged again: Refresh commits the
   revocation before it inserts the successor, whatever else runs or crashes. *)
RotatedTokenIsDead ==
  \A t \in Tokens : parent[t] # NoToken => row[parent[t]] \in {"absent", "revoked"}

(* A refresh between the revocation of a token of family f and its successor. *)
Carries(r, f) == pc[r] = "revoked" /\ family[held[r]] = f

Unrevoked(t, f) == row[t] \in {"valid", "expired"} /\ family[t] = f

(* One login is worth one session at a time: unless two refreshes revoked the same row,
   a family has one unrevoked token or one refresh about to insert one, never both. *)
OneSessionPerLogin ==
  \A f \in Tokens \ forked :
    /\ \A t, s \in Tokens : Unrevoked(t, f) /\ Unrevoked(s, f) => t = s
    /\ \A r, q \in Requests : Carries(r, f) /\ Carries(q, f) => r = q
    /\ \A t \in Tokens, r \in Requests : ~(Unrevoked(t, f) /\ Carries(r, f))

(* Request r may end the session of token t: it holds t, or reuse of a token of t's user. *)
MayEnd(r, t) ==
  \/ pc[r] = "found" /\ held[r] = t
  \/ pc[r] = "breach" /\ owner[held[r]] = owner[t]

OrderlyLife(t) ==
  /\ row[t] # "valid" /\ row'[t] = "valid" => t = issued' /\ t = issued + 1
  /\ row[t] = "valid" /\ row'[t] \notin {"valid", "expired"} =>
       Logout(t) \/ \E r \in Requests : pc'[r] # pc[r] /\ MayEnd(r, t)

(* No interleaving brings a wiped, expired, revoked or logged-out token back, and no valid
   token goes but by its own refresh or logout or a breach of its own user: neither the
   cleanup, nor a refresh that found another row expired, nor somebody else's breach
   (revoke, delete_all_for_user, delete_instance, cleanup_expired_tokens). *)
RowLifecycle == [][\A t \in Tokens : OrderlyLife(t)]_vars

(* Rows do not accumulate (docstring of cleanup_expired_tokens): what is revoked or
   expired is eventually gone. *)
DeadRowsAreReclaimed ==
  \A t \in Tokens : row[t] \in {"expired", "revoked"} ~> row[t] = "absent"

(* The session of login f. *)
Started(f) == \E t \in Tokens : family[t] = f
Alive(f) == \E t \in Tokens : Unrevoked(t, f)
Turning(f) == \E r \in Requests : Carries(r, f)

SessionOf(f) ==
  IF f \in forked THEN "forked"
  ELSE IF Alive(f) THEN "live"
  ELSE IF Turning(f) THEN "turning"
  ELSE IF Started(f) THEN "over" ELSE "none"

Promise == INSTANCE Sessions WITH
  Logins <- Tokens,
  status <- [f \in Tokens |-> SessionOf(f)],
  wiped <- wiped \ forked

(* The tables, handlers and crashes add up to what Sessions says of a login: a session is
   over when it has no exchangeable token and no refresh between its two commits, and then
   it stays over, but for one that two refreshes forked; a breach leaves none of its user's
   sessions a token that can be exchanged, and what survives it is a session that such a
   refresh was just turning.  That one the code lets go on: Renew. *)
ImplementsSessions == Promise!Spec

(* docs/03-authentication.md, "single-use: revoked, not deleted, so reuse is detectable": a
   refresh token has at most one successor.  Two refreshes that read its row together
   break it; SpaSession checks it for a client that does not send two. *)
SingleUse == \A t, s \in Tokens : parent[t] = parent[s] /\ parent[t] # NoToken => t = s

(* Claimed by README.md, "Logout revokes the refresh token in the database": once the
   browser has logged out, no token of its session can be exchanged. *)
LogoutEndsSession ==
  [][\A t, s \in Tokens : Logout(t) /\ family[s] = t => row'[s] # "valid"]_vars
=============================================================================
