----------------------------- MODULE SpaSession -----------------------------
(***************************************************************************)
(* The admin SPA's session (frontend/src/lib/api.ts, auth-store.ts, the    *)
(* login page and the sidebar's logout) composed with the server's         *)
(* refresh-token sessions, RefreshTokens.                                  *)
(*                                                                         *)
(* The tabs of one browser each keep an access and a refresh token in      *)
(* memory and share the cookie.  A call answered 401 exchanges the refresh *)
(* token once for all calls that wait, and is sent again.  Requests and    *)
(* answers can be lost, and the server works on when a client gave up: it  *)
(* may take up what a client sent long after the client stopped waiting.   *)
(* What a call carries does not matter here: its access token can expire   *)
(* or become stale at any time.                                            *)
(***************************************************************************)
EXTENDS Naturals

CONSTANTS
  Users, NoUser, Requests, MaxTokens,  \* as in RefreshTokens
  Tabs,
  Calls,     \* calls to the API that can be under way
  Home,      \* the tab a call belongs to
  Nobody     \* no call, no handler

ASSUME SpaAssumption ==
  /\ MaxTokens \in Nat /\ NoUser \notin Users
  /\ Home \in [Calls -> Tabs] /\ Nobody \notin Calls \cup Requests

VARIABLES
  row, issued, owner, pc, held, family, parent, forked, wiped,  \* the server's
  store,      \* the refresh token in the tab's auth store; the access token comes with it
  promise,    \* refreshPromise: the call whose exchange the tab's calls share
  call,       \* where each call is; "resent" has _retry set
  awaits,     \* the call whose exchange it waits for
  exchange,   \* the POST to /auth/refresh a call has started
  presented,  \* the token it sent
  by,         \* the handler that works on it
  reply,      \* the token it was answered with
  stray,      \* tokens on their way in exchanges that their calls gave up
  login,      \* the token of a login whose answer is on its way to the tab
  logout,     \* where the tab's handleLogout is; "left" when the tab did not wait for its end
  carried,    \* the cookie its request was sent with
  cookie      \* the browser's refresh_token cookie

Server == INSTANCE RefreshTokens

server == <<row, issued, owner, pc, held, family, parent, forked, wiped>>
exchanges == <<exchange, presented, by, reply, stray>>
tab == <<store, promise, call, awaits>>
page == <<login, logout, carried, cookie>>
vars == <<server, exchanges, tab, page>>

Tokens == Server!Tokens
NoToken == Server!NoToken

Init ==
  /\ Server!Init
  /\ store = [x \in Tabs |-> NoToken] /\ promise = [x \in Tabs |-> Nobody]
  /\ call = [c \in Calls |-> "idle"] /\ awaits = [c \in Calls |-> Nobody]
  /\ exchange = [c \in Calls |-> "none"] /\ presented = [c \in Calls |-> NoToken]
  /\ by = [c \in Calls |-> Nobody] /\ reply = [c \in Calls |-> NoToken] /\ stray = {}
  /\ login = [x \in Tabs |-> NoToken] /\ logout = [x \in Tabs |-> "no"]
  /\ carried = [x \in Tabs |-> NoToken] /\ cookie = NoToken
-----------------------------------------------------------------------------
(* register_exception: the status of what a handler raises (the last stands for anything
   unexpected).  The interceptor only asks whether it is a 401. *)
Errors == {"InvalidToken", "StaleToken", "UserNotAuthenticated", "UserUnauthenticated",
           "UserNotVerified", "UserDeactivated", "TenantInactive", "GrantNotAllowed",
           "SuperuserRequired", "UserNotFound", "RoleNotFound", "RoleNotAssigned",
           "PermissionNotFound", "PermissionNotGranted", "TenantNotFound", "RateLimit",
           "CircuitOpenError", "UsernameExist", "UserMailExist", "RoleExists",
           "RoleAlreadyAssigned", "PermissionExists", "PermissionAlreadyGranted",
           "UnknownPermission", "TenantExists", "ValidationError", "SanitizationError",
           "Exception"}

Status(e) ==
  CASE e \in {"InvalidToken", "StaleToken", "UserNotAuthenticated", "UserUnauthenticated"} -> 401
    [] e \in {"UserNotVerified", "UserDeactivated", "TenantInactive", "GrantNotAllowed",
              "SuperuserRequired"} -> 403
    [] e \in {"UserNotFound", "RoleNotFound", "RoleNotAssigned", "PermissionNotFound",
              "PermissionNotGranted", "TenantNotFound"} -> 404
    [] e \in {"RateLimit", "CircuitOpenError"} -> 429
    [] e = "Exception" -> 500
    [] OTHER -> 400

Statuses == {Status(e) : e \in Errors}

Send(c) ==
  /\ call[c] = "idle"
  /\ call' = [call EXCEPT ![c] = "sent"]
  /\ UNCHANGED <<server, exchanges, store, promise, awaits, page>>

(* A success, or an error the interceptor passes on: not a 401, a second 401, or a 401
   in a tab that has no refresh token and no exchange to wait for. *)
PassedOn(c, s) ==
  \/ s # 401 \/ call[c] = "resent"
  \/ promise[Home[c]] = Nobody /\ store[Home[c]] = NoToken

End(c) ==
  /\ call[c] \in {"sent", "resent"}
  /\ call' = [call EXCEPT ![c] = "idle"]
  /\ UNCHANGED <<server, exchanges, store, promise, awaits, page>>

Succeed(c) == End(c)
Fail(c) == \E s \in Statuses : PassedOn(c, s) /\ End(c)

Wait(c, d) ==
  /\ call' = [call EXCEPT ![c] = "waiting"]
  /\ awaits' = [awaits EXCEPT ![c] = d]
  /\ UNCHANGED <<server, store, page>>

(* Wrong variant: every 401 starts an exchange of its own. *)
SharesNothing(c) == FALSE

(* refreshPromise is set. *)
Shares(c) == promise[Home[c]] # Nobody

(* The first 401 of a call while the tab's exchange is under way. *)
Join(c) ==
  /\ call[c] = "sent" /\ Shares(c)
  /\ 401 \in Statuses
  /\ Wait(c, promise[Home[c]])
  /\ UNCHANGED <<exchanges, promise>>

(* The first 401 otherwise: refreshAccessToken posts the store's refresh token. *)
Refresh(c) ==
  /\ call[c] = "sent" /\ ~Shares(c) /\ store[Home[c]] # NoToken
  /\ 401 \in Statuses
  /\ Wait(c, c)
  /\ promise' = [promise EXCEPT ![Home[c]] = c]
  /\ exchange' = [exchange EXCEPT ![c] = "sent"]
  /\ presented' = [presented EXCEPT ![c] = store[Home[c]]]
  /\ UNCHANGED <<by, reply, stray>>

(* A handler of the server takes the exchange: its row is there. *)
Serve(c, r) ==
  /\ exchange[c] = "sent"
  /\ Server!ReadRow(r, presented[c])
  /\ exchange' = [exchange EXCEPT ![c] = "serving"]
  /\ by' = [by EXCEPT ![c] = r]
  /\ UNCHANGED <<presented, reply, stray, tab, page>>

(* 401 Invalid refresh token *)
ServeUnknown(c) ==
  /\ exchange[c] = "sent" /\ row[presented[c]] = "absent"
  /\ exchange' = [exchange EXCEPT ![c] = "answered"]
  /\ UNCHANGED <<server, presented, by, reply, stray, tab, page>>

(* Handler r is done: the client that still waits for it is answered with token t. *)
Answer(r, t) ==
  /\ exchange' = [c \in Calls |-> IF by[c] = r THEN "answered" ELSE exchange[c]]
  /\ reply' = [c \in Calls |-> IF by[c] = r THEN t ELSE reply[c]]
  /\ by' = [c \in Calls |-> IF by[c] = r THEN Nobody ELSE by[c]]
  /\ UNCHANGED <<presented, stray, tab, page>>

Revoke(r) == Server!RevokeHeld(r) /\ UNCHANGED <<exchanges, tab, page>>

Refuse(r) ==
  /\ \/ Server!EndAllSessions(r) \/ Server!DeleteExpired(r)
     \/ Server!RevokeFails(r) \/ Server!MintRefused(r)
  /\ Answer(r, NoToken)

Crash(r) == Server!Crash(r) /\ Answer(r, NoToken)

Rotate(r) == Server!Rotate(r) /\ Answer(r, issued')

(* Wrong variant: refreshPromise is never set back. *)
PromiseKept(x) == promise[x]

(* .finally: refreshPromise is null again. *)
PromiseAfter(x) == Nobody

(* The exchange of call c is over, with token t or with none: the store is set or
   cleared, and the calls that waited are sent again or fail. *)
Settle(c, t, kept) ==
  LET next == IF t = NoToken THEN "idle" ELSE "resent"
      waiters == {d \in Calls : awaits[d] = c}
  IN /\ store' = [store EXCEPT ![Home[c]] = kept]
     /\ promise' = [promise EXCEPT ![Home[c]] = PromiseAfter(Home[c])]
     /\ call' = [d \in Calls |-> IF d \in waiters THEN next ELSE call[d]]
     /\ awaits' = [d \in Calls |-> IF d \in waiters THEN Nobody ELSE awaits[d]]
     /\ exchange' = [exchange EXCEPT ![c] = "none"]
     /\ presented' = [presented EXCEPT ![c] = NoToken]
     /\ by' = [by EXCEPT ![c] = Nobody]
     /\ reply' = [reply EXCEPT ![c] = NoToken]
     /\ UNCHANGED <<server, page>>

(* setTokens *)
Refreshed(c) ==
  /\ exchange[c] = "answered" /\ reply[c] # NoToken
  /\ Settle(c, reply[c], reply[c])
  /\ UNCHANGED stray

(* Wrong variant: a failed exchange leaves the store as it was. *)
StoreKept(x) == store[x]

(* clear() *)
StoreCleared(x) == NoToken

(* What a call that ends without an answer leaves on its way. *)
Unanswered(c) == IF exchange[c] = "sent" THEN {presented[c]} ELSE {}

(* Any error, whatever the server did or will do: a refusal, a lost request or answer. *)
NotRefreshed(c) ==
  /\ exchange[c] # "none"
  /\ Settle(c, NoToken, StoreCleared(Home[c]))
  /\ stray' = stray \cup Unanswered(c)

(* A handler takes an exchange nobody waits for any more; one that is lost stays a stray. *)
ServeStray(t, r) ==
  /\ t \in stray
  /\ Server!ReadRow(r, t)
  /\ stray' = stray \ {t}
  /\ UNCHANGED <<exchange, presented, by, reply, tab, page>>

(* authApi.login: the server's part, and its answer on the way to the login page. *)
LoginSubmit(x, u) ==
  /\ store[x] = NoToken /\ login[x] = NoToken
  /\ Server!Login(u)
  /\ login' = [login EXCEPT ![x] = issued']
  /\ UNCHANGED <<exchanges, tab, logout, carried, cookie>>

(* LoginPage.handleSubmit sets the store, the browser the cookie. *)
LoginAnswered(x) ==
  /\ login[x] # NoToken
  /\ store' = [store EXCEPT ![x] = login[x]]
  /\ cookie' = login[x]
  /\ login' = [login EXCEPT ![x] = NoToken]
  /\ UNCHANGED <<server, exchanges, promise, call, awaits, logout, carried>>

LoginLost(x) ==
  /\ login[x] # NoToken
  /\ login' = [login EXCEPT ![x] = NoToken]
  /\ UNCHANGED <<server, exchanges, tab, logout, carried, cookie>>

(* AppLayout.handleLogout is on the pages of a tab that is logged in; its request takes
   the cookie along. *)
LogoutClick(x) ==
  /\ store[x] # NoToken /\ logout[x] \in {"no", "left"}
  /\ logout' = [logout EXCEPT ![x] = "sent"]
  /\ carried' = [carried EXCEPT ![x] = cookie]
  /\ UNCHANGED <<server, exchanges, tab, login, cookie>>

(* Wrong variant: the tab's own refresh token is deleted, not the cookie's. *)
LoggedOutTab(x) == store[x]

(* LogoutUser.logout deletes the row the cookie names, if there is a cookie. *)
LoggedOut(x) == carried[x]

LogoutServed(x) ==
  /\ logout[x] \in {"sent", "left"}
  /\ Server!Delete({LoggedOut(x)})
  /\ logout' = [logout EXCEPT ![x] = IF logout[x] = "sent" THEN "served" ELSE "no"]
  /\ carried' = [carried EXCEPT ![x] = NoToken]
  /\ UNCHANGED <<issued, owner, pc, held, family, parent, forked, wiped>>
  /\ UNCHANGED <<exchanges, tab, login, cookie>>

(* clear(), answered or not; an answer takes the cookie away.  The request of a tab that
   got none may still come to the server. *)
LogoutDone(x) ==
  /\ logout[x] \in {"sent", "served"}
  /\ logout' = [logout EXCEPT ![x] = IF logout[x] = "sent" THEN "left" ELSE "no"]
  /\ store' = [store EXCEPT ![x] = NoToken]
  /\ cookie' \in IF logout[x] = "served" THEN {cookie, NoToken} ELSE {cookie}
  /\ UNCHANGED <<server, exchanges, promise, call, awaits, login, carried>>

(* What happens to the table by itself. *)
ServerAlone ==
  /\ Server!Cleanup \/ \E t \in Tokens : Server!Expire(t)
  /\ UNCHANGED <<exchanges, tab, page>>
-----------------------------------------------------------------------------
Handle(r) == Revoke(r) \/ Refuse(r) \/ Rotate(r)

Answered(c) ==
  \/ Succeed(c) \/ Fail(c) \/ Join(c) \/ Refresh(c)
  \/ (\E r \in Requests : Serve(c, r)) \/ ServeUnknown(c)
  \/ Refreshed(c) \/ NotRefreshed(c)

Page(x) ==
  \/ \E u \in Users : LoginSubmit(x, u)
  \/ LoginAnswered(x) \/ LoginLost(x)
  \/ LogoutClick(x) \/ LogoutServed(x) \/ LogoutDone(x)

Next ==
  \/ \E c \in Calls : Send(c) \/ Answered(c)
  \/ \E r \in Requests : Handle(r) \/ Crash(r) \/ \E t \in Tokens : ServeStray(t, r)
  \/ \E x \in Tabs : Page(x)
  \/ ServerAlone

Spec == Init /\ [][Next]_vars

(* Handlers run on, and every request ends in an answer or a network error. *)
FairSpec ==
  /\ Spec
  /\ \A c \in Calls : WF_vars(Answered(c))
  /\ \A r \in Requests : WF_vars(Handle(r))
-----------------------------------------------------------------------------
(* Tabs and exchanges keep their shapes, and nobody waits for an exchange that is not
   under way: refreshPromise is the exchange of a call that itself waits for it. *)
TypeOK ==
  /\ Server!TypeOK
  /\ store \in [Tabs -> Tokens \cup {NoToken}]
  /\ promise \in [Tabs -> Calls \cup {Nobody}]
  /\ call \in [Calls -> {"idle", "sent", "waiting", "resent"}]
  /\ awaits \in [Calls -> Calls \cup {Nobody}]
  /\ exchange \in [Calls -> {"none", "sent", "serving", "answered"}]
  /\ presented \in [Calls -> Tokens \cup {NoToken}]
  /\ by \in [Calls -> Requests \cup {Nobody}]
  /\ reply \in [Calls -> Tokens \cup {NoToken}]
  /\ stray \subseteq Tokens
  /\ login \in [Tabs -> Tokens \cup {NoToken}]
  /\ logout \in [Tabs -> {"no", "sent", "served", "left"}]
  /\ carried \in [Tabs -> Tokens \cup {NoToken}]
  /\ cookie \in Tokens \cup {NoToken}
  /\ \A c \in Calls :
       /\ exchange[c] # "none" <=> awaits[c] = c
       /\ call[c] = "waiting" <=> awaits[c] # Nobody
       /\ awaits[c] # Nobody => promise[Home[c]] = awaits[c] /\ Home[awaits[c]] = Home[c]
  /\ \A x \in Tabs : promise[x] # Nobody => Home[promise[x]] = x /\ exchange[promise[x]] # "none"

(* A tab that only does what api.ts lets it do is never taken for a thief: whatever is
   lost, retried or logged out, it does not present a token it exchanged before, so the
   reuse detection of Refresh.refresh never ends its user's sessions. *)
NoFalseBreach == \A r \in Requests : pc[r] # "breach"

(* With these clients the rotation is what docs/03-authentication.md says of it: no token
   has two successors, although Refresh.refresh alone does not ensure it. *)
SingleUse == Server!SingleUse /\ forked = {}

(* Behind this client the server behaves as RefreshTokens says, so what is shown of every
   client holds of this one. *)
ImplementsRefreshTokens == Server!Spec

(* Every call ends, in success or in an error the page sees: the interceptor neither
   retries for ever nor leaves a call waiting for a promise nobody settles. *)
EveryCallIsAnswered == \A c \in Calls : call[c] # "idle" ~> call[c] = "idle"

(* Claimed by AppLayout.tsx, "best effort - clear local state regardless": after a logout
   the tab has no session until somebody logs in. *)
OnlyLoginStartsSession ==
  [][\A x \in Tabs : store[x] = NoToken /\ store'[x] # NoToken => LoginAnswered(x)]_vars
=============================================================================
