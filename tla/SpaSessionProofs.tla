-------------------------- MODULE SpaSessionProofs --------------------------
(***************************************************************************)
(* The composition of the SPA with the server implements RefreshTokens,    *)
(* for any tabs, calls, users, handlers and number of tokens.  Every step  *)
(* of the composition is a step of the server or leaves its table alone.   *)
(* Two need an argument: an exchange presents a token, since only a tab    *)
(* that has one starts it; and the logout deletes what the browser's       *)
(* cookie named at the click, which is never anything but the token of a   *)
(* login.                                                                  *)
(***************************************************************************)
EXTENDS SpaSession, TLAPS

(* The token of a login that was answered, or none. *)
LoginToken(t) == t = NoToken \/ (t \in Tokens /\ t <= issued /\ family[t] = t)

(* What the refinement needs of the server's state. *)
ServerShape ==
  /\ row = [t \in Tokens |-> row[t]]
  /\ issued \in Nat
  /\ family = [t \in Tokens |-> family[t]]

LoginTokens ==
  LoginToken(cookie) /\ \A x \in Tabs : LoginToken(login[x]) /\ LoginToken(carried[x])

(* The client's part of TypeOK. *)
ClientShape ==
  /\ store \in [Tabs -> Tokens \cup {NoToken}]
  /\ promise \in [Tabs -> Calls \cup {Nobody}]
  /\ call \in [Calls -> {"idle", "sent", "waiting", "resent"}]
  /\ awaits \in [Calls -> Calls \cup {Nobody}]
  /\ exchange \in [Calls -> {"none", "sent", "serving", "answered"}]
  /\ presented \in [Calls -> Tokens \cup {NoToken}]
  /\ by \in [Calls -> Requests \cup {Nobody}]
  /\ reply \in [Calls -> Tokens \cup {NoToken}]
  /\ stray \subseteq Tokens
  /\ \A c \in Calls : exchange[c] = "sent" => presented[c] \in Tokens
  /\ \A c \in Calls : by[c] # Nobody => exchange[c] = "serving"

PageShape ==
  /\ login \in [Tabs -> Tokens \cup {NoToken}]
  /\ logout \in [Tabs -> {"no", "sent", "served", "left"}]
  /\ carried \in [Tabs -> Tokens \cup {NoToken}]
  /\ cookie \in Tokens \cup {NoToken}

(* refreshPromise is the exchange that every waiting call of the tab waits for. *)
Waits ==
  /\ \A c \in Calls :
       /\ exchange[c] # "none" <=> awaits[c] = c
       /\ call[c] = "waiting" <=> awaits[c] # Nobody
       /\ awaits[c] # Nobody => promise[Home[c]] = awaits[c] /\ Home[awaits[c]] = Home[c]
  /\ \A x \in Tabs : promise[x] # Nobody => Home[promise[x]] = x /\ exchange[promise[x]] # "none"

Client == ClientShape /\ PageShape /\ Waits

Inv == ServerShape /\ LoginTokens /\ Client

LEMMA NoTokenIsNone == NoToken = 0 /\ NoToken \notin Tokens /\ Tokens = 1..MaxTokens
BY DEF NoToken, Server!NoToken, Tokens, Server!Tokens

LEMMA InvInit == Init => Inv
<1> SUFFICES ASSUME Init PROVE Inv
  OBVIOUS
<1>1. ServerShape /\ LoginTokens
  BY DEF Init, ServerShape, LoginTokens, LoginToken, Server!Init, NoToken, Server!NoToken,
         Tokens, Server!Tokens
<1>2. ClientShape /\ PageShape /\ Waits
  BY SpaAssumption DEF Init, ClientShape, PageShape, Waits, SpaAssumption
<1> QED BY <1>1, <1>2 DEF Inv, Client

-----------------------------------------------------------------------------
(* Steps that give no issued token another family keep the login tokens. *)
LEMMA LoginTokenStays ==
  ASSUME ServerShape, NEW t, LoginToken(t), issued' \in Nat, issued <= issued',
         \A s \in Tokens : s <= issued => family'[s] = family[s]
  PROVE  LoginToken(t)'
BY NoTokenIsNone DEF ServerShape, LoginToken, Tokens, Server!Tokens, NoToken, Server!NoToken

(* A new token leaves the older ones in their families; one without a parent starts a
   family of its own. *)
LEMMA CreateStays ==
  ASSUME ServerShape, NEW u, NEW p, Server!Create(u, p)
  PROVE  /\ ServerShape' /\ issued <= issued' /\ issued' \in Tokens
         /\ \A s \in Tokens : s <= issued => family'[s] = family[s]
         /\ p = NoToken => family'[issued'] = issued'
<1>1. issued' = issued + 1 /\ issued' \in Tokens
  BY SpaAssumption DEF ServerShape, Server!Create, Tokens, Server!Tokens, SpaAssumption
<1>2. row' = [t \in Tokens |-> row'[t]]
  BY DEF ServerShape, Server!Create, Server!Inserted
<1>3. family' = [t \in Tokens |-> family'[t]]
  BY DEF ServerShape, Server!Create
<1>4. \A s \in Tokens : s <= issued => family'[s] = family[s]
  BY DEF ServerShape, Server!Create, Tokens, Server!Tokens
<1>5. p = NoToken => family'[issued'] = issued'
  BY <1>1, <1>3 DEF ServerShape, Server!Create, NoToken
<1>6. ServerShape'
  BY <1>1, <1>2, <1>3 DEF ServerShape, Tokens, Server!Tokens
<1> QED BY <1>1, <1>4, <1>5, <1>6 DEF ServerShape

(* Steps that create no token. *)
ServerQuiet ==
  UNCHANGED <<issued, family>> /\ (UNCHANGED row \/ row' = [t \in Tokens |-> row'[t]])

LEMMA QuietStays ==
  ASSUME ServerShape, LoginTokens, ServerQuiet, UNCHANGED <<login, carried, cookie>>
  PROVE  ServerShape' /\ LoginTokens'
BY DEF ServerShape, LoginTokens, ServerQuiet, LoginToken, Tokens, Server!Tokens

LEMMA QuietSteps ==
  ASSUME ServerShape, NEW r \in Requests, NEW t,
         \/ Server!ReadRow(r, t) \/ Server!RevokeHeld(r) \/ Server!EndAllSessions(r)
         \/ Server!DeleteExpired(r) \/ Server!RevokeFails(r) \/ Server!MintRefused(r)
         \/ Server!Crash(r) \/ Server!Cleanup \/ Server!Expire(t)
  PROVE  ServerQuiet
<1>1. UNCHANGED <<issued, family>>
  BY DEF Server!ReadRow, Server!RevokeHeld, Server!EndAllSessions, Server!DeleteExpired,
     Server!RevokeFails, Server!MintRefused, Server!Crash, Server!Cleanup, Server!Expire,
     Server!history, Server!lineage
<1>2. UNCHANGED row \/ row' = [s \in Tokens |-> row'[s]]
  BY DEF ServerShape, Tokens, Server!ReadRow, Server!RevokeHeld, Server!Revoked,
     Server!EndAllSessions, Server!DeleteExpired, Server!RevokeFails, Server!MintRefused,
     Server!Crash, Server!Cleanup, Server!Expire, Server!Delete
<1> QED BY <1>1, <1>2 DEF ServerQuiet

-----------------------------------------------------------------------------
(* Calls: the interceptor's states and the tab's one exchange. *)
LEMMA SendKeeps == ASSUME Client, NEW c \in Calls, Send(c) \/ End(c) PROVE Client'
<1>1. ClientShape'
  BY DEF Client, ClientShape, Send, End, exchanges
<1>2. PageShape'
  BY DEF Client, PageShape, Send, End, page
<1>3. Waits'
  BY SpaAssumption DEF Client, ClientShape, Waits, Send, End, exchanges, SpaAssumption
<1> QED BY <1>1, <1>2, <1>3 DEF Client

LEMMA JoinKeeps == ASSUME Client, NEW c \in Calls, Join(c) PROVE Client'
<1>1. ClientShape'
  BY SpaAssumption DEF Client, ClientShape, Join, Wait, exchanges, SpaAssumption
<1>2. PageShape'
  BY DEF Client, PageShape, Join, Wait, page
<1>3. promise[Home[c]] \in Calls /\ Home[promise[Home[c]]] = Home[c]
      /\ exchange[promise[Home[c]]] # "none"
  BY SpaAssumption DEF Client, ClientShape, Waits, Join, Shares, SpaAssumption
<1>4. Waits'
  <2>1. \A d \in Calls \ {c} : call'[d] = call[d] /\ awaits'[d] = awaits[d]
    BY DEF Client, ClientShape, Join, Wait
  <2>2. call'[c] = "waiting" /\ awaits'[c] = promise[Home[c]]
    BY DEF Client, ClientShape, Join, Wait
  <2>3. exchange[c] = "none"
    BY SpaAssumption DEF Client, ClientShape, Waits, Join, SpaAssumption
  <2>4. promise[Home[c]] # c
    BY <1>3, <2>3
  <2>5. Nobody \notin Calls /\ UNCHANGED <<exchange, promise>>
    BY SpaAssumption DEF SpaAssumption, Join, exchanges
  <2> QED BY <1>3, <2>1, <2>2, <2>3, <2>4, <2>5 DEF Client, Waits
<1> QED BY <1>1, <1>2, <1>4 DEF Client

LEMMA RefreshKeeps == ASSUME Client, NEW c \in Calls, Refresh(c) PROVE Client'
<1>0. Home[c] \in Tabs /\ promise[Home[c]] = Nobody /\ store[Home[c]] \in Tokens /\ Nobody \notin Calls
  BY SpaAssumption DEF Client, ClientShape, Refresh, Shares, SpaAssumption
<1>1. ClientShape'
  <2>1. /\ store' \in [Tabs -> Tokens \cup {NoToken}]
        /\ promise' \in [Tabs -> Calls \cup {Nobody}]
        /\ call' \in [Calls -> {"idle", "sent", "waiting", "resent"}]
        /\ awaits' \in [Calls -> Calls \cup {Nobody}]
    BY DEF Client, ClientShape, Refresh, Wait
  <2>2. /\ exchange' \in [Calls -> {"none", "sent", "serving", "answered"}]
        /\ presented' \in [Calls -> Tokens \cup {NoToken}]
        /\ by' \in [Calls -> Requests \cup {Nobody}]
        /\ reply' \in [Calls -> Tokens \cup {NoToken}]
        /\ stray' \subseteq Tokens
    BY <1>0 DEF Client, ClientShape, Refresh
  <2>3. \A d \in Calls : exchange'[d] = "sent" => presented'[d] \in Tokens
    BY <1>0 DEF Client, ClientShape, Refresh
  <2>4. exchange[c] = "none"
    BY <1>0 DEF Client, ClientShape, Waits, Refresh
  <2>5. \A d \in Calls : by'[d] # Nobody => exchange'[d] = "serving"
    BY <2>4 DEF Client, ClientShape, Refresh
  <2> QED BY <2>1, <2>2, <2>3, <2>5 DEF ClientShape
<1>2. PageShape'
  BY DEF Client, PageShape, Refresh, Wait, page
<1>3. Waits'
  <2>1. \A d \in Calls \ {c} :
          call'[d] = call[d] /\ awaits'[d] = awaits[d] /\ exchange'[d] = exchange[d]
    BY DEF Client, ClientShape, Refresh, Wait
  <2>2. call'[c] = "waiting" /\ awaits'[c] = c /\ exchange'[c] = "sent"
    BY DEF Client, ClientShape, Refresh, Wait
  <2>3. promise'[Home[c]] = c /\ \A x \in Tabs \ {Home[c]} : promise'[x] = promise[x]
    BY <1>0 DEF Client, ClientShape, Refresh
  <2>4. \A d \in Calls : Home[d] = Home[c] => awaits[d] = Nobody
    BY <1>0, SpaAssumption DEF Client, ClientShape, Waits, SpaAssumption
  <2>5. \A d \in Calls \ {c} : awaits[d] # c
    BY <1>0, <2>4 DEF Client, ClientShape, Waits
  <2>6. \A d \in Calls : Home[d] \in Tabs
    BY SpaAssumption DEF SpaAssumption
  <2>7. \A d \in Calls : awaits'[d] # Nobody =>
          promise'[Home[d]] = awaits'[d] /\ Home[awaits'[d]] = Home[d]
    BY <2>1, <2>2, <2>3, <2>4, <2>6 DEF Client, Waits
  <2>8. \A x \in Tabs : promise'[x] # Nobody =>
          Home[promise'[x]] = x /\ exchange'[promise'[x]] # "none"
    BY <1>0, <2>1, <2>2, <2>3 DEF Client, ClientShape, Waits
  <2>9. \A d \in Calls : (exchange'[d] # "none" <=> awaits'[d] = d)
                         /\ (call'[d] = "waiting" <=> awaits'[d] # Nobody)
    BY <1>0, <2>1, <2>2 DEF Client, Waits
  <2> QED BY <2>7, <2>8, <2>9 DEF Waits
<1> QED BY <1>1, <1>2, <1>3 DEF Client

(* Steps of the server's side of the exchange: it stays under way. *)
LEMMA ExchangeMovesKeep ==
  ASSUME Client, UNCHANGED <<tab, page, presented, stray>>,
         exchange' \in [Calls -> {"none", "sent", "serving", "answered"}],
         by' \in [Calls -> Requests \cup {Nobody}],
         reply' \in [Calls -> Tokens \cup {NoToken}],
         \A c \in Calls : /\ exchange'[c] = "none" <=> exchange[c] = "none"
                          /\ exchange'[c] = "sent" => exchange[c] = "sent"
                          /\ by'[c] # Nobody => exchange'[c] = "serving"
  PROVE  Client'
<1>1. ClientShape'
  BY DEF Client, ClientShape, tab
<1>2. PageShape'
  BY DEF Client, PageShape, page
<1>3. Waits'
  BY SpaAssumption DEF Client, ClientShape, Waits, tab, SpaAssumption
<1> QED BY <1>1, <1>2, <1>3 DEF Client

LEMMA ServeKeeps ==
  ASSUME Client, NEW c \in Calls, NEW r \in Requests, Serve(c, r)
  PROVE  Client'
<1>1. UNCHANGED <<tab, page, presented, stray>>
  BY DEF Serve
<1>2. /\ exchange' \in [Calls -> {"none", "sent", "serving", "answered"}]
      /\ by' \in [Calls -> Requests \cup {Nobody}]
      /\ reply' \in [Calls -> Tokens \cup {NoToken}]
  BY DEF Client, ClientShape, Serve
<1>3. \A d \in Calls : /\ exchange'[d] = "none" <=> exchange[d] = "none"
                       /\ exchange'[d] = "sent" => exchange[d] = "sent"
                       /\ by'[d] # Nobody => exchange'[d] = "serving"
  BY DEF Client, ClientShape, Serve
<1> QED BY <1>1, <1>2, <1>3, ExchangeMovesKeep

LEMMA AnswerKeeps ==
  ASSUME Client, NEW r \in Requests, NEW t \in Tokens \cup {NoToken}, Answer(r, t)
  PROVE  Client'
<1>0. r # Nobody
  BY SpaAssumption DEF SpaAssumption
<1>1. UNCHANGED <<tab, page, presented, stray>>
  BY DEF Answer
<1>2. /\ exchange' \in [Calls -> {"none", "sent", "serving", "answered"}]
      /\ by' \in [Calls -> Requests \cup {Nobody}]
      /\ reply' \in [Calls -> Tokens \cup {NoToken}]
  BY DEF Client, ClientShape, Answer
<1>3. \A d \in Calls : /\ exchange'[d] = "none" <=> exchange[d] = "none"
                       /\ exchange'[d] = "sent" => exchange[d] = "sent"
                       /\ by'[d] # Nobody => exchange'[d] = "serving"
  BY <1>0 DEF Client, ClientShape, Answer
<1> QED BY <1>1, <1>2, <1>3, ExchangeMovesKeep

LEMMA SettleKeeps ==
  ASSUME Client, NEW c \in Calls, exchange[c] # "none", NEW t,
         NEW kept \in Tokens \cup {NoToken}, Settle(c, t, kept), stray' \subseteq Tokens
  PROVE  Client'
<1>0. Home[c] \in Tabs /\ awaits[c] = c /\ promise[Home[c]] = c /\ Nobody \notin Calls
  BY SpaAssumption DEF Client, Waits, SpaAssumption
<1>1. \A d \in Calls :
        /\ awaits[d] = c => awaits'[d] = Nobody /\ call'[d] \in {"idle", "resent"}
        /\ awaits[d] # c => awaits'[d] = awaits[d] /\ call'[d] = call[d]
  BY DEF Settle
<1>2. ClientShape'
  <2>1. /\ store' \in [Tabs -> Tokens \cup {NoToken}]
        /\ promise' \in [Tabs -> Calls \cup {Nobody}]
    BY <1>0 DEF Client, ClientShape, Settle, PromiseAfter
  <2>2. /\ call' \in [Calls -> {"idle", "sent", "waiting", "resent"}]
        /\ awaits' \in [Calls -> Calls \cup {Nobody}]
    BY DEF Client, ClientShape, Settle
  <2>3. /\ exchange' \in [Calls -> {"none", "sent", "serving", "answered"}]
        /\ presented' \in [Calls -> Tokens \cup {NoToken}]
        /\ by' \in [Calls -> Requests \cup {Nobody}]
        /\ reply' \in [Calls -> Tokens \cup {NoToken}]
    BY DEF Client, ClientShape, Settle
  <2>4. \A d \in Calls : /\ exchange'[d] = "sent" => presented'[d] \in Tokens
                         /\ by'[d] # Nobody => exchange'[d] = "serving"
    BY DEF Client, ClientShape, Settle
  <2> QED BY <2>1, <2>2, <2>3, <2>4 DEF ClientShape
<1>3. PageShape'
  BY DEF Client, PageShape, Settle, page
<1>4. Waits'
  <2>1. exchange'[c] = "none" /\ \A d \in Calls \ {c} : exchange'[d] = exchange[d]
    BY DEF Client, ClientShape, Settle
  <2>2. promise'[Home[c]] = Nobody /\ \A x \in Tabs \ {Home[c]} : promise'[x] = promise[x]
    BY <1>0 DEF Client, ClientShape, Settle, PromiseAfter
  <2>3. \A d \in Calls : Home[d] \in Tabs
    BY SpaAssumption DEF SpaAssumption
  <2>4. \A d \in Calls : awaits'[d] # Nobody =>
          promise'[Home[d]] = awaits'[d] /\ Home[awaits'[d]] = Home[d]
    <3> SUFFICES ASSUME NEW d \in Calls, awaits'[d] # Nobody
                 PROVE  promise'[Home[d]] = awaits'[d] /\ Home[awaits'[d]] = Home[d]
      OBVIOUS
    <3>1. awaits[d] # c /\ awaits'[d] = awaits[d]
      BY <1>1
    <3>2. promise[Home[d]] = awaits[d] /\ Home[awaits[d]] = Home[d]
      BY <3>1 DEF Client, Waits
    <3>3. Home[d] # Home[c]
      BY <1>0, <3>1, <3>2
    <3> QED BY <2>2, <2>3, <3>1, <3>2, <3>3
  <2>5. \A x \in Tabs : promise'[x] # Nobody =>
          Home[promise'[x]] = x /\ exchange'[promise'[x]] # "none"
    <3> SUFFICES ASSUME NEW x \in Tabs, promise'[x] # Nobody
                 PROVE  Home[promise'[x]] = x /\ exchange'[promise'[x]] # "none"
      OBVIOUS
    <3>1. x # Home[c] /\ promise'[x] = promise[x] /\ promise[x] \in Calls
      BY <2>2 DEF Client, ClientShape
    <3>2. Home[promise[x]] = x /\ exchange[promise[x]] # "none"
      BY <3>1 DEF Client, Waits
    <3> QED BY <2>1, <3>1, <3>2
  <2>6. \A d \in Calls : (exchange'[d] # "none" <=> awaits'[d] = d)
                         /\ (call'[d] = "waiting" <=> awaits'[d] # Nobody)
    BY <1>0, <1>1, <2>1 DEF Client, Waits
  <2> QED BY <2>4, <2>5, <2>6 DEF Waits
<1> QED BY <1>2, <1>3, <1>4 DEF Client

LEMMA AnsweredKeeps ==
  ASSUME Client, NEW c \in Calls, Send(c) \/ Answered(c)
  PROVE  Client'
<1>1. CASE Refreshed(c)
  <2>1. reply[c] \in Tokens \cup {NoToken} /\ exchange[c] # "none" /\ stray' \subseteq Tokens
    BY <1>1 DEF Client, ClientShape, Refreshed
  <2> QED BY <1>1, <2>1, SettleKeeps DEF Refreshed
<1>2. CASE NotRefreshed(c)
  <2>1. stray' \subseteq Tokens
    BY <1>2 DEF Client, ClientShape, NotRefreshed, Unanswered
  <2> QED BY <1>2, <2>1, SettleKeeps DEF NotRefreshed, StoreCleared
<1>3. CASE (\E r \in Requests : Serve(c, r)) \/ ServeUnknown(c)
  <2>1. CASE \E r \in Requests : Serve(c, r)
    BY <2>1, ServeKeeps
  <2>2. CASE ServeUnknown(c)
    <3>1. UNCHANGED <<tab, page, presented, stray>>
      BY <2>2 DEF ServeUnknown
    <3>2. /\ exchange' \in [Calls -> {"none", "sent", "serving", "answered"}]
          /\ by' = by /\ reply' = reply
          /\ \A d \in Calls : /\ exchange'[d] = "none" <=> exchange[d] = "none"
                              /\ exchange'[d] = "sent" => exchange[d] = "sent"
                              /\ by'[d] # Nobody => exchange'[d] = "serving"
      BY <2>2 DEF Client, ClientShape, ServeUnknown
    <3> QED BY <3>1, <3>2, ExchangeMovesKeep DEF Client, ClientShape
  <2> QED BY <1>3, <2>1, <2>2
<1>4. CASE Send(c) \/ Succeed(c) \/ Fail(c) \/ Join(c) \/ Refresh(c)
  BY <1>4, SendKeeps, JoinKeeps, RefreshKeeps DEF Succeed, Fail
<1> QED BY <1>1, <1>2, <1>3, <1>4 DEF Answered

LEMMA StrayKeeps ==
  ASSUME Client, NEW t \in Tokens, NEW r \in Requests, ServeStray(t, r)
  PROVE  Client'
<1>1. stray' \subseteq Tokens
  BY DEF Client, ClientShape, ServeStray
<1>2. UNCHANGED <<exchange, presented, by, reply, tab, page>>
  BY DEF ServeStray
<1> QED BY <1>1, <1>2 DEF Client, ClientShape, PageShape, Waits, tab, page

-----------------------------------------------------------------------------
(* The server's steps. *)
LEMMA RequestKeeps ==
  ASSUME Inv, NEW r \in Requests, Handle(r) \/ Crash(r)
  PROVE  Client'
<1>1. CASE Revoke(r)
  BY <1>1 DEF Revoke, exchanges, tab, page, Inv, Client, ClientShape, PageShape, Waits
<1>2. CASE Refuse(r) \/ Crash(r)
  BY <1>2, AnswerKeeps DEF Refuse, Crash, Inv
<1>3. CASE Rotate(r)
  <2>1. issued' \in Tokens
    BY <1>3, CreateStays DEF Inv, Rotate, Server!Rotate
  <2> QED BY <1>3, <2>1, AnswerKeeps DEF Rotate, Inv
<1> QED BY <1>1, <1>2, <1>3 DEF Handle

(* The pages: login and logout. *)
LEMMA PageKeeps ==
  ASSUME Inv, NEW x \in Tabs, Page(x)
  PROVE  Client'
<1>0. UNCHANGED <<exchanges, promise, call, awaits>>
  BY DEF Page, LoginSubmit, LoginAnswered, LoginLost, LogoutClick, LogoutServed, LogoutDone,
     tab, page
<1>1. Waits'
  BY <1>0 DEF Inv, Client, Waits, exchanges
<1>2. store' \in [Tabs -> Tokens \cup {NoToken}]
  BY DEF Inv, Client, ClientShape, PageShape, Page, LoginSubmit, LoginAnswered, LoginLost,
     LogoutClick, LogoutServed, LogoutDone, tab
<1>3. ClientShape'
  BY <1>0, <1>2 DEF Inv, Client, ClientShape, exchanges
<1>4. PageShape'
  <2>1. CASE \E u \in Users : LoginSubmit(x, u)
    <3>1. issued' \in Tokens
      BY <2>1, CreateStays DEF Inv, LoginSubmit, Server!Login
    <3> QED BY <2>1, <3>1 DEF Inv, Client, PageShape, LoginSubmit
  <2>2. CASE LoginAnswered(x) \/ LoginLost(x) \/ LogoutClick(x) \/ LogoutServed(x)
             \/ LogoutDone(x)
    BY <2>2 DEF Inv, Client, PageShape, LoginAnswered, LoginLost, LogoutClick, LogoutServed,
       LogoutDone
  <2> QED BY <2>1, <2>2 DEF Page
<1> QED BY <1>1, <1>3, <1>4 DEF Client

LEMMA ClientQuiet ==
  ASSUME Client, UNCHANGED <<exchanges, tab, page>>
  PROVE  Client'
BY DEF exchanges, tab, page, Client, ClientShape, PageShape, Waits

-----------------------------------------------------------------------------
(* What a page step does to the tokens logins were answered with. *)
LEMMA PageTokens ==
  ASSUME Inv, NEW x \in Tabs, Page(x)
  PROVE  ServerShape' /\ LoginTokens'
<1>1. CASE \E u \in Users : LoginSubmit(x, u)
  <2>1. PICK u \in Users : Server!Create(u, NoToken)
    BY <1>1 DEF LoginSubmit, Server!Login, NoToken
  <2>2. ServerShape' /\ LoginToken(issued)'
    BY <2>1, CreateStays DEF Inv, LoginToken, ServerShape
  <2>3. \A t : LoginToken(t) => LoginToken(t)'
    BY <2>1, CreateStays, LoginTokenStays DEF Inv, ServerShape
  <2>4. /\ cookie' = cookie /\ carried' = carried
        /\ \A y \in Tabs : login'[y] = login[y] \/ login'[y] = issued'
    BY <1>1 DEF LoginSubmit, Inv, Client, PageShape
  <2> QED BY <2>2, <2>3, <2>4 DEF Inv, LoginTokens, LoginToken
<1>2. CASE LoginAnswered(x) \/ LoginLost(x) \/ LogoutClick(x) \/ LogoutServed(x) \/ LogoutDone(x)
  <2>1. UNCHANGED <<issued, family>>
    BY <1>2 DEF LoginAnswered, LoginLost, LogoutClick, LogoutServed, LogoutDone, server
  <2>2. ServerShape'
    BY <1>2, <2>1 DEF Inv, ServerShape, LoginAnswered, LoginLost, LogoutClick, LogoutServed,
       LogoutDone, server, Server!Delete, Tokens
  <2>3. \A t : LoginToken(t)' <=> LoginToken(t)
    BY <2>1 DEF LoginToken, Tokens, Server!Tokens
  <2>4. cookie' \in {cookie, NoToken, login[x]}
    BY <1>2 DEF LoginAnswered, LoginLost, LogoutClick, LogoutServed, LogoutDone
  <2>5. \A y \in Tabs : /\ login'[y] = login[y] \/ login'[y] = NoToken
                       /\ carried'[y] \in {carried[y], cookie, NoToken}
    BY <1>2 DEF LoginAnswered, LoginLost, LogoutClick, LogoutServed, LogoutDone, Inv, Client,
       PageShape
  <2> QED BY <2>2, <2>3, <2>4, <2>5, NoTokenIsNone DEF Inv, LoginTokens, LoginToken
<1> QED BY <1>1, <1>2 DEF Page

(* The server's steps as RefreshTokens has them. *)
LEMMA RequestSteps ==
  ASSUME NEW r \in Requests, Handle(r) \/ Crash(r)
  PROVE  Server!RefreshStep(r) /\ UNCHANGED page
BY DEF Handle, Revoke, Refuse, Rotate, Crash, Answer, Server!RefreshStep

LEMMA InvNext == Inv /\ [Next]_vars => Inv'
<1> SUFFICES ASSUME Inv, [Next]_vars PROVE Inv'
  OBVIOUS
<1>1. ASSUME NEW c \in Calls, Send(c) \/ Answered(c) PROVE Inv'
  <2>1. UNCHANGED page /\ (UNCHANGED server \/ \E r \in Requests : Serve(c, r))
    BY <1>1 DEF Answered, Send, Succeed, Fail, End, Join, Refresh, Wait, Serve, ServeUnknown,
       Refreshed, NotRefreshed, Settle
  <2>2. ServerQuiet
    BY <2>1, QuietSteps DEF server, ServerQuiet, Serve, Inv
  <2> QED BY <1>1, <2>1, <2>2, QuietStays, AnsweredKeeps DEF Inv, page
<1>2. ASSUME NEW r \in Requests, Handle(r) \/ Crash(r) PROVE Inv'
  <2>1. CASE Rotate(r)
    <3>1. PICK u : Server!Create(u, held[r])
      BY <2>1 DEF Rotate, Server!Rotate
    <3>2. ServerShape' /\ \A t : LoginToken(t) => LoginToken(t)'
      BY <3>1, CreateStays, LoginTokenStays DEF Inv, ServerShape
    <3> QED BY <1>2, <3>2, RequestKeeps, RequestSteps DEF Inv, LoginTokens, page
  <2>2. CASE ~Rotate(r)
    <3>1. ServerQuiet
      BY <1>2, <2>2, QuietSteps DEF Handle, Revoke, Refuse, Crash, Inv
    <3> QED BY <1>2, <3>1, QuietStays, RequestKeeps, RequestSteps DEF Inv, page
  <2> QED BY <2>1, <2>2
<1>3. ASSUME NEW x \in Tabs, Page(x) PROVE Inv'
  BY <1>3, PageKeeps, PageTokens DEF Inv
<1>4. CASE ServerAlone
  <2>1. ServerQuiet
    <3>1. UNCHANGED <<issued, family>>
      BY <1>4 DEF ServerAlone, Server!Cleanup, Server!Expire, Server!history, Server!lineage
    <3>2. row' = [s \in Tokens |-> row'[s]]
      BY <1>4 DEF Inv, ServerShape, Tokens, ServerAlone, Server!Cleanup, Server!Expire,
         Server!Delete
    <3> QED BY <3>1, <3>2 DEF ServerQuiet
  <2> QED BY <1>4, <2>1, QuietStays, ClientQuiet DEF ServerAlone, page, Inv
<1>5. ASSUME NEW r \in Requests, NEW t \in Tokens, ServeStray(t, r) PROVE Inv'
  <2>1. ServerQuiet /\ UNCHANGED page
    BY <1>5, QuietSteps DEF ServeStray, Inv
  <2> QED BY <1>5, <2>1, QuietStays, StrayKeeps DEF Inv, page
<1>6. CASE UNCHANGED vars
  <2>1. UNCHANGED <<server, exchanges, tab, page>>
    BY <1>6 DEF vars
  <2> QED BY <2>1, QuietStays, ClientQuiet DEF Inv, server, page, ServerQuiet
<1> QED BY <1>1, <1>2, <1>3, <1>4, <1>5, <1>6 DEF Next

(* Every step of the composition is a step of RefreshTokens or leaves the server alone. *)
LEMMA StepImplements == Inv /\ [Next]_vars => [Server!Next]_(Server!vars)
<1> SUFFICES ASSUME Inv, [Next]_vars PROVE Server!Next \/ UNCHANGED server
  BY DEF server, Server!vars, Server!handler, Server!history, Server!lineage
<1>1. ASSUME NEW c \in Calls, Send(c) \/ Answered(c) PROVE Server!Next \/ UNCHANGED server
  <2>1. UNCHANGED server \/ \E r \in Requests : Serve(c, r)
    BY <1>1 DEF Answered, Send, Succeed, Fail, End, Join, Refresh, Wait, Serve, ServeUnknown,
       Refreshed, NotRefreshed, Settle
  <2>2. ASSUME NEW r \in Requests, Serve(c, r) PROVE Server!Next
    <3>1. presented[c] \in Server!Tokens /\ Server!ReadRow(r, presented[c])
      BY <2>2 DEF Serve, Inv, Client, ClientShape, Tokens
    <3> QED BY <3>1 DEF Server!Next, Server!RefreshStep
  <2> QED BY <2>1, <2>2
<1>2. ASSUME NEW r \in Requests, Handle(r) \/ Crash(r) PROVE Server!Next
  BY <1>2, RequestSteps DEF Server!Next
<1>3. ASSUME NEW x \in Tabs, Page(x) PROVE Server!Next \/ UNCHANGED server
  <2>1. CASE \E u \in Users : LoginSubmit(x, u)
    BY <2>1 DEF LoginSubmit, Server!Next
  <2>2. CASE LogoutServed(x)
    <3>1. CASE carried[x] = NoToken
      <4>1. row' = [t \in Tokens |-> row[t]]
        BY <2>2, <3>1, NoTokenIsNone DEF LogoutServed, LoggedOut, Server!Delete, Tokens
      <4> QED BY <2>2, <4>1 DEF LogoutServed, server, Inv, ServerShape
    <3>2. CASE carried[x] # NoToken
      <4>1. /\ carried[x] \in Server!Tokens /\ carried[x] <= issued
            /\ family[carried[x]] = carried[x]
        BY <3>2 DEF Inv, LoginTokens, LoginToken, Tokens
      <4>2. Server!Logout(carried[x])
        BY <2>2, <4>1 DEF LogoutServed, LoggedOut, Server!Logout, Server!handler,
           Server!history, Server!lineage
      <4> QED BY <4>1, <4>2 DEF Server!Next
    <3> QED BY <3>1, <3>2
  <2>3. CASE LoginAnswered(x) \/ LoginLost(x) \/ LogoutClick(x) \/ LogoutDone(x)
    BY <2>3 DEF LoginAnswered, LoginLost, LogoutClick, LogoutDone
  <2> QED BY <1>3, <2>1, <2>2, <2>3 DEF Page
<1>4. CASE ServerAlone
  BY <1>4 DEF ServerAlone, Server!Next, Tokens
<1>5. ASSUME NEW r \in Requests, NEW t \in Tokens, ServeStray(t, r) PROVE Server!Next
  BY <1>5 DEF ServeStray, Server!Next, Server!RefreshStep, Tokens
<1>6. CASE UNCHANGED vars
  BY <1>6 DEF vars
<1> QED BY <1>1, <1>2, <1>3, <1>4, <1>5, <1>6 DEF Next

LEMMA InvAlways == Spec => []Inv
BY InvInit, InvNext, PTL DEF Spec
-----------------------------------------------------------------------------
(* The server behind the SPA behaves as RefreshTokens says, whatever the tabs, the users
   and the network do (api.ts, auth-store.ts, AppLayout.tsx). *)
THEOREM Refinement == Spec => ImplementsRefreshTokens
<1>1. Init => Server!Init
  BY DEF Init
<1> QED BY <1>1, StepImplements, InvAlways, PTL DEF Spec, ImplementsRefreshTokens, Server!Spec

ServerProofs == INSTANCE RefreshTokensProofs

(* The server of the composition is the one the proofs about RefreshTokens speak of. *)
LEMMA SameServer == ServerProofs!RefreshAssumption /\ (Server!Spec <=> ServerProofs!Spec)
<1>1. ServerProofs!RefreshAssumption
  BY SpaAssumption DEF SpaAssumption, ServerProofs!RefreshAssumption
<1>2. Server!Next <=> ServerProofs!Next
  BY DEF Server!Tokens, ServerProofs!Tokens, Server!NoToken, ServerProofs!NoToken,
     Server!RowStates, ServerProofs!RowStates, Server!Finish, ServerProofs!Finish,
     Server!Delete, ServerProofs!Delete, Server!Inserted, ServerProofs!Inserted,
     Server!Create, ServerProofs!Create, Server!Login, ServerProofs!Login,
     Server!Verdict, ServerProofs!Verdict, Server!ReadRow, ServerProofs!ReadRow,
     Server!RowsOf, ServerProofs!RowsOf, Server!SessionsOf, ServerProofs!SessionsOf,
     Server!EndAllSessions,
     ServerProofs!EndAllSessions, Server!DeleteExpired, ServerProofs!DeleteExpired,
     Server!Revoked, ServerProofs!Revoked, Server!RevokeHeld, ServerProofs!RevokeHeld,
     Server!RevokeFails, ServerProofs!RevokeFails, Server!MintRefused,
     ServerProofs!MintRefused, Server!Rotate, ServerProofs!Rotate, Server!Crash,
     ServerProofs!Crash, Server!Logout, ServerProofs!Logout, Server!Expire,
     ServerProofs!Expire, Server!Reclaims, ServerProofs!Reclaims, Server!Cleanup,
     ServerProofs!Cleanup, Server!RefreshStep, ServerProofs!RefreshStep, Server!Next,
     ServerProofs!Next, Server!handler,
     ServerProofs!handler, Server!history, Server!lineage, ServerProofs!history,
     ServerProofs!lineage
<1>3. Server!Init <=> ServerProofs!Init
  BY DEF Server!Init, ServerProofs!Init, Server!Tokens, ServerProofs!Tokens,
     Server!NoToken, ServerProofs!NoToken
<1>4. [Server!Next]_(Server!vars) <=> [ServerProofs!Next]_(ServerProofs!vars)
  BY <1>2 DEF Server!vars, ServerProofs!vars, Server!handler, ServerProofs!handler,
     Server!history, Server!lineage, ServerProofs!history, ServerProofs!lineage
<1> QED BY <1>1, <1>3, <1>4, PTL DEF Server!Spec, ServerProofs!Spec

(* The server's table and handlers, the tabs and the exchanges keep their shapes, and
   nobody waits for an exchange that is not under way (api.ts). *)
THEOREM TypeCorrect == Spec => []TypeOK
<1>1. ServerProofs!Spec => []ServerProofs!TypeOK
  BY SameServer, ServerProofs!TypeCorrect
<1>2. Server!TypeOK <=> ServerProofs!TypeOK
  BY DEF Server!TypeOK, ServerProofs!TypeOK, Server!Tokens, ServerProofs!Tokens,
     Server!NoToken, ServerProofs!NoToken, Server!RowStates, ServerProofs!RowStates
<1>3. Inv /\ Server!TypeOK => TypeOK
  BY DEF Inv, Client, ClientShape, PageShape, Waits, TypeOK
<1>4. Spec => Server!Spec
  BY Refinement DEF ImplementsRefreshTokens
<1> QED BY <1>1, <1>2, <1>3, <1>4, SameServer, InvAlways, PTL

(* What is proved of every client holds of this one: behind the SPA a rotated token is
   dead and a login is worth one session, but for the families two refreshes forked. *)
THEOREM SessionsBehindTheSpa ==
  Spec => [](Server!RotatedTokenIsDead /\ Server!OneSessionPerLogin)
<1>1. ServerProofs!Spec => []ServerProofs!RotatedTokenIsDead /\ []ServerProofs!OneSessionPerLogin
  BY SameServer, ServerProofs!RotationKillsToken, ServerProofs!OneSession
<1>2. Server!RotatedTokenIsDead <=> ServerProofs!RotatedTokenIsDead
  BY DEF Server!RotatedTokenIsDead, ServerProofs!RotatedTokenIsDead, Server!Tokens,
     ServerProofs!Tokens, Server!NoToken, ServerProofs!NoToken
<1>3. Server!OneSessionPerLogin <=> ServerProofs!OneSessionPerLogin
  BY DEF Server!OneSessionPerLogin, ServerProofs!OneSessionPerLogin, Server!Unrevoked,
     ServerProofs!Unrevoked, Server!Carries, ServerProofs!Carries, Server!Tokens,
     ServerProofs!Tokens
<1>4. Spec => Server!Spec
  BY Refinement DEF ImplementsRefreshTokens
<1> QED BY <1>1, <1>2, <1>3, <1>4, SameServer, PTL
-----------------------------------------------------------------------------
(* Custody: why this client is never taken for a thief.  A token that a tab can still
   present, or that is on its way to the server, with a call that waits or as a stray, is
   in one place only, and neither was it revoked nor does a handler work on it. *)
Kinds == {"store", "login", "sent", "reply", "stray"}

Keepers == Tabs \cup Calls \cup Tokens

Place(k, i) ==
  \/ k \in {"store", "login"} /\ i \in Tabs
  \/ k \in {"sent", "reply"} /\ i \in Calls
  \/ k = "stray" /\ i \in Tokens

(* While an exchange is under way its end overwrites the tab's store. *)
Kept(k, i) ==
  CASE k = "store" -> IF promise[i] = Nobody THEN store[i] ELSE NoToken
    [] k = "login" -> login[i]
    [] k = "sent"  -> IF exchange[i] = "sent" THEN presented[i] ELSE NoToken
    [] k = "reply" -> reply[i]
    [] k = "stray" -> IF i \in stray THEN i ELSE NoToken

OneKeeper ==
  \A k, l \in Kinds : \A i, j \in Keepers :
    Place(k, i) /\ Place(l, j) /\ Kept(k, i) = Kept(l, j) /\ Kept(k, i) # NoToken => k = l /\ i = j

Unspent(t) == t \in Tokens /\ t <= issued /\ row[t] # "revoked" /\ \A r \in Requests : held[r] # t

KeptIsUnspent ==
  \A k \in Kinds, i \in Keepers :
    Place(k, i) /\ Kept(k, i) # NoToken => Unspent(Kept(k, i))

(* A handler works for one exchange at a time, and only an answer brings a token. *)
Serving ==
  /\ \A c \in Calls : by[c] # Nobody => pc[by[c]] # "idle"
  /\ \A c \in Calls : exchange[c] # "answered" => reply[c] = NoToken
  /\ \A c, d \in Calls : by[c] = by[d] /\ by[c] # Nobody => c = d

(* No two handlers work on one token, and who is to exchange a token is the first. *)
OneHandler == \A r, q \in Requests : held[r] = held[q] /\ held[r] # NoToken => r = q

FirstUse ==
  \A r \in Requests :
    /\ pc[r] = "found" => row[held[r]] # "revoked"
    /\ pc[r] \in {"found", "revoked"} => \A s \in Tokens : parent[s] # held[r]

Clients == OneKeeper /\ KeptIsUnspent /\ Serving
Handlers == OneHandler /\ FirstUse /\ NoFalseBreach /\ SingleUse
Custody == Clients /\ Handlers

(* What the server's own invariants say of the state. *)
ServerInv == Server!TypeOK /\ Server!RotatedTokenIsDead

LEMMA ServerFacts ==
  ASSUME Server!TypeOK
  PROVE  /\ row \in [Tokens -> Server!RowStates] /\ issued \in Nat
         /\ pc \in [Requests -> {"idle", "breach", "expired", "found", "revoked"}]
         /\ held \in [Requests -> Tokens \cup {NoToken}]
         /\ parent \in [Tokens -> Tokens \cup {NoToken}]
         /\ \A r \in Requests : held[r] <= issued /\ (pc[r] # "idle" <=> held[r] # NoToken)
         /\ \A t \in Tokens : t > issued => row[t] = "absent"
BY SpaAssumption DEF Server!TypeOK, Tokens, NoToken, Server!Tokens, SpaAssumption

(* Steps of the server that create no token, revoke none and let no handler begin. *)
ServerMild ==
  /\ UNCHANGED <<issued, parent, forked>>
  /\ \A t \in Tokens : row'[t] = "revoked" => row[t] = "revoked"
  /\ \A r \in Requests : \/ pc'[r] = pc[r] /\ held'[r] = held[r]
                         \/ pc'[r] = "idle" /\ held'[r] = NoToken

LEMMA MildKeeps ==
  ASSUME Handlers, ServerInv, ServerMild
  PROVE  Handlers' /\ \A t : Unspent(t) => Unspent(t)'
<1>1. OneHandler' /\ NoFalseBreach'
  BY DEF Handlers, OneHandler, NoFalseBreach, ServerMild
<1>2. FirstUse'
  <2> SUFFICES ASSUME NEW r \in Requests, pc'[r] \in {"found", "revoked"}
               PROVE  /\ pc'[r] = "found" => row'[held'[r]] # "revoked"
                      /\ \A s \in Tokens : parent'[s] # held'[r]
    BY DEF FirstUse
  <2>1. pc'[r] = pc[r] /\ held'[r] = held[r] /\ held[r] \in Tokens
    BY ServerFacts DEF ServerInv, ServerMild
  <2> QED BY <2>1 DEF Handlers, FirstUse, ServerMild
<1>3. SingleUse'
  BY DEF Handlers, SingleUse, Server!SingleUse, Server!Tokens, ServerMild
<1>4. ASSUME NEW t, Unspent(t) PROVE Unspent(t)'
  BY <1>4, NoTokenIsNone DEF Unspent, ServerMild, Tokens, Server!Tokens
<1> QED BY <1>1, <1>2, <1>3, <1>4 DEF Handlers

(* A handler that reads the row of an unspent token is its first, and finds no breach. *)
LEMMA ReadKeeps ==
  ASSUME Handlers, ServerInv, NEW r \in Requests, NEW t, Unspent(t), Server!ReadRow(r, t)
  PROVE  /\ Handlers' /\ pc'[r] # "idle" /\ pc[r] = "idle"
         /\ \A q \in Requests \ {r} : pc'[q] = pc[q]
         /\ \A s : Unspent(s) /\ s # t => Unspent(s)'
<1>1. /\ pc[r] = "idle" /\ pc' = [pc EXCEPT ![r] = Server!Verdict(t)]
      /\ held' = [held EXCEPT ![r] = t] /\ Server!Verdict(t) \in {"expired", "found"}
      /\ UNCHANGED <<row, issued, parent, forked>>
  BY DEF Server!ReadRow, Server!Verdict, Server!history, Server!lineage, Unspent
<1>2. /\ pc'[r] \in {"expired", "found"} /\ held'[r] = t
      /\ \A q \in Requests \ {r} : pc'[q] = pc[q] /\ held'[q] = held[q]
  BY <1>1, ServerFacts DEF ServerInv
<1>3. pc'[r] = "found" => row[t] = "valid"
  BY <1>1, ServerFacts DEF ServerInv, Server!Verdict, Unspent, Server!RowStates
<1>4. pc'[r] = "found" => \A s \in Tokens : parent[s] # t
  BY <1>3, NoTokenIsNone DEF ServerInv, Server!RotatedTokenIsDead, Unspent, Tokens, NoToken
<1>5. OneHandler' /\ NoFalseBreach'
  BY <1>1, <1>2 DEF Handlers, OneHandler, NoFalseBreach, Unspent
<1>6. FirstUse'
  BY <1>1, <1>2, <1>3, <1>4 DEF Handlers, FirstUse
<1>7. SingleUse'
  BY <1>1 DEF Handlers, SingleUse, Server!SingleUse, Server!Tokens
<1>8. ASSUME NEW s, Unspent(s), s # t PROVE Unspent(s)'
  BY <1>1, <1>2, <1>8 DEF Unspent, Tokens, Server!Tokens
<1> QED BY <1>1, <1>2, <1>5, <1>6, <1>7, <1>8 DEF Handlers

(* A handler revokes only the token it works on, which no other had revoked. *)
LEMMA RevokeKeeps ==
  ASSUME Handlers, ServerInv, NEW r \in Requests, Server!RevokeHeld(r)
  PROVE  /\ Handlers' /\ \A q \in Requests : pc'[q] = "idle" <=> pc[q] = "idle"
         /\ \A t : Unspent(t) => Unspent(t)'
<1>1. /\ pc[r] = "found" /\ pc' = [pc EXCEPT ![r] = "revoked"]
      /\ row' = [row EXCEPT ![held[r]] = "revoked"]
      /\ UNCHANGED <<issued, held, parent>>
  BY DEF Server!RevokeHeld, Server!Revoked
<1>2. held[r] \in Tokens /\ row[held[r]] # "revoked"
  BY <1>1, ServerFacts DEF ServerInv, Handlers, FirstUse
<1>3. forked' = forked
  BY <1>2 DEF Server!RevokeHeld
<1>4. pc'[r] = "revoked" /\ \A q \in Requests \ {r} : pc'[q] = pc[q]
  BY <1>1, ServerFacts DEF ServerInv
<1>5. \A t \in Tokens : t # held[r] => row'[t] = row[t]
  BY <1>1, ServerFacts DEF ServerInv
<1>6. OneHandler' /\ NoFalseBreach'
  BY <1>1, <1>4 DEF Handlers, OneHandler, NoFalseBreach
<1>7. FirstUse'
  <2> SUFFICES ASSUME NEW q \in Requests, pc'[q] \in {"found", "revoked"}
               PROVE  /\ pc'[q] = "found" => row'[held'[q]] # "revoked"
                      /\ \A s \in Tokens : parent'[s] # held'[q]
    BY DEF FirstUse
  <2>1. CASE q = r
    BY <1>1, <1>4, <2>1 DEF Handlers, FirstUse
  <2>2. CASE q # r
    <3>1. pc[q] = pc'[q] /\ held[q] \in Tokens /\ held'[q] = held[q]
      BY <1>1, <1>4, <2>2, ServerFacts DEF ServerInv
    <3>2. held[q] # held[r]
      BY <2>2, <3>1, NoTokenIsNone DEF Handlers, OneHandler
    <3> QED BY <1>1, <1>5, <3>1, <3>2 DEF Handlers, FirstUse
  <2> QED BY <2>1, <2>2
<1>8. SingleUse'
  BY <1>1, <1>3 DEF Handlers, SingleUse, Server!SingleUse, Server!Tokens
<1>9. ASSUME NEW t, Unspent(t) PROVE Unspent(t)'
  BY <1>1, <1>5, <1>9 DEF Unspent, Tokens, Server!Tokens
<1> QED BY <1>1, <1>4, <1>6, <1>7, <1>8, <1>9 DEF Handlers

(* Token p has no successor yet, and the handlers that work on it end. *)
Hands(p) ==
  /\ p \in Tokens \cup {NoToken}
  /\ \A s \in Tokens : parent[s] = p => p = NoToken
  /\ \A r \in Requests :
       \/ pc'[r] = pc[r] /\ held'[r] = held[r] /\ (held[r] = p => p = NoToken)
       \/ pc'[r] = "idle" /\ held'[r] = NoToken

(* A new token is unspent.  It has a parent when the one handler of the parent ends. *)
LEMMA CreateKeeps ==
  ASSUME Handlers, ServerInv, ServerInv', NEW u, NEW p, Server!Create(u, p), Hands(p),
         UNCHANGED forked
  PROVE  /\ Handlers' /\ Unspent(issued)' /\ issued' = issued + 1
         /\ \A t : Unspent(t) => Unspent(t)'
<1> DEFINE n == issued + 1
<1>1. /\ issued' = n /\ n \in Tokens /\ issued \in Nat
      /\ row' = [row EXCEPT ![n] = "valid"] /\ parent' = [parent EXCEPT ![n] = p]
  BY SpaAssumption, ServerFacts
     DEF ServerInv, Server!Create, Server!Inserted, Tokens, Server!Tokens, SpaAssumption
<1> HIDE DEF n
<1>2. /\ row'[n] = "valid" /\ \A t \in Tokens \ {n} : row'[t] = row[t]
      /\ parent'[n] = p /\ \A t \in Tokens \ {n} : parent'[t] = parent[t]
  BY <1>1, ServerFacts DEF ServerInv
<1>3. \A r \in Requests : held[r] # n /\ held'[r] # n
  BY <1>1, ServerFacts, NoTokenIsNone DEF ServerInv, Hands, n
<1>4. OneHandler' /\ NoFalseBreach'
  BY DEF Handlers, Hands, OneHandler, NoFalseBreach
<1>5. FirstUse'
  <2> SUFFICES ASSUME NEW r \in Requests, pc'[r] \in {"found", "revoked"}
               PROVE  /\ pc'[r] = "found" => row'[held'[r]] # "revoked"
                      /\ \A s \in Tokens : parent'[s] # held'[r]
    BY DEF FirstUse
  <2>1. pc'[r] = pc[r] /\ held'[r] = held[r] /\ held[r] # p /\ held[r] \in Tokens \ {n}
    BY <1>3, ServerFacts, NoTokenIsNone DEF ServerInv, Hands
  <2> QED BY <1>2, <2>1 DEF Handlers, FirstUse
<1>6. SingleUse'
  BY <1>2 DEF Handlers, Hands, SingleUse, Server!SingleUse, Tokens, NoToken
<1>7. ASSUME NEW t, Unspent(t) PROVE Unspent(t)'
  <2>1. t \in Tokens \ {n} /\ t \in Nat
    BY <1>1, <1>7, NoTokenIsNone DEF Unspent, n
  <2>2. \A r \in Requests : held'[r] # t
    BY <1>7, NoTokenIsNone DEF Unspent, Hands
  <2>3. t <= issued'
    BY <1>1, <1>7, <2>1 DEF Unspent, n
  <2> QED BY <1>2, <1>7, <2>1, <2>2, <2>3 DEF Unspent, Tokens, Server!Tokens
<1>8. Unspent(issued)'
  BY <1>1, <1>2, <1>3 DEF Unspent, n, Tokens, Server!Tokens
<1> QED BY <1>1, <1>4, <1>5, <1>6, <1>7, <1>8 DEF Handlers, n

(* A step that brings token t to place i0 of kind k0, and leaves it nowhere else. *)
Gives(t, k0, i0) ==
  \A k \in Kinds, i \in Keepers : Place(k, i) =>
    \/ Kept(k, i)' = NoToken
    \/ Kept(k, i)' = Kept(k, i) /\ Kept(k, i) # t
    \/ k = k0 /\ i = i0 /\ Kept(k, i)' = t /\ Unspent(t)'

(* Such a step keeps the custody of all tokens. *)
LEMMA GiveKeeps ==
  ASSUME OneKeeper, KeptIsUnspent, NEW t, NEW k0, NEW i0, Gives(t, k0, i0),
         \A s : Unspent(s) /\ s # t => Unspent(s)'
  PROVE  OneKeeper' /\ KeptIsUnspent'
<1>1. \A k \in Kinds, i \in Keepers : Place(k, i)' <=> Place(k, i)
  BY DEF Place, Keepers
<1>2. OneKeeper'
  <2> SUFFICES ASSUME NEW k \in Kinds, NEW l \in Kinds,
                      NEW i \in Keepers, NEW j \in Keepers,
                      Place(k, i), Place(l, j), Kept(k, i)' = Kept(l, j)', Kept(k, i)' # NoToken
               PROVE  k = l /\ i = j
    BY <1>1, NoTokenIsNone DEF OneKeeper
  <2>1. CASE Kept(k, i)' = t
    <3>1. k = k0 /\ i = i0
      BY <2>1 DEF Gives
    <3>2. l = k0 /\ j = i0
      BY <2>1 DEF Gives
    <3> QED BY <3>1, <3>2
  <2>2. CASE Kept(k, i)' # t
    <3>1. Kept(k, i)' = Kept(k, i) /\ Kept(l, j)' = Kept(l, j)
      BY <2>2 DEF Gives
    <3> QED BY <3>1 DEF OneKeeper
  <2> QED BY <2>1, <2>2
<1>3. KeptIsUnspent'
  <2> SUFFICES ASSUME NEW k \in Kinds, NEW i \in Keepers, Place(k, i), Kept(k, i)' # NoToken
               PROVE  Unspent(Kept(k, i))'
    BY <1>1, NoTokenIsNone DEF KeptIsUnspent
  <2> PICK v : v = Kept(k, i)'
    OBVIOUS
  <2>1. Unspent(v)'
    <3>1. CASE v = t
      BY <3>1 DEF Gives
    <3>2. CASE v # t
      <4>1. v = Kept(k, i) /\ Kept(k, i) # NoToken
        BY <3>2 DEF Gives
      <4>2. Unspent(v)
        BY <4>1 DEF KeptIsUnspent
      <4> QED BY <3>2, <4>2
    <3> QED BY <3>1, <3>2
  <2> QED BY <2>1 DEF Unspent
<1> QED BY <1>2, <1>3

(* Nothing comes to a new place. *)
LEMMA StillKeeps ==
  ASSUME OneKeeper, KeptIsUnspent, \A s : Unspent(s) => Unspent(s)',
         \A k \in Kinds, i \in Keepers : Place(k, i) =>
           Kept(k, i)' = NoToken \/ Kept(k, i)' = Kept(k, i)
  PROVE  OneKeeper' /\ KeptIsUnspent'
<1>1. Gives(NoToken, "store", Nobody)
  BY DEF Gives
<1> QED BY <1>1, GiveKeeps, NoTokenIsNone

LEMMA ClientOnly ==
  ASSUME Handlers, ServerInv, UNCHANGED server
  PROVE  Handlers' /\ \A s : Unspent(s) => Unspent(s)'
<1>1. ServerMild
  BY DEF server, ServerMild
<1> QED BY <1>1, MildKeeps

(* The calls of a tab, but for the exchange's arrival at the server. *)
LEMMA CallsKeep ==
  ASSUME Inv, ServerInv, Custody, NEW c \in Calls,
         \/ Send(c) \/ End(c) \/ Join(c) \/ Refresh(c) \/ ServeUnknown(c)
         \/ Refreshed(c) \/ NotRefreshed(c)
  PROVE  Custody'
<1>1. UNCHANGED server
  BY DEF Send, End, Join, Refresh, Wait, ServeUnknown, Refreshed, NotRefreshed, Settle
<1>2. Handlers' /\ \A s : Unspent(s) => Unspent(s)'
  BY <1>1, ClientOnly DEF Custody
<1>3. UNCHANGED <<login, logout, cookie, pc>>
  BY <1>1 DEF Send, End, Join, Refresh, Wait, ServeUnknown, Refreshed, NotRefreshed, Settle, page,
     server
<1>4. Serving'
  <2>1. \A d \in Calls : by'[d] \in {by[d], Nobody}
    BY DEF Inv, Client, ClientShape, Send, End, Join, Refresh, Wait, ServeUnknown, Refreshed,
       NotRefreshed, Settle, exchanges
  <2>2. \A d \in Calls : \/ reply'[d] = NoToken
                         \/ reply'[d] = reply[d] /\ exchange'[d] = exchange[d]
                         \/ exchange'[d] = "answered"
    <3>1. CASE Refresh(c)
      <4>1. exchange[c] = "none" /\ reply[c] = NoToken
        BY <3>1, SpaAssumption
           DEF Inv, Client, Waits, Refresh, Custody, Clients, Serving, SpaAssumption
      <4> QED BY <3>1, <4>1 DEF Inv, Client, ClientShape, Refresh
    <3>2. CASE Send(c) \/ End(c) \/ Join(c) \/ ServeUnknown(c)
      BY <3>2 DEF Inv, Client, ClientShape, Send, End, Join, ServeUnknown, exchanges
    <3>3. CASE Refreshed(c) \/ NotRefreshed(c)
      BY <3>3 DEF Inv, Client, ClientShape, Refreshed, NotRefreshed, Settle
    <3> QED BY <3>1, <3>2, <3>3
  <2> QED BY <1>3, <2>1, <2>2, NoTokenIsNone DEF Custody, Clients, Serving
<1>5. OneKeeper' /\ KeptIsUnspent'
  <2> USE DEF Custody, Clients
  <2>1. CASE Send(c) \/ End(c) \/ Join(c)
    <3>1. UNCHANGED <<exchange, presented, reply, stray, store, promise>>
      BY <2>1 DEF Send, End, Join, Wait, exchanges
    <3>2. \A k \in Kinds, i \in Keepers : Place(k, i) => Kept(k, i)' = Kept(k, i)
      BY <1>3, <3>1, NoTokenIsNone DEF Place, Keepers, Kept, Kinds
    <3> QED BY <1>2, <3>2, StillKeeps
  <2>2. CASE Refresh(c)
    <3> PICK t : t = store[Home[c]]
      OBVIOUS
    <3>1. Home[c] \in Tabs /\ promise[Home[c]] = Nobody /\ t # NoToken /\ c # Nobody
      BY <2>2, SpaAssumption DEF Refresh, Shares, SpaAssumption
    <3>2. Kept("store", Home[c]) = t /\ Unspent(t)
      BY <3>1 DEF Kept, Place, Keepers, Kinds, KeptIsUnspent
    <3>3. /\ promise' = [promise EXCEPT ![Home[c]] = c] /\ exchange' = [exchange EXCEPT ![c] = "sent"]
          /\ presented' = [presented EXCEPT ![c] = t] /\ UNCHANGED <<reply, stray, store>>
      BY <2>2 DEF Refresh, Wait
    <3>4. /\ Kept("store", Home[c])' = NoToken /\ Kept("sent", c)' = t
          /\ \A x \in Tabs \ {Home[c]} : Kept("store", x)' = Kept("store", x)
          /\ \A d \in Calls \ {c} : Kept("sent", d)' = Kept("sent", d)
          /\ \A x \in Tabs : Kept("login", x)' = Kept("login", x)
          /\ \A d \in Calls : Kept("reply", d)' = Kept("reply", d)
          /\ \A s \in Tokens : Kept("stray", s)' = Kept("stray", s)
      BY <1>3, <3>1, <3>3, NoTokenIsNone DEF Kept, Inv, Client, ClientShape
    <3>5. \A k \in Kinds, i \in Keepers :
            Place(k, i) /\ Kept(k, i) = t => k = "store" /\ i = Home[c]
      BY <3>1, <3>2 DEF OneKeeper, Place, Keepers, Kinds
    <3>6. Gives(t, "sent", c)
      BY <1>2, <3>2, <3>4, <3>5 DEF Gives, Place, Keepers, Kinds
    <3> QED BY <1>2, <3>6, GiveKeeps
  <2>3. CASE ServeUnknown(c)
    <3>1. /\ exchange' = [exchange EXCEPT ![c] = "answered"]
          /\ UNCHANGED <<presented, reply, stray, store, promise>>
      BY <2>3 DEF ServeUnknown, tab
    <3>2. \A k \in Kinds, i \in Keepers :
            Place(k, i) => Kept(k, i)' = NoToken \/ Kept(k, i)' = Kept(k, i)
      BY <1>3, <3>1, NoTokenIsNone DEF Place, Keepers, Kept, Kinds, Inv, Client, ClientShape
    <3> QED BY <1>2, <3>2, StillKeeps
  <2>4. ASSUME NEW kept, NEW t, Settle(c, kept, t)
        PROVE  /\ Kept("store", Home[c])' = t
               /\ Kept("sent", c)' = NoToken /\ Kept("reply", c)' = NoToken
               /\ \A x \in Tabs \ {Home[c]} : Kept("store", x)' = Kept("store", x)
               /\ \A d \in Calls \ {c} : Kept("sent", d)' = Kept("sent", d)
               /\ \A x \in Tabs : Kept("login", x)' = Kept("login", x)
               /\ \A d \in Calls \ {c} : Kept("reply", d)' = Kept("reply", d)
    <3>1. Home[c] \in Tabs
      BY SpaAssumption DEF SpaAssumption
    <3>2. /\ store' = [store EXCEPT ![Home[c]] = t]
          /\ promise' = [promise EXCEPT ![Home[c]] = Nobody]
          /\ exchange' = [exchange EXCEPT ![c] = "none"] /\ reply' = [reply EXCEPT ![c] = NoToken]
          /\ presented' = [presented EXCEPT ![c] = NoToken]
      BY <2>4 DEF Settle, PromiseAfter
    <3> QED BY <1>3, <3>1, <3>2, NoTokenIsNone DEF Kept, Inv, Client, ClientShape
  <2>5. CASE Refreshed(c)
    <3> PICK t : t = reply[c]
      OBVIOUS
    <3>1. Settle(c, t, t) /\ stray' = stray /\ t # NoToken /\ Home[c] \in Tabs
      BY <2>5, SpaAssumption DEF Refreshed, SpaAssumption
    <3>2. Kept("reply", c) = t /\ Unspent(t)
      BY <3>1 DEF Kept, Place, Keepers, Kinds, KeptIsUnspent
    <3>3. \A k \in Kinds, i \in Keepers :
            Place(k, i) /\ Kept(k, i) = t => k = "reply" /\ i = c
      BY <3>1, <3>2 DEF OneKeeper, Place, Keepers, Kinds
    <3>4. \A s \in Tokens : Kept("stray", s)' = Kept("stray", s)
      BY <3>1 DEF Kept
    <3>5. Gives(t, "store", Home[c])
      BY <1>2, <2>4, <3>1, <3>2, <3>3, <3>4 DEF Gives, Place, Keepers, Kinds
    <3> QED BY <1>2, <3>5, GiveKeeps
  <2>6. CASE NotRefreshed(c)
    <3> PICK t : t = presented[c]
      OBVIOUS
    <3>1. Settle(c, NoToken, NoToken) /\ stray' = stray \cup Unanswered(c)
      BY <2>6 DEF NotRefreshed, StoreCleared
    <3>2. CASE exchange[c] = "sent"
      <4>1. t \in Tokens /\ t # NoToken /\ Kept("sent", c) = t /\ Unspent(t)
        BY <3>2, NoTokenIsNone
           DEF Inv, Client, ClientShape, Kept, Place, Keepers, Kinds, KeptIsUnspent
      <4>2. \A k \in Kinds, i \in Keepers :
              Place(k, i) /\ Kept(k, i) = t => k = "sent" /\ i = c
        BY <4>1 DEF OneKeeper, Place, Keepers, Kinds
      <4>3. stray' = stray \cup {t}
        BY <3>1, <3>2 DEF Unanswered
      <4>4. /\ Kept("stray", t)' = t
            /\ \A s \in Tokens \ {t} : Kept("stray", s)' = Kept("stray", s)
        BY <4>3 DEF Kept
      <4>5. Gives(t, "stray", t)
        BY <1>2, <2>4, <3>1, <4>1, <4>2, <4>4 DEF Gives, Place, Keepers, Kinds
      <4> QED BY <1>2, <4>5, GiveKeeps
    <3>3. CASE exchange[c] # "sent"
      <4>1. \A s \in Tokens : Kept("stray", s)' = Kept("stray", s)
        BY <3>1, <3>3 DEF Unanswered, Kept
      <4>2. \A k \in Kinds, i \in Keepers :
              Place(k, i) => Kept(k, i)' = NoToken \/ Kept(k, i)' = Kept(k, i)
        BY <2>4, <3>1, <4>1 DEF Place, Keepers, Kinds
      <4> QED BY <1>2, <4>2, StillKeeps
    <3> QED BY <3>2, <3>3
  <2> QED BY <2>1, <2>2, <2>3, <2>5, <2>6
<1> QED BY <1>2, <1>4, <1>5 DEF Custody, Clients

(* A handler takes the exchange of call c, whose token is nowhere else. *)
LEMMA ArrivalKeeps ==
  ASSUME Inv, ServerInv, Custody, NEW c \in Calls, NEW r \in Requests, Serve(c, r)
  PROVE  Custody'
<1> USE DEF Custody, Clients
<1> PICK t : t = presented[c]
  OBVIOUS
<1>1. /\ exchange[c] = "sent" /\ exchange' = [exchange EXCEPT ![c] = "serving"]
      /\ by' = [by EXCEPT ![c] = r] /\ Server!ReadRow(r, t)
      /\ UNCHANGED <<presented, reply, stray, store, promise, login>>
  BY DEF Serve, tab, page
<1>2. Kept("sent", c) = t /\ t # NoToken /\ Unspent(t)
  BY <1>1, NoTokenIsNone DEF Inv, Client, ClientShape, Kept, Place, Keepers, Kinds, KeptIsUnspent
<1>3. /\ Handlers' /\ pc'[r] # "idle" /\ pc[r] = "idle"
      /\ \A q \in Requests \ {r} : pc'[q] = pc[q]
      /\ \A s : Unspent(s) /\ s # t => Unspent(s)'
  BY <1>1, <1>2, ReadKeeps
<1>4. Serving'
  <2>1. by'[c] = r /\ \A d \in Calls \ {c} : by'[d] = by[d] /\ by[d] # r
    BY <1>1, <1>3, SpaAssumption DEF Inv, Client, ClientShape, Serving, SpaAssumption
  <2>2. \A d \in Calls : by'[d] # Nobody => pc'[by'[d]] # "idle"
    BY <1>3, <2>1 DEF Inv, Client, ClientShape, Serving
  <2>3. \A d \in Calls : exchange'[d] # "answered" => exchange[d] # "answered"
    BY <1>1 DEF Inv, Client, ClientShape
  <2> QED BY <1>1, <2>1, <2>2, <2>3 DEF Serving
<1>5. OneKeeper' /\ KeptIsUnspent'
  <2>1. /\ Kept("sent", c)' = NoToken
        /\ \A x \in Tabs : Kept("store", x)' = Kept("store", x)
        /\ \A d \in Calls \ {c} : Kept("sent", d)' = Kept("sent", d)
        /\ \A x \in Tabs : Kept("login", x)' = Kept("login", x)
        /\ \A d \in Calls : Kept("reply", d)' = Kept("reply", d)
        /\ \A s \in Tokens : Kept("stray", s)' = Kept("stray", s)
    BY <1>1, NoTokenIsNone DEF Kept, Inv, Client, ClientShape
  <2>2. \A k \in Kinds, i \in Keepers :
          Place(k, i) /\ Kept(k, i) = t => k = "sent" /\ i = c
    BY <1>2 DEF OneKeeper, Place, Keepers, Kinds
  <2>3. Gives(t, "sent", Nobody)
    BY <2>1, <2>2 DEF Gives, Place, Keepers, Kinds
  <2> QED BY <1>3, <2>3, GiveKeeps
<1> QED BY <1>3, <1>4, <1>5

(* A handler takes an exchange that was given up: it is the first to work on its token. *)
LEMMA StrayArrivalKeeps ==
  ASSUME Inv, ServerInv, Custody, NEW t \in Tokens, NEW r \in Requests, ServeStray(t, r)
  PROVE  Custody'
<1> USE DEF Custody, Clients
<1>1. /\ t \in stray /\ stray' = stray \ {t} /\ Server!ReadRow(r, t)
      /\ UNCHANGED <<exchange, presented, by, reply, store, promise, login>>
  BY DEF ServeStray, tab, page
<1>2. Kept("stray", t) = t /\ t # NoToken /\ Unspent(t)
  BY <1>1, NoTokenIsNone DEF Kept, Place, Keepers, Kinds, KeptIsUnspent
<1>3. /\ Handlers' /\ pc'[r] # "idle" /\ pc[r] = "idle"
      /\ \A q \in Requests \ {r} : pc'[q] = pc[q]
      /\ \A s : Unspent(s) /\ s # t => Unspent(s)'
  BY <1>1, <1>2, ReadKeeps
<1>4. Serving'
  BY <1>1, <1>3, NoTokenIsNone DEF Inv, Client, ClientShape, Serving
<1>5. OneKeeper' /\ KeptIsUnspent'
  <2>1. /\ Kept("stray", t)' = NoToken
        /\ \A s \in Tokens \ {t} : Kept("stray", s)' = Kept("stray", s)
    BY <1>1 DEF Kept
  <2>2. \A k \in Kinds \ {"stray"}, i \in Keepers : Place(k, i) => Kept(k, i)' = Kept(k, i)
    BY <1>1, NoTokenIsNone DEF Kept, Place, Kinds
  <2>3. \A k \in Kinds, i \in Keepers : Place(k, i) /\ Kept(k, i) = t => k = "stray" /\ i = t
    BY <1>2 DEF OneKeeper, Place, Keepers, Kinds
  <2>4. Gives(t, "stray", Nobody)
    BY <2>1, <2>2, <2>3 DEF Gives, Place, Keepers, Kinds
  <2> QED BY <1>3, <2>4, GiveKeeps
<1> QED BY <1>3, <1>4, <1>5

(* The end of a handler: its client, if one still waits, is answered. *)
LEMMA AnswerServes ==
  ASSUME Inv, Serving, NEW r \in Requests, NEW t, Answer(r, t),
         \A q \in Requests \ {r} : pc'[q] = pc[q]
  PROVE  Serving'
<1>0. r # Nobody /\ Nobody \notin Requests
  BY SpaAssumption DEF SpaAssumption
<1>1. \A c \in Calls : by[c] # r => by'[c] = by[c] /\ exchange'[c] = exchange[c] /\ reply'[c] = reply[c]
  BY DEF Answer
<1>2. \A c \in Calls : by[c] = r => by'[c] = Nobody /\ exchange'[c] = "answered"
  BY DEF Answer
<1>3. \A c \in Calls : by[c] \in Requests \cup {Nobody}
  BY DEF Inv, Client, ClientShape
<1> QED BY <1>0, <1>1, <1>2, <1>3, NoTokenIsNone DEF Serving

(* Where the answer leaves the tokens. *)
LEMMA AnswerPlaces ==
  ASSUME Inv, NEW r \in Requests, NEW t, Answer(r, t)
  PROVE  /\ \A x \in Tabs : Kept("store", x)' = Kept("store", x)
         /\ \A x \in Tabs : Kept("login", x)' = Kept("login", x)
         /\ \A c \in Calls : Kept("sent", c)' = Kept("sent", c) \/ Kept("sent", c)' = NoToken
         /\ \A c \in Calls : IF by[c] = r THEN Kept("reply", c)' = t
                                           ELSE Kept("reply", c)' = Kept("reply", c)
         /\ \A s \in Tokens : Kept("stray", s)' = Kept("stray", s)
BY NoTokenIsNone DEF Answer, Kept, Inv, Client, ClientShape, tab, page

(* Steps of the server in which the clients take no part. *)
LEMMA AloneKeeps ==
  ASSUME Clients, Handlers', \A s : Unspent(s) => Unspent(s)',
         UNCHANGED <<exchange, presented, by, reply, stray, store, promise, login>>,
         \A q \in Requests : pc[q] # "idle" => pc'[q] # "idle" \/ \A c \in Calls : by[c] # q,
         \A c \in Calls : by[c] \in Requests \cup {Nobody}
  PROVE  Custody'
<1>1. \A k \in Kinds, i \in Keepers : Place(k, i) => Kept(k, i)' = Kept(k, i)
  BY NoTokenIsNone DEF Place, Keepers, Kept, Kinds
<1>2. OneKeeper' /\ KeptIsUnspent'
  BY <1>1, StillKeeps DEF Clients
<1>3. Serving'
  BY NoTokenIsNone DEF Clients, Serving
<1> QED BY <1>2, <1>3 DEF Custody, Clients

(* The successor goes to the one call whose exchange the handler serves, if it waits. *)
LEMMA RotateKeeps ==
  ASSUME Inv, ServerInv, ServerInv', Custody, NEW r \in Requests, Rotate(r)
  PROVE  Custody'
<1> USE DEF Custody, Clients
<1>1. /\ pc[r] = "revoked" /\ held[r] \in Tokens /\ held[r] # NoToken
      /\ pc'[r] = "idle" /\ held'[r] = NoToken
      /\ \A q \in Requests \ {r} : pc'[q] = pc[q] /\ held'[q] = held[q]
  BY ServerFacts, NoTokenIsNone
     DEF ServerInv, Rotate, Server!Rotate, Server!Finish, NoToken, Server!NoToken
<1> PICK u, p : u = owner[held[r]] /\ p = held[r]
  OBVIOUS
<1>2. Server!Create(u, p) /\ UNCHANGED forked /\ Answer(r, issued')
  BY DEF Rotate, Server!Rotate
<1>3. \A s \in Tokens : parent[s] # p
  BY <1>1 DEF Handlers, FirstUse
<1>4. Hands(p)
  BY <1>1, <1>3 DEF Hands, Handlers, OneHandler
<1>5. /\ Handlers' /\ Unspent(issued)' /\ issued' = issued + 1
      /\ \A s : Unspent(s) => Unspent(s)'
  BY <1>2, <1>4, CreateKeeps
<1> PICK t : t = issued'
  OBVIOUS
<1>6. Answer(r, t) /\ Unspent(t)' /\ t = issued + 1 /\ issued \in Nat
  BY <1>2, <1>5, ServerFacts DEF Unspent, ServerInv
<1>7. Serving'
  BY <1>1, <1>6, AnswerServes
<1>8. \A k \in Kinds, i \in Keepers : Place(k, i) => Kept(k, i) # t
  BY <1>6, NoTokenIsNone DEF KeptIsUnspent, Unspent
<1>9. OneKeeper' /\ KeptIsUnspent'
  <2>1. CASE \E c \in Calls : by[c] = r
    <3>1. PICK c \in Calls : by[c] = r
      BY <2>1
    <3>2. \A d \in Calls : by[d] = r => d = c
      BY <3>1, SpaAssumption DEF Serving, SpaAssumption
    <3>3. Gives(t, "reply", c)
      BY <1>6, <1>8, <3>2, AnswerPlaces DEF Gives, Place, Keepers, Kinds
    <3> QED BY <1>5, <3>3, GiveKeeps
  <2>2. CASE \A c \in Calls : by[c] # r
    <3>1. \A k \in Kinds, i \in Keepers : Place(k, i) =>
            Kept(k, i)' = NoToken \/ Kept(k, i)' = Kept(k, i)
      BY <1>6, <2>2, AnswerPlaces DEF Place, Keepers, Kinds
    <3> QED BY <1>5, <3>1, StillKeeps
  <2> QED BY <2>1, <2>2
<1> QED BY <1>5, <1>7, <1>9

(* The server's other answers bring no token. *)
LEMMA HandlerKeeps ==
  ASSUME Inv, ServerInv, ServerInv', Custody, NEW r \in Requests, Handle(r) \/ Crash(r)
  PROVE  Custody'
<1> USE DEF Custody, Clients
<1>1. CASE Revoke(r)
  <2>1. /\ Handlers' /\ \A q \in Requests : pc'[q] = "idle" <=> pc[q] = "idle"
        /\ \A t : Unspent(t) => Unspent(t)'
    BY <1>1, RevokeKeeps DEF Revoke
  <2>2. UNCHANGED <<exchange, presented, by, reply, stray, store, promise, login>>
    BY <1>1 DEF Revoke, exchanges, tab, page
  <2> QED BY <2>1, <2>2, AloneKeeps DEF Inv, Client, ClientShape
<1>2. CASE Refuse(r) \/ Crash(r)
  <2>1. /\ pc'[r] = "idle" /\ held'[r] = NoToken
        /\ \A q \in Requests \ {r} : pc'[q] = pc[q] /\ held'[q] = held[q]
    BY <1>2, ServerFacts
       DEF ServerInv, Refuse, Crash, Server!EndAllSessions, Server!DeleteExpired,
           Server!RevokeFails, Server!MintRefused, Server!Crash, Server!Finish, NoToken
  <2>2. UNCHANGED <<issued, parent, forked>> /\ Answer(r, NoToken)
    BY <1>2 DEF Refuse, Crash, Server!EndAllSessions, Server!DeleteExpired, Server!RevokeFails,
       Server!MintRefused, Server!Crash, Server!history, Server!lineage
  <2>3. \A t \in Tokens : row'[t] = "revoked" => row[t] = "revoked"
    BY <1>2 DEF Refuse, Crash, Server!EndAllSessions, Server!DeleteExpired, Server!RevokeFails,
       Server!MintRefused, Server!Crash, Server!Delete, Tokens
  <2>4. Handlers' /\ \A t : Unspent(t) => Unspent(t)'
    BY <2>1, <2>2, <2>3, MildKeeps DEF ServerMild
  <2>5. Serving'
    BY <2>1, <2>2, AnswerServes
  <2>6. \A k \in Kinds, i \in Keepers : Place(k, i) =>
          Kept(k, i)' = NoToken \/ Kept(k, i)' = Kept(k, i)
    BY <2>2, AnswerPlaces DEF Place, Keepers, Kinds
  <2> QED BY <2>4, <2>5, <2>6, StillKeeps
<1>3. CASE Rotate(r)
  BY <1>3, RotateKeeps
<1> QED BY <1>1, <1>2, <1>3 DEF Handle

(* Login brings a new token to the page, and the page brings it to the store. *)
LEMMA LoginKeeps ==
  ASSUME Inv, ServerInv, ServerInv', Custody, NEW x \in Tabs,
         (\E u \in Users : LoginSubmit(x, u)) \/ LoginAnswered(x)
  PROVE  Custody'
<1> USE DEF Custody, Clients
<1>0. UNCHANGED <<exchange, presented, by, reply, stray, promise, pc, held, forked>>
  BY DEF LoginSubmit, LoginAnswered, Server!Login, Server!handler, server, exchanges, tab
<1>1. Serving'
  BY <1>0, NoTokenIsNone DEF Serving
<1>2. CASE \E u \in Users : LoginSubmit(x, u)
  <2>1. PICK u \in Users : Server!Create(u, NoToken)
    BY <1>2 DEF LoginSubmit, Server!Login, NoToken
  <2>2. Hands(NoToken)
    BY <1>0 DEF Hands
  <2>3. /\ Handlers' /\ Unspent(issued)' /\ issued' = issued + 1
        /\ \A s : Unspent(s) => Unspent(s)'
    BY <1>0, <2>1, <2>2, CreateKeeps
  <2> PICK t : t = issued'
    OBVIOUS
  <2>4. Unspent(t)' /\ t = issued + 1 /\ issued \in Nat
    BY <2>3, ServerFacts DEF Unspent, ServerInv
  <2>5. \A k \in Kinds, i \in Keepers : Place(k, i) => Kept(k, i) # t
    BY <2>4, NoTokenIsNone DEF KeptIsUnspent, Unspent
  <2>6. login' = [login EXCEPT ![x] = t] /\ UNCHANGED store
    BY <1>2 DEF LoginSubmit, tab
  <2>7. Gives(t, "login", x)
    BY <1>0, <2>4, <2>5, <2>6, NoTokenIsNone
       DEF Gives, Kept, Place, Keepers, Kinds, Inv, Client, PageShape
  <2> QED BY <1>1, <2>3, <2>7, GiveKeeps
<1>3. CASE LoginAnswered(x)
  <2> PICK t : t = login[x]
    OBVIOUS
  <2>1. Handlers' /\ \A s : Unspent(s) => Unspent(s)'
    BY <1>3, ClientOnly DEF LoginAnswered
  <2>2. /\ t # NoToken /\ store' = [store EXCEPT ![x] = t]
        /\ login' = [login EXCEPT ![x] = NoToken]
    BY <1>3 DEF LoginAnswered
  <2>3. Kept("login", x) = t /\ Unspent(t)
    BY <2>2 DEF Kept, Place, Keepers, Kinds, KeptIsUnspent
  <2>4. \A k \in Kinds, i \in Keepers :
          Place(k, i) /\ Kept(k, i) = t => k = "login" /\ i = x
    BY <2>2, <2>3 DEF OneKeeper, Place, Keepers, Kinds
  <2>5. /\ Kept("login", x)' = NoToken /\ Kept("store", x)' \in {t, NoToken}
        /\ \A y \in Tabs \ {x} : Kept("store", y)' = Kept("store", y)
        /\ \A y \in Tabs \ {x} : Kept("login", y)' = Kept("login", y)
        /\ \A d \in Calls : Kept("sent", d)' = Kept("sent", d)
        /\ \A d \in Calls : Kept("reply", d)' = Kept("reply", d)
        /\ \A s \in Tokens : Kept("stray", s)' = Kept("stray", s)
    BY <1>0, <2>2, NoTokenIsNone DEF Kept, Inv, Client, ClientShape, PageShape
  <2>6. Gives(t, "store", x)
    BY <2>1, <2>3, <2>4, <2>5 DEF Gives, Place, Keepers, Kinds
  <2> QED BY <1>1, <2>1, <2>6, GiveKeeps
<1> QED BY <1>2, <1>3

(* The rest of the pages. *)
LEMMA LeaveKeeps ==
  ASSUME Inv, ServerInv, Custody, NEW x \in Tabs,
         LoginLost(x) \/ LogoutClick(x) \/ LogoutServed(x) \/ LogoutDone(x)
  PROVE  Custody'
<1> USE DEF Custody, Clients
<1>0. /\ UNCHANGED <<exchange, presented, by, reply, stray, promise, pc, held>>
      /\ UNCHANGED <<issued, parent, forked>>
  BY DEF LoginLost, LogoutClick, LogoutServed, LogoutDone, server, exchanges, tab
<1>1. \A t \in Tokens : row'[t] = "revoked" => row[t] = "revoked"
  BY DEF LoginLost, LogoutClick, LogoutServed, LogoutDone, Server!Delete, server, Tokens
<1>2. Handlers' /\ \A t : Unspent(t) => Unspent(t)'
  BY <1>0, <1>1, MildKeeps DEF ServerMild
<1>3. Serving'
  BY <1>0, NoTokenIsNone DEF Serving
<1>4. \A y \in Tabs : store'[y] \in {store[y], NoToken} /\ login'[y] \in {login[y], NoToken}
  BY DEF Inv, Client, ClientShape, PageShape, LoginLost, LogoutClick, LogoutServed, LogoutDone, tab
<1>5. \A k \in Kinds, i \in Keepers : Place(k, i) =>
        Kept(k, i)' = NoToken \/ Kept(k, i)' = Kept(k, i)
  BY <1>0, <1>4, NoTokenIsNone DEF Kept, Place, Keepers, Kinds
<1> QED BY <1>2, <1>3, <1>5, StillKeeps

LEMMA CustodyInit == Init => Custody
<1> SUFFICES ASSUME Init PROVE Custody
  OBVIOUS
<1>1. \A k \in Kinds, i \in Keepers : Place(k, i) => Kept(k, i) = NoToken
  BY DEF Init, Kept, Place, Keepers, Kinds
<1>2. OneKeeper /\ KeptIsUnspent
  BY <1>1 DEF OneKeeper, KeptIsUnspent
<1>3. Serving
  BY DEF Init, Serving
<1>4. Handlers
  BY NoTokenIsNone DEF Init, Server!Init, Handlers, OneHandler, FirstUse, NoFalseBreach, SingleUse,
     Server!SingleUse, Server!Tokens, Server!NoToken, NoToken, Tokens
<1> QED BY <1>2, <1>3, <1>4 DEF Custody, Clients

LEMMA CustodyNext == Inv /\ ServerInv /\ ServerInv' /\ Custody /\ [Next]_vars => Custody'
<1> SUFFICES ASSUME Inv, ServerInv, ServerInv', Custody, [Next]_vars PROVE Custody'
  OBVIOUS
<1>1. ASSUME NEW c \in Calls, Send(c) \/ Answered(c) PROVE Custody'
  BY <1>1, CallsKeep, ArrivalKeeps DEF Answered, Succeed, Fail
<1>2. ASSUME NEW r \in Requests, Handle(r) \/ Crash(r) PROVE Custody'
  BY <1>2, HandlerKeeps
<1>3. ASSUME NEW x \in Tabs, Page(x) PROVE Custody'
  BY <1>3, LoginKeeps, LeaveKeeps DEF Page
<1>4. CASE ServerAlone \/ UNCHANGED vars
  <2>1. /\ UNCHANGED <<exchange, presented, by, reply, stray, store, promise, login>>
        /\ UNCHANGED <<pc, held, issued, parent, forked>>
    BY <1>4 DEF ServerAlone, Server!Cleanup, Server!Expire, Server!handler,
       Server!history, Server!lineage, vars, server, exchanges, tab, page
  <2>2. \A t \in Tokens : row'[t] = "revoked" => row[t] = "revoked"
    BY <1>4, ServerFacts DEF ServerInv, ServerAlone, Server!Cleanup, Server!Expire, Server!Delete,
       Tokens, vars, server
  <2>3. Handlers' /\ \A t : Unspent(t) => Unspent(t)'
    BY <2>1, <2>2, MildKeeps DEF ServerMild, Custody
  <2> QED BY <2>1, <2>3, AloneKeeps DEF Custody, Inv, Client, ClientShape
<1>5. ASSUME NEW r \in Requests, NEW t \in Tokens, ServeStray(t, r) PROVE Custody'
  BY <1>5, StrayArrivalKeeps
<1> QED BY <1>1, <1>2, <1>3, <1>4, <1>5 DEF Next

LEMMA CustodyAlways == Spec => []Custody
<1>1. TypeOK /\ Server!RotatedTokenIsDead => ServerInv
  BY DEF TypeOK, ServerInv
<1>2. Spec => []ServerInv
  BY <1>1, TypeCorrect, SessionsBehindTheSpa, PTL
<1> QED BY <1>2, InvAlways, CustodyInit, CustodyNext, PTL DEF Spec

(* However many tabs share the browser, whatever is lost, retried, crashed or logged out,
   no handler of Refresh.refresh ever takes this client for a thief. *)
THEOREM NeverTakenForThief == Spec => []NoFalseBreach
<1>1. Custody => NoFalseBreach
  BY DEF Custody, Handlers
<1> QED BY <1>1, CustodyAlways, PTL

(* Behind this client every refresh token has at most one successor, and no two refreshes
   revoke the same row (api.ts, Refresh.refresh). *)
THEOREM TokensAreSingleUse == Spec => []SingleUse
<1>1. Custody => SingleUse
  BY DEF Custody, Handlers
<1> QED BY <1>1, CustodyAlways, PTL
=============================================================================
