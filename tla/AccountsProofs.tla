--------------------------- MODULE AccountsProofs ---------------------------
(***************************************************************************)
(* Accounts for any addresses, names, passwords, handlers and mailboxes.   *)
(* The invariant says what each handler has established when it writes:    *)
(* a row it will insert is marked verified only if an administrator, the   *)
(* seed script or Google vouches for it, a mail is due only for an account *)
(* that is there, and who sets is_verified followed a fresh link.          *)
(***************************************************************************)
EXTENDS Accounts, TLAPS

(* A row that may stand in the table. *)
Sound(u) == u \in Rows /\ u.name # None /\ u.email # None /\ (u.password = None => u.verified)

(* What request r knows where it is. *)
Established(r) ==
  /\ pc[r] # "idle" => form[r].email \in Emails
  /\ pc[r] \in {"named", "checked"} => Sound(form[r]) /\ (form[r].verified => op[r] # "register")
  /\ pc[r] = "naming" => op[r] = "oauth" /\ form[r].password = None /\ form[r].verified
  /\ pc[r] = "mailing" => ExistsByEmail(form[r].email)
  /\ pc[r] = "verify" => form[r].email \in vouched

AllEstablished == \A r \in Requests : Established(r)

Inv ==
  /\ TypeOK /\ AllEstablished
  /\ OneAccountPerIdentity /\ VerifiedIsVouched /\ NoDanglingLink
LEMMA NoneIsNothing ==
  /\ None \notin Usernames /\ None \notin Emails /\ None \notin Passwords
  /\ ChosenNames \subseteq Usernames /\ FirstPasswords \subseteq Passwords
  /\ NewPasswords \subseteq Passwords
BY AccountsAssumption DEF AccountsAssumption, Passwords

LEMMA InvInit == Init => Inv
<1> SUFFICES ASSUME Init PROVE Inv
  OBVIOUS
<1>1. Blank \in Rows
  BY DEF Blank, Row, Rows
<1>2. TypeOK
  BY <1>1, AccountsAssumption DEF Init, TypeOK, AccountsAssumption
<1>3. AllEstablished
  BY DEF Init, AllEstablished, Established
<1> QED BY <1>2, <1>3 DEF Init, Inv, OneAccountPerIdentity, VerifiedIsVouched, NoDanglingLink

-----------------------------------------------------------------------------
(* The handlers' part of TypeOK. *)
HandlersOK ==
  /\ pc \in [Requests -> {"idle", "named", "checked", "naming", "mailing", "verify", "reset"}]
  /\ op \in [Requests -> {"none", "register", "create", "seed", "oauth", "verify", "reset"}]
  /\ form \in [Requests -> Rows] /\ suffix \in [Requests -> 1..Suffixes]

(* Only request r moves. *)
Moves(r) ==
  /\ HandlersOK'
  /\ \A q \in Requests \ {r} : pc'[q] = pc[q] /\ op'[q] = op[q] /\ form'[q] = form[q]

(* Accounts stay, and so do the reasons to trust their addresses. *)
Grows ==
  /\ vouched \subseteq vouched'
  /\ \A e \in Emails : ExistsByEmail(e) => ExistsByEmail(e)'

LEMMA OthersKeep ==
  ASSUME AllEstablished, NEW r \in Requests, Moves(r), Grows, Established(r)'
  PROVE  AllEstablished'
<1> SUFFICES ASSUME NEW q \in Requests \ {r} PROVE Established(q)'
  BY DEF AllEstablished
<1>1. pc'[q] = pc[q] /\ op'[q] = op[q] /\ form'[q] = form[q] /\ Established(q)
  BY DEF Moves, AllEstablished
<1>2. pc[q] = "mailing" => ExistsByEmail(form[q].email)'
  BY <1>1 DEF Established, Grows, ExistsByEmail
<1> QED BY <1>1, <1>2 DEF Established, Grows, Sound

(* Steps that leave the table and the mailboxes alone. *)
LEMMA LocalKeeps ==
  ASSUME Inv, NEW r \in Requests, Moves(r), UNCHANGED table, vouched \subseteq vouched',
         vouched' \subseteq Emails, Established(r)'
  PROVE  Inv'
<1>1. UNCHANGED <<users, links>>
  BY DEF table
<1>2. Grows
  BY <1>1 DEF Grows, ExistsByEmail
<1>3. TypeOK'
  BY <1>1 DEF Inv, TypeOK, Moves, HandlersOK
<1>4. OneAccountPerIdentity' /\ VerifiedIsVouched' /\ NoDanglingLink'
  BY <1>1 DEF Inv, OneAccountPerIdentity, VerifiedIsVouched, NoDanglingLink, ExistsByEmail
<1> QED BY <1>2, <1>3, <1>4, OthersKeep DEF Inv

LEMMA FinishMoves ==
  ASSUME HandlersOK, NEW r \in Requests, Finish(r)
  PROVE  Moves(r) /\ Established(r)'
<1>1. Blank \in Rows /\ 1 \in 1..Suffixes
  BY AccountsAssumption DEF Blank, Row, Rows, AccountsAssumption
<1>2. Moves(r) /\ pc'[r] = "idle"
  BY <1>1 DEF HandlersOK, Moves, Finish, Goto, Load
<1> QED BY <1>2 DEF Established

LEMMA BeginMoves ==
  ASSUME HandlersOK, NEW r \in Requests, NEW row \in Rows,
         NEW o \in {"register", "create", "seed", "oauth", "verify", "reset"},
         NEW l \in {"named", "naming", "mailing", "verify", "reset"},
         Begin(r, o, row, l), UNCHANGED suffix
  PROVE  Moves(r) /\ pc'[r] = l /\ op'[r] = o /\ form'[r] = row
BY DEF HandlersOK, Moves, Begin, Goto, Load

(* Creation, as far as the checks go. *)
LEMMA CheckKeeps ==
  ASSUME Inv, NEW r \in Requests,
         \/ \E o \in {"register", "create", "seed"}, n \in ChosenNames, e \in Emails,
               p \in FirstPasswords : CheckUsername(r, o, n, e, p)
         \/ CheckEmail(r)
  PROVE  Inv'
<1>0. HandlersOK /\ vouched \subseteq Emails /\ Established(r)
  BY DEF Inv, TypeOK, HandlersOK, AllEstablished
<1>1. ASSUME NEW o \in {"register", "create", "seed"}, NEW n \in ChosenNames, NEW e \in Emails,
             NEW p \in FirstPasswords, CheckUsername(r, o, n, e, p)
      PROVE  Inv'
  <2> DEFINE w == Row(n, e, p, o # "register")
  <2>1. Sound(w) /\ w.email \in Emails /\ (w.verified => o # "register")
    BY NoneIsNothing DEF Sound, Row, Rows
  <2>2. w \in Rows /\ Begin(r, o, w, "named") /\ UNCHANGED <<table, suffix, vouched>>
    BY <1>1, <2>1 DEF CheckUsername, Sound
  <2> HIDE DEF w
  <2>3. Moves(r) /\ pc'[r] = "named" /\ op'[r] = o /\ form'[r] = w
    BY <1>0, <2>2, BeginMoves
  <2>4. Established(r)'
    BY <2>1, <2>3 DEF Established, Sound
  <2> QED BY <1>0, <2>2, <2>3, <2>4, LocalKeeps
<1>2. CASE CheckEmail(r)
  <2>1. UNCHANGED <<table, vouched>>
    BY <1>2 DEF CheckEmail
  <2>2. CASE Finish(r)
    BY <1>0, <2>1, <2>2, FinishMoves, LocalKeeps
  <2>3. CASE pc[r] = "named" /\ Goto(r, "checked") /\ UNCHANGED <<op, form, suffix>>
    <3>1. Moves(r) /\ pc'[r] = "checked"
      BY <1>0, <2>3 DEF HandlersOK, Moves, Goto
    <3>2. Established(r)'
      BY <1>0, <2>3, <3>1 DEF Established, Sound
    <3> QED BY <1>0, <2>1, <3>1, <3>2, LocalKeeps
  <2> QED BY <1>2, <2>2, <2>3 DEF CheckEmail
<1> QED BY <1>1, <1>2

(* The Google callback, up to the name it found. *)
LEMMA OAuthKeeps ==
  ASSUME Inv, NEW r \in Requests, (\E e \in Emails : OAuthCallback(r, e)) \/ TryName(r)
  PROVE  Inv'
<1>0. HandlersOK /\ vouched \subseteq Emails /\ Established(r)
  BY DEF Inv, TypeOK, HandlersOK, AllEstablished
<1>1. ASSUME NEW e \in Emails, OAuthCallback(r, e) PROVE Inv'
  <2> DEFINE w == OAuthRow(e)
  <2>1. w \in Rows /\ w.email \in Emails /\ w.password = None /\ w.verified
    BY DEF OAuthRow, Row, Rows
  <2>2. Begin(r, "oauth", w, "naming") /\ UNCHANGED <<table, suffix, vouched>>
    BY <1>1 DEF OAuthCallback
  <2> HIDE DEF w
  <2>3. Moves(r) /\ pc'[r] = "naming" /\ op'[r] = "oauth" /\ form'[r] = w
    BY <1>0, <2>1, <2>2, BeginMoves
  <2>4. Established(r)'
    BY <2>1, <2>3 DEF Established
  <2> QED BY <1>0, <2>2, <2>3, <2>4, LocalKeeps
<1>2. CASE TryName(r)
  <2> PICK name : name = Candidates[form[r].email][suffix[r]]
    OBVIOUS
  <2>1. UNCHANGED <<table, vouched>> /\ op' = op /\ pc[r] = "naming" /\ name \in Usernames
    BY <1>0, <1>2, AccountsAssumption DEF TryName, Established, HandlersOK, AccountsAssumption
  <2>2. CASE /\ NextSuffix(suffix[r]) <= Suffixes
             /\ suffix' = [suffix EXCEPT ![r] = NextSuffix(@)] /\ UNCHANGED <<pc, form>>
    <3>1. Moves(r)
      BY <1>0, <2>1, <2>2, AccountsAssumption DEF HandlersOK, Moves, NextSuffix, AccountsAssumption
    <3>2. Established(r)'
      BY <1>0, <2>1, <2>2 DEF Established
    <3> QED BY <1>0, <2>1, <3>1, <3>2, LocalKeeps
  <2>3. CASE /\ Load(r, [form[r] EXCEPT !.name = name])
             /\ Goto(r, "checked") /\ UNCHANGED suffix
    <3>1. form[r] \in Rows /\ [form[r] EXCEPT !.name = name] \in Rows
      BY <1>0, <2>1 DEF HandlersOK, Rows
    <3>2. Moves(r) /\ pc'[r] = "checked" /\ form'[r] = [form[r] EXCEPT !.name = name]
      BY <1>0, <2>1, <2>3, <3>1 DEF HandlersOK, Moves, Goto, Load
    <3>3. Sound(form'[r]) /\ form'[r].email = form[r].email
      BY <1>0, <2>1, <3>1, <3>2, NoneIsNothing DEF Sound, Established, Rows
    <3>4. Established(r)'
      BY <1>0, <2>1, <3>2, <3>3 DEF Established, Sound
    <3> QED BY <1>0, <2>1, <3>2, <3>4, LocalKeeps
  <2> QED BY <1>2, <2>2, <2>3 DEF TryName
<1> QED BY <1>1, <1>2
-----------------------------------------------------------------------------
(* A handler that creates an account found its name and address free in this step. *)
LEMMA CreateKeeps ==
  ASSUME Inv, NEW r \in Requests, CreateUser(r)
  PROVE  Inv'
<1>0. HandlersOK /\ vouched \subseteq Emails /\ Established(r)
  BY DEF Inv, TypeOK, HandlersOK, AllEstablished
<1> PICK w : w = form[r]
  OBVIOUS
<1>1. /\ Unique(w) /\ users' = users \cup {w} /\ links' = links
      /\ vouched' = IF op[r] = "register" THEN vouched ELSE vouched \cup {w.email}
  BY DEF CreateUser
<1>2. /\ Sound(w) /\ w.email \in Emails /\ pc[r] \in {"named", "checked"}
      /\ w.verified => op[r] # "register"
  BY <1>0 DEF Established, CreateUser, AboutToInsert
<1>3. Grows /\ vouched' \subseteq Emails
  BY <1>0, <1>1, <1>2 DEF Grows, ExistsByEmail
<1>4. Moves(r) /\ Established(r)'
  <2>1. CASE op[r] = "register" /\ Goto(r, "mailing") /\ UNCHANGED <<op, form, suffix>>
    <3>1. Moves(r) /\ pc'[r] = "mailing" /\ form'[r] = w
      BY <1>0, <2>1 DEF HandlersOK, Moves, Goto
    <3>2. ExistsByEmail(w.email)'
      BY <1>1 DEF ExistsByEmail
    <3> QED BY <1>2, <3>1, <3>2 DEF Established
  <2>2. CASE Finish(r)
    BY <1>0, <2>2, FinishMoves
  <2> QED BY <2>1, <2>2 DEF CreateUser
<1>5. TypeOK'
  BY <1>1, <1>2, <1>3, <1>4 DEF Inv, TypeOK, Moves, HandlersOK, Sound
<1>6. OneAccountPerIdentity'
  BY <1>1 DEF Inv, OneAccountPerIdentity, Unique, ExistsByUsername, ExistsByEmail
<1>7. VerifiedIsVouched'
  BY <1>1, <1>2 DEF Inv, VerifiedIsVouched
<1>8. NoDanglingLink'
  BY <1>1 DEF Inv, NoDanglingLink, ExistsByEmail
<1> QED BY <1>3, <1>4, <1>5, <1>6, <1>7, <1>8, OthersKeep DEF Inv

(* Links: a mail is due only for an account that is there. *)
LEMMA SendKeeps ==
  ASSUME Inv, NEW r \in Requests, SendMail(r)
  PROVE  Inv'
<1>0. HandlersOK /\ Established(r)
  BY DEF Inv, TypeOK, HandlersOK, AllEstablished
<1> PICK l : l = Link(MailKind(r), form[r].email, 0)
  OBVIOUS
<1>1. links' = links \cup {l} /\ UNCHANGED <<users, vouched>> /\ Finish(r)
  BY DEF SendMail
<1>2. Moves(r) /\ Established(r)'
  BY <1>0, <1>1, FinishMoves
<1>3. form[r].email \in Emails /\ ExistsByEmail(form[r].email)
  BY <1>0 DEF Established, SendMail, MailIsDue
<1>4. /\ l \in [kind : Kinds, email : Emails, age : Nat] /\ l.age <= MaxAge(l.kind)
      /\ l.email = form[r].email
  BY <1>3, AccountsAssumption DEF Link, MailKind, Kinds, MaxAge, AccountsAssumption
<1>5. Grows
  BY <1>1 DEF Grows, ExistsByEmail
<1>6. TypeOK'
  BY <1>1, <1>2, <1>4 DEF Inv, TypeOK, Moves, HandlersOK, MaxAge
<1>7. OneAccountPerIdentity' /\ VerifiedIsVouched'
  BY <1>1 DEF Inv, OneAccountPerIdentity, VerifiedIsVouched
<1>8. NoDanglingLink'
  BY <1>1, <1>3, <1>4 DEF Inv, NoDanglingLink, ExistsByEmail
<1> QED BY <1>2, <1>5, <1>6, <1>7, <1>8, OthersKeep DEF Inv

(* Who follows a verification link in its life is vouched for from then on. *)
LEMMA FollowKeeps ==
  ASSUME Inv, NEW r \in Requests, RequestReset(r) \/ \E l \in links : FollowLink(r, l)
  PROVE  Inv'
<1>0. HandlersOK /\ vouched \subseteq Emails /\ Established(r)
  BY DEF Inv, TypeOK, HandlersOK, AllEstablished
<1>1. ASSUME NEW u \in users, Begin(r, "reset", u, "mailing"), UNCHANGED <<table, suffix, vouched>>
      PROVE  Inv'
  <2>1. u \in Rows /\ u.email \in Emails
    BY DEF Inv, TypeOK, Rows
  <2>2. Moves(r) /\ pc'[r] = "mailing" /\ form'[r] = u
    BY <1>0, <1>1, <2>1, BeginMoves
  <2>3. ExistsByEmail(u.email)'
    BY <1>1 DEF ExistsByEmail, table
  <2>4. Established(r)'
    BY <2>1, <2>2, <2>3 DEF Established
  <2> QED BY <1>0, <1>1, <2>2, <2>4, LocalKeeps
<1>2. ASSUME NEW l \in links, NEW u \in users, FollowLink(r, l), u.email = l.email,
             Begin(r, l.kind, u, l.kind)
      PROVE  Inv'
  <2>1. u \in Rows /\ u.email \in Emails /\ l.kind \in {"verify", "reset"}
    BY DEF Inv, TypeOK, Rows, Kinds
  <2>2. UNCHANGED table /\ UNCHANGED suffix /\ vouched' \in {vouched, vouched \cup {u.email}}
    BY <1>2 DEF FollowLink
  <2>3. Moves(r) /\ pc'[r] = l.kind /\ form'[r] = u
    BY <1>0, <1>2, <2>1, <2>2, BeginMoves
  <2>4. l.kind = "verify" => u.email \in vouched'
    BY <1>2 DEF FollowLink, Fresh
  <2>5. Established(r)'
    BY <2>1, <2>3, <2>4 DEF Established
  <2> QED BY <1>0, <2>1, <2>2, <2>3, <2>5, LocalKeeps
<1> QED BY <1>1, <1>2 DEF RequestReset, FollowLink

(* What an UPDATE of is_verified or of the password does to the table. *)
Updates(r) ==
  \E f \in [users -> Rows] :
    /\ users' = {f[u] : u \in users}
    /\ \A u \in users :
         /\ f[u].name = u.name /\ f[u].email = u.email
         /\ f[u].password = None => u.password = None
         /\ u.verified => f[u].verified
         /\ f[u].verified => u.verified \/ (pc[r] = "verify" /\ u.email = form[r].email)
         /\ f[u].password # u.password => pc[r] = "reset" /\ Loaded(r, u)

LEMMA UpdateSteps ==
  ASSUME Inv, NEW r \in Requests, SetVerified(r) \/ \E p \in NewPasswords : SetPassword(r, p)
  PROVE  Updates(r)
<1>0. \A u \in users : u \in Rows
  BY DEF Inv, TypeOK
<1>1. CASE SetVerified(r)
  <2> DEFINE f == [u \in users |-> IF Loaded(r, u) THEN VerifiedRow(r, u) ELSE u]
  <2>1. pc[r] = "verify" /\ users' = {f[u] : u \in users}
    BY <1>1 DEF SetVerified
  <2>2. f \in [users -> Rows]
    BY <1>0 DEF VerifiedRow, Rows
  <2>3. \A u \in users :
          /\ f[u].name = u.name /\ f[u].email = u.email /\ f[u].password = u.password
          /\ u.verified => f[u].verified
          /\ f[u].verified => u.verified \/ u.email = form[r].email
    BY <1>0 DEF VerifiedRow, Loaded, Rows
  <2> HIDE DEF f
  <2> QED BY <2>1, <2>2, <2>3 DEF Updates
<1>2. ASSUME NEW p \in NewPasswords, SetPassword(r, p) PROVE Updates(r)
  <2> DEFINE f == [u \in users |-> IF Loaded(r, u) THEN ResetRow(r, u, p) ELSE u]
  <2>1. pc[r] = "reset" /\ users' = {f[u] : u \in users}
    BY <1>2 DEF SetPassword
  <2>2. f \in [users -> Rows]
    BY <1>0, NoneIsNothing DEF ResetRow, Rows
  <2>3. \A u \in users :
          /\ f[u].name = u.name /\ f[u].email = u.email /\ f[u].verified = u.verified
          /\ f[u].password = None => u.password = None
          /\ f[u].password # u.password => Loaded(r, u)
    BY <1>0, NoneIsNothing DEF ResetRow, Rows
  <2> HIDE DEF f
  <2> QED BY <2>1, <2>2, <2>3 DEF Updates
<1> QED BY <1>1, <1>2

LEMMA UpdateKeeps ==
  ASSUME Inv, NEW r \in Requests, SetVerified(r) \/ \E p \in NewPasswords : SetPassword(r, p)
  PROVE  Inv'
<1>0. HandlersOK /\ Established(r)
  BY DEF Inv, TypeOK, HandlersOK, AllEstablished
<1>1. UNCHANGED <<links, vouched>> /\ Finish(r)
  BY DEF SetVerified, SetPassword
<1> PICK f \in [users -> Rows] :
      /\ users' = {f[u] : u \in users}
      /\ \A u \in users :
           /\ f[u].name = u.name /\ f[u].email = u.email
           /\ f[u].password = None => u.password = None
           /\ u.verified => f[u].verified
           /\ f[u].verified => u.verified \/ (pc[r] = "verify" /\ u.email = form[r].email)
  BY UpdateSteps DEF Updates
<1>2. Moves(r) /\ Established(r)'
  BY <1>0, <1>1, FinishMoves
<1>3. Grows
  BY <1>1 DEF Grows, ExistsByEmail
<1>4. TypeOK'
  <2>1. \A w \in users' : Sound(w)
    BY DEF Inv, TypeOK, Sound
  <2> QED BY <1>1, <1>2, <2>1 DEF Inv, TypeOK, Moves, HandlersOK, Sound
<1>5. OneAccountPerIdentity'
  BY DEF Inv, OneAccountPerIdentity
<1>6. VerifiedIsVouched'
  BY <1>0, <1>1 DEF Inv, VerifiedIsVouched, Established
<1>7. NoDanglingLink'
  BY <1>1 DEF Inv, NoDanglingLink, ExistsByEmail
<1> QED BY <1>2, <1>3, <1>4, <1>5, <1>6, <1>7, OthersKeep DEF Inv

LEMMA TickKeeps ==
  ASSUME Inv, Tick
  PROVE  Inv'
<1>1. links' = {Older(l) : l \in links} /\ UNCHANGED <<users, pc, op, form, suffix, vouched>>
  BY DEF Tick, request
<1>2. \A l \in links :
        /\ Older(l) \in [kind : Kinds, email : Emails, age : Nat]
        /\ Older(l).age <= MaxAge(Older(l).kind) /\ Older(l).email = l.email
  <2> SUFFICES ASSUME NEW l \in [kind : Kinds, email : Emails, age : Nat], l.age <= MaxAge(l.kind)
               PROVE  /\ Older(l) \in [kind : Kinds, email : Emails, age : Nat]
                      /\ Older(l).age <= MaxAge(Older(l).kind) /\ Older(l).email = l.email
    BY DEF Inv, TypeOK
  <2>1. MaxAge(l.kind) \in Nat
    BY AccountsAssumption DEF MaxAge, AccountsAssumption
  <2>2. CASE l.age < MaxAge(l.kind)
    <3>1. Older(l) = [l EXCEPT !.age = l.age + 1]
      BY <2>2 DEF Older
    <3> QED BY <2>1, <2>2, <3>1
  <2>3. CASE ~(l.age < MaxAge(l.kind))
    <3>1. Older(l) = l
      BY <2>3 DEF Older
    <3> QED BY <3>1
  <2> QED BY <2>2, <2>3
<1>3. TypeOK'
  BY <1>1, <1>2 DEF Inv, TypeOK, MaxAge
<1>4. AllEstablished'
  BY <1>1 DEF Inv, AllEstablished, Established, ExistsByEmail, Sound
<1>5. OneAccountPerIdentity' /\ VerifiedIsVouched'
  BY <1>1 DEF Inv, OneAccountPerIdentity, VerifiedIsVouched
<1>6. NoDanglingLink'
  BY <1>1, <1>2 DEF Inv, NoDanglingLink, ExistsByEmail
<1> QED BY <1>3, <1>4, <1>5, <1>6 DEF Inv
-----------------------------------------------------------------------------
LEMMA InvNext == Inv /\ [Next]_vars => Inv'
<1> SUFFICES ASSUME Inv, [Next]_vars PROVE Inv'
  OBVIOUS
<1>1. ASSUME NEW r \in Requests, Receive(r) PROVE Inv'
  BY <1>1, CheckKeeps, OAuthKeeps, FollowKeeps DEF Receive
<1>2. ASSUME NEW r \in Requests, Proceed(r) \/ GiveUp(r) PROVE Inv'
  <2>1. CASE CreateRefused(r) \/ MailLost(r) \/ GiveUp(r)
    <3>1. HandlersOK /\ vouched \subseteq Emails
      BY DEF Inv, TypeOK, HandlersOK
    <3>2. Finish(r) /\ UNCHANGED <<table, vouched>>
      BY <2>1 DEF CreateRefused, MailLost, GiveUp
    <3> QED BY <3>1, <3>2, FinishMoves, LocalKeeps
  <2>2. CASE CheckEmail(r) \/ TryName(r) \/ CreateUser(r) \/ SendMail(r)
    BY <2>2, CheckKeeps, OAuthKeeps, CreateKeeps, SendKeeps
  <2>3. CASE SetVerified(r) \/ \E p \in NewPasswords : SetPassword(r, p)
    BY <2>3, UpdateKeeps
  <2> QED BY <1>2, <2>1, <2>2, <2>3 DEF Proceed
<1>3. CASE UNCHANGED vars
  <2>1. UNCHANGED <<users, links, pc, op, form, suffix, vouched>>
    BY <1>3 DEF vars, table, request
  <2>2. TypeOK'
    BY <2>1 DEF Inv, TypeOK
  <2>3. AllEstablished'
    BY <2>1 DEF Inv, AllEstablished, Established, ExistsByEmail, Sound
  <2>4. OneAccountPerIdentity' /\ VerifiedIsVouched' /\ NoDanglingLink'
    BY <2>1 DEF Inv, OneAccountPerIdentity, VerifiedIsVouched, NoDanglingLink, ExistsByEmail
  <2> QED BY <2>2, <2>3, <2>4 DEF Inv
<1> QED BY <1>1, <1>2, <1>3, TickKeeps DEF Next

LEMMA InvAlways == Spec => []Inv
BY InvInit, InvNext, PTL DEF Spec

(* Table, mailboxes and handlers keep their shapes, and an account without a password is a
   verified one: no step of register, reset_password or handle_callback makes another. *)
THEOREM TypeCorrect == Spec => []TypeOK
<1>1. Inv => TypeOK
  BY DEF Inv
<1> QED BY <1>1, InvAlways, PTL

(* However many requests found a name or an address free, one account has it: the unique
   columns decide, and no UPDATE changes a name or an address. *)
THEOREM OneAccount == Spec => []OneAccountPerIdentity
<1>1. Inv => OneAccountPerIdentity
  BY DEF Inv
<1> QED BY <1>1, InvAlways, PTL

(* Nobody is verified whose address no administrator, no Google login and no fresh link
   vouched for, however creation, mails and requests interleave (verify_mail, seed). *)
THEOREM VerificationIsEarned == Spec => []VerifiedIsVouched
<1>1. Inv => VerifiedIsVouched
  BY DEF Inv
<1> QED BY <1>1, InvAlways, PTL

(* A link in a mailbox is always for an account that is there (register, reset_password). *)
THEOREM LinksHaveAccounts == Spec => []NoDanglingLink
<1>1. Inv => NoDanglingLink
  BY DEF Inv
<1> QED BY <1>1, InvAlways, PTL
-----------------------------------------------------------------------------
(* What NothingUndone says of one step. *)
StepUndoesNothing ==
  \A u \in users : \E w \in users' :
    /\ w.name = u.name /\ w.email = u.email /\ (u.verified => w.verified)
    /\ w.password # u.password =>
         \E r \in Requests : pc[r] = "reset" /\ Loaded(r, u) /\ pc'[r] = "idle"

LEMMA StepKeepsAccounts == Inv /\ [Next]_vars => StepUndoesNothing
<1> SUFFICES ASSUME Inv, [Next]_vars PROVE StepUndoesNothing
  OBVIOUS
<1>1. CASE users \subseteq users'
  BY <1>1 DEF StepUndoesNothing
<1>2. ASSUME NEW r \in Requests,
             SetVerified(r) \/ \E p \in NewPasswords : SetPassword(r, p)
      PROVE  StepUndoesNothing
  <2> PICK f \in [users -> Rows] :
        /\ users' = {f[u] : u \in users}
        /\ \A u \in users :
             /\ f[u].name = u.name /\ f[u].email = u.email
             /\ u.verified => f[u].verified
             /\ f[u].password # u.password => pc[r] = "reset" /\ Loaded(r, u)
    BY <1>2, UpdateSteps DEF Updates
  <2>1. pc'[r] = "idle"
    BY <1>2 DEF Inv, TypeOK, SetVerified, SetPassword, Finish, Goto
  <2> SUFFICES ASSUME NEW u \in users
               PROVE  \E w \in users' :
                        /\ w.name = u.name /\ w.email = u.email /\ (u.verified => w.verified)
                        /\ w.password # u.password =>
                             \E q \in Requests : pc[q] = "reset" /\ Loaded(q, u) /\ pc'[q] = "idle"
    BY DEF StepUndoesNothing
  <2>2. f[u] \in users'
    OBVIOUS
  <2> QED BY <2>1, <2>2
<1>3. ASSUME NEW r \in Requests, Receive(r) PROVE users' = users
  BY <1>3 DEF Receive, CheckUsername, OAuthCallback, RequestReset, FollowLink, table
<1>4. ASSUME NEW r \in Requests,
             \/ CheckEmail(r) \/ TryName(r) \/ CreateUser(r) \/ CreateRefused(r)
             \/ SendMail(r) \/ MailLost(r) \/ GiveUp(r)
      PROVE  users \subseteq users'
  BY <1>4 DEF CheckEmail, TryName, CreateUser, CreateRefused, SendMail, MailLost, GiveUp, table
<1>5. CASE Tick \/ UNCHANGED vars
  BY <1>1, <1>5 DEF Tick, vars, table
<1> QED BY <1>1, <1>2, <1>3, <1>4, <1>5 DEF Next, Proceed

(* Registration, verification and reset never take back what was committed for an
   account; a password changes only when a followed reset link is used (set_password). *)
THEOREM CommittedStays == Spec => NothingUndone
<1>1. Inv /\ [Next]_vars => [StepUndoesNothing]_vars
  BY StepKeepsAccounts
<1>2. Spec => [][StepUndoesNothing]_vars
  BY <1>1, InvAlways, PTL DEF Spec
<1> QED BY <1>2 DEF NothingUndone, StepUndoesNothing
=============================================================================
