------------------------------ MODULE Accounts ------------------------------
(***************************************************************************)
(* The life of an account: registration, creation by an administrator or   *)
(* by the seed script, the Google callback's find-or-create, and the two   *)
(* kinds of e-mail link with what following them does                      *)
(* (app/services/auth/actions, app/services/verify,                        *)
(* repositories/auth/user.py, cli/seed.py).                                *)
(*                                                                         *)
(* Checks and writes of one request are separate steps; the unique columns *)
(* of the table decide races.  A link is a signed timestamp and an e-mail  *)
(* address: nothing is stored, so it can be followed as often as it is     *)
(* fresh.  Mails are sent after the commit and may be lost.                *)
(***************************************************************************)
EXTENDS Naturals, FiniteSets

CONSTANTS
  Emails, Usernames,
  ChosenNames,  \* the usernames people ask for
  FirstPasswords, NewPasswords,  \* chosen at creation, chosen at a reset
  None,         \* no name, no address, no password
  Suffixes,     \* bound: how far _build_unique_username counts, 1 is the bare name
  Candidates,   \* the names it tries, by e-mail address and suffix
  Requests,     \* handlers that can run at the same time
  LinkLife,     \* max_age of each kind of link, in ticks
  MaxLinks      \* bound: links in all mailboxes

Kinds == {"verify", "reset"}

ASSUME AccountsAssumption ==
  /\ ChosenNames \subseteq Usernames
  /\ None \notin Usernames \cup Emails \cup FirstPasswords \cup NewPasswords
  /\ Suffixes \in Nat \ {0} /\ MaxLinks \in Nat
  /\ Candidates \in [Emails -> [1..Suffixes -> Usernames]]
  /\ LinkLife \in [Kinds -> Nat]

Passwords == FirstPasswords \cup NewPasswords

VARIABLES
  users,      \* the users table
  links,      \* links in mailboxes: kind, address and age of the signature
  pc,         \* where each request is
  op,         \* what it does
  form,       \* what it carries: the row it will insert, or the row it loaded
  suffix,     \* _build_unique_username's counter
  vouched     \* history: addresses vouched for by an admin, Google or a fresh link

table == <<users, links>>
request == <<pc, op, form, suffix>>
vars == <<table, request, vouched>>

Row(n, e, p, v) == [name |-> n, email |-> e, password |-> p, verified |-> v]
Rows == [name : Usernames \cup {None}, email : Emails \cup {None},
         password : Passwords \cup {None}, verified : BOOLEAN]
Blank == Row(None, None, None, FALSE)
Link(k, e, a) == [kind |-> k, email |-> e, age |-> a]

(* A link one tick past its life is as old as it gets. *)
MaxAge(k) == LinkLife[k] + 1

Init ==
  /\ users = {} /\ links = {}
  /\ pc = [r \in Requests |-> "idle"]
  /\ op = [r \in Requests |-> "none"]
  /\ form = [r \in Requests |-> Blank]
  /\ suffix = [r \in Requests |-> 1]
  /\ vouched = {}
-----------------------------------------------------------------------------
ExistsByUsername(n) == \E u \in users : u.name = n
ExistsByEmail(e) == \E u \in users : u.email = e

Goto(r, label) == pc' = [pc EXCEPT ![r] = label]
Load(r, row) == form' = [form EXCEPT ![r] = row]
Finish(r) ==
  /\ Goto(r, "idle") /\ Load(r, Blank)
  /\ op' = [op EXCEPT ![r] = "none"]
  /\ suffix' = [suffix EXCEPT ![r] = 1]

Begin(r, o, row, label) ==
  /\ pc[r] = "idle"
  /\ op' = [op EXCEPT ![r] = o]
  /\ Load(r, row)
  /\ Goto(r, label)

(* RegisterUser.register, UserManagementService.create_user, create_tenant_with_admin
   and seed: the name is free.  Only the first creates an unverified account. *)
CheckUsername(r, o, n, e, p) ==
  /\ ~ExistsByUsername(n)
  /\ Begin(r, o, Row(n, e, p, o # "register"), "named")
  /\ UNCHANGED <<table, suffix, vouched>>

(* The second SELECT of those that test the address too: taken, or free. *)
CheckEmail(r) ==
  /\ pc[r] = "named" /\ op[r] # "seed"
  /\ \/ ExistsByEmail(form[r].email) /\ Finish(r)
     \/ ~ExistsByEmail(form[r].email) /\ Goto(r, "checked") /\ UNCHANGED <<op, form, suffix>>
  /\ UNCHANGED <<table, vouched>>

(* Wrong variant: the callback leaves is_verified to its default. *)
OAuthRowUnverified(e) == Row(None, e, None, FALSE)

OAuthRow(e) == Row(None, e, None, TRUE)

(* GoogleOAuthService.handle_callback, no account with this address.  (One that exists
   is only logged in.) *)
OAuthCallback(r, e) ==
  /\ ~ExistsByEmail(e)
  /\ Begin(r, "oauth", OAuthRow(e), "naming")
  /\ UNCHANGED <<table, suffix, vouched>>

(* Wrong variant: the same candidate again. *)
NextSuffixStuck(i) == i

NextSuffix(i) == i + 1

(* One turn of _build_unique_username's loop. *)
TryName(r) ==
  LET name == Candidates[form[r].email][suffix[r]]
  IN /\ pc[r] = "naming"
     /\ \/ /\ ExistsByUsername(name)
           /\ NextSuffix(suffix[r]) <= Suffixes
           /\ suffix' = [suffix EXCEPT ![r] = NextSuffix(@)]
           /\ UNCHANGED <<pc, form>>
        \/ /\ ~ExistsByUsername(name)
           /\ Load(r, [form[r] EXCEPT !.name = name])
           /\ Goto(r, "checked")
           /\ UNCHANGED suffix
     /\ UNCHANGED <<table, op, vouched>>

(* Wrong variant: the table has no unique columns, the checks alone protect it. *)
UniqueUnenforced(row) == TRUE

(* users.username and users.email are unique. *)
Unique(row) == ~ExistsByUsername(row.name) /\ ~ExistsByEmail(row.email)

AboutToInsert(r) == pc[r] = "checked" \/ (pc[r] = "named" /\ op[r] = "seed")

(* UserRepository.create; register then adds its background task. *)
CreateUser(r) ==
  /\ AboutToInsert(r) /\ Unique(form[r])
  /\ users' = users \cup {form[r]}
  /\ vouched' = IF op[r] = "register" THEN vouched ELSE vouched \cup {form[r].email}
  /\ \/ op[r] = "register" /\ Goto(r, "mailing") /\ UNCHANGED <<op, form, suffix>>
     \/ op[r] # "register" /\ Finish(r)
  /\ UNCHANGED links

(* IntegrityError: a 500. *)
CreateRefused(r) ==
  /\ AboutToInsert(r) /\ ~Unique(form[r])
  /\ Finish(r)
  /\ UNCHANGED <<table, vouched>>

(* ResetPassword.reset_password: the account exists, whatever its state. *)
RequestReset(r) ==
  \E u \in users :
    /\ Begin(r, "reset", u, "mailing")
    /\ UNCHANGED <<table, suffix, vouched>>

MailKind(r) == IF op[r] = "register" THEN "verify" ELSE "reset"

(* Wrong variant: the mail is queued before the row is committed. *)
MailIsDueEarly(r) == pc[r] = "mailing" \/ (pc[r] = "checked" /\ op[r] = "register")

(* The background task runs after the response. *)
MailIsDue(r) == pc[r] = "mailing"

(* It signs a link and hands it to the mail queue or to SMTP. *)
SendMail(r) ==
  /\ MailIsDue(r) /\ Cardinality(links) < MaxLinks
  /\ links' = links \cup {Link(MailKind(r), form[r].email, 0)}
  /\ Finish(r)
  /\ UNCHANGED <<users, vouched>>

(* Wrong variant: both serializers accept any age. *)
FreshAlways(l) == TRUE

(* serializer.loads(token, max_age): older than max_age is refused. *)
Fresh(l) == l.age <= LinkLife[l.kind]

(* VerifyMail.verify_mail and PasswordReset.verify_password up to the loaded user. *)
FollowLink(r, l) ==
  /\ Fresh(l)
  /\ \E u \in users : u.email = l.email /\ Begin(r, l.kind, u, l.kind)
  /\ vouched' = IF l.kind = "verify" /\ l.age <= LinkLife["verify"]
                THEN vouched \cup {l.email} ELSE vouched
  /\ UNCHANGED <<table, suffix>>

Loaded(r, u) == u.email = form[r].email

(* Wrong variant: the whole loaded row is written back. *)
VerifiedRowWhole(r, u) == [form[r] EXCEPT !.verified = TRUE]

(* The UPDATE names the changed column only. *)
VerifiedRow(r, u) == [u EXCEPT !.verified = TRUE]

(* UserRepository.set_verified *)
SetVerified(r) ==
  /\ pc[r] = "verify"
  /\ users' = {IF Loaded(r, u) THEN VerifiedRow(r, u) ELSE u : u \in users}
  /\ Finish(r)
  /\ UNCHANGED <<links, vouched>>

(* Wrong variant: the whole loaded row is written back. *)
ResetRowWhole(r, u, p) == [form[r] EXCEPT !.password = p]

ResetRow(r, u, p) == [u EXCEPT !.password = p]

(* UserRepository.set_password *)
SetPassword(r, p) ==
  /\ pc[r] = "reset"
  /\ users' = {IF Loaded(r, u) THEN ResetRow(r, u, p) ELSE u : u \in users}
  /\ Finish(r)
  /\ UNCHANGED <<links, vouched>>

(* The mail queue or SMTP fails: logged, never retried. *)
MailLost(r) == pc[r] = "mailing" /\ Finish(r) /\ UNCHANGED <<table, vouched>>

(* An error, passwords that differ, a process that dies. *)
GiveUp(r) ==
  /\ pc[r] # "idle"
  /\ Finish(r)
  /\ UNCHANGED <<table, vouched>>

Older(l) == [l EXCEPT !.age = IF @ < MaxAge(l.kind) THEN @ + 1 ELSE @]

Tick ==
  /\ \E l \in links : l.age < MaxAge(l.kind)
  /\ links' = {Older(l) : l \in links}
  /\ UNCHANGED <<users, request, vouched>>
-----------------------------------------------------------------------------
Receive(r) ==
  \/ \E o \in {"register", "create", "seed"}, n \in ChosenNames, e \in Emails, p \in FirstPasswords :
       CheckUsername(r, o, n, e, p)
  \/ \E e \in Emails : OAuthCallback(r, e)
  \/ RequestReset(r)
  \/ \E l \in links : FollowLink(r, l)

Proceed(r) ==
  \/ CheckEmail(r) \/ TryName(r) \/ CreateUser(r) \/ CreateRefused(r)
  \/ SendMail(r) \/ MailLost(r)
  \/ SetVerified(r) \/ \E p \in NewPasswords : SetPassword(r, p)

Next ==
  \/ \E r \in Requests : Receive(r) \/ Proceed(r) \/ GiveUp(r)
  \/ Tick

Spec == Init /\ [][Next]_vars

(* The event loop goes on with every handler; none has to fail. *)
FairSpec == Spec /\ \A r \in Requests : WF_vars(Proceed(r))
-----------------------------------------------------------------------------
(* Table, mailboxes and handlers keep their shapes; an account without a password, which
   only Google can log in, needs no verification mail: it was never sent one. *)
TypeOK ==
  /\ users \subseteq Rows
  /\ \A u \in users : u.name # None /\ u.email # None /\ (u.password = None => u.verified)
  /\ links \subseteq [kind : Kinds, email : Emails, age : Nat]
  /\ \A l \in links : l.age <= MaxAge(l.kind)
  /\ pc \in [Requests -> {"idle", "named", "checked", "naming", "mailing", "verify", "reset"}]
  /\ op \in [Requests -> {"none", "register", "create", "seed", "oauth", "verify", "reset"}]
  /\ form \in [Requests -> Rows] /\ suffix \in [Requests -> 1..Suffixes]
  /\ vouched \subseteq Emails

(* Two requests that both found a name or an address free end with one account for it
   (register, create_user, handle_callback and seed all test before they insert). *)
OneAccountPerIdentity ==
  \A u, w \in users : u.name = w.name \/ u.email = w.email => u = w

(* An account is verified, which is what lets its password log in, only if an admin or
   Google vouched for its address or somebody who could read its mail followed a link of
   less than a day (verify_mail), however creation, mails and requests interleave. *)
VerifiedIsVouched == \A u \in users : u.verified => u.email \in vouched

(* Every link in a mailbox is for an account that is there: no mail leaves for a
   registration that loses the race to insert (register, reset_password). *)
NoDanglingLink == \A l \in links : ExistsByEmail(l.email)

(* What is committed for an account is not undone by a request that loaded it earlier:
   its name and address stay, a verification sticks, and only a followed reset link
   changes the password (set_verified, set_password). *)
NothingUndone ==
  [][\A u \in users : \E w \in users' :
       /\ w.name = u.name /\ w.email = u.email /\ (u.verified => w.verified)
       /\ w.password # u.password =>
            \E r \in Requests : pc[r] = "reset" /\ Loaded(r, u) /\ pc'[r] = "idle"]_vars

(* Every request ends; _build_unique_username's loop runs out of taken names. *)
EveryRequestEnds == \A r \in Requests : pc[r] # "idle" ~> pc[r] = "idle"
=============================================================================
