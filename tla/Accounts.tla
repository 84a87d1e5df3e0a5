------------------------------ MODULE Accounts ------------------------------
(***************************************************************************)
(* Accounts and sessions (auth/, users/): registration, passwords and      *)
(* their reset, the families of refresh tokens, Google accounts, and the   *)
(* administrators' changes of roles, as several workers serve them with    *)
(* Postgres at READ COMMITTED.  No row is locked when it is read.          *)
(*                                                                         *)
(* A request that only inserts rows, or only sets a flag that is never     *)
(* cleared, is one action: what another request commits between its reads  *)
(* and its commit is caught by a unique constraint or makes no difference. *)
(* Every other request loads its rows in one action and commits in         *)
(* another.  A password is its number in the order they are set, 0 for     *)
(* NULL; an address is compared after lower(); a family is named by its    *)
(* first token.  A token that has expired is one that is not used any      *)
(* more.                                                                   *)
(*                                                                         *)
(* passwords, forked, lapsed, overlapped and the fields password and raced *)
(* of a token are history: no handler reads them.                          *)
(*                                                                         *)
(* Definitions marked FAULT are not part of the model: each is a plausible *)
(* mistake in the definition after it, used to see the properties fail.    *)
(***************************************************************************)
EXTENDS Naturals

CONSTANTS
  Workers,        \* requests served at the same time
  Users,          \* rows that users can ever have
  Emails,         \* addresses
  TokenIds,       \* rows that refresh_tokens can ever have
  ResetIds,       \* rows that password_reset_tokens can ever have
  StateIds,       \* states of Google logins
  Identities,     \* what Google answers: [subject, email, email_verified]
  InitialUsers,   \* the users to begin with
  Changes,        \* the roles and activations administrators ask for
  MaxRequests,    \* requests in one behaviour (a bound)
  None            \* SQL's NULL; no row

Roles == {"customer", "support", "admin", "super_admin"}
Subjects == {i.subject : i \in Identities}

\* ROLE_PERMISSIONS: the roles that have user.manage.
user_manage == {"admin", "super_admin"}

UserRows ==
  [email : Emails, hashed_password : Nat, role : Roles, is_active : BOOLEAN,
   is_verified : BOOLEAN]

ASSUME AccountNames ==
  /\ None \notin Users \cup TokenIds \cup Emails \cup ResetIds \cup StateIds
  /\ None \notin UserRows
ASSUME IdentitiesAssumption ==
  \A i \in Identities : i.email \in Emails /\ i.email_verified \in BOOLEAN
ASSUME InitialAccounts ==
  /\ InitialUsers \in [Users -> UserRows \cup {None}]
  /\ \A u, v \in Users : InitialUsers[u] # None /\ InitialUsers[v] # None /\ u # v =>
       InitialUsers[u].email # InitialUsers[v].email
  /\ \A u \in Users : InitialUsers[u] # None => InitialUsers[u].hashed_password \in {0, 1}
  /\ \E u \in Users :
       InitialUsers[u] # None /\ InitialUsers[u].is_active /\ InitialUsers[u].role \in user_manage
ASSUME ChangesAssumption == Changes \subseteq [role : Roles, is_active : BOOLEAN]
ASSUME AccountBounds == MaxRequests \in Nat

VARIABLES
  users,                \* committed rows
  refresh_tokens,       \* committed rows
  password_resets,      \* committed rows
  email_verifications,  \* the one token a registration sends
  oauth_accounts,       \* the user of each Google subject
  oauth_states,         \* Redis: oauth:google:{state}
  audit,                \* the newest rows of audit_logs about each user
  sess,                 \* what the workers' sessions have loaded
  passwords,            \* passwords set so far
  forked,               \* families one of whose tokens was rotated twice
  lapsed,               \* an update by one who had lost user.manage by then, or
                        \* by which one deactivated himself
  overlapped,           \* users with an update committed during another one
  requests              \* requests begun

tables == <<users, refresh_tokens, password_resets, email_verifications,
            oauth_accounts, oauth_states, audit>>
history == <<passwords, forked, lapsed, overlapped>>
vars == <<tables, sess, history, requests>>

-----------------------------------------------------------------------------
(* Types.                                                                  *)

\* password: the password its login was made with, or before;
\* raced: issued while that was being changed.
Tokens ==
  [user_id : Users, family_id : TokenIds, revoked_at : BOOLEAN,
   replaced_by_id : TokenIds \cup {None}, password : Nat, raced : BOOLEAN]

Resets == [user_id : Users, used_at : BOOLEAN]
States == [action : {"none", "login", "link", "deleted"}, user_id : Users \cup {None}]

ASSUME AccountRows == None \notin Tokens /\ None \notin Resets

Settings == [role : Roles, is_active : BOOLEAN]
NoSettings == [role |-> "customer", is_active |-> TRUE]

\* What the newest row about a change of role, and about an activation or
\* deactivation, says the field has become, and when its transaction started:
\* created_at is now().
AuditRows == [role : Roles, role_at : Nat, is_active : BOOLEAN, is_active_at : Nat]
NoRows(settings) ==
  [role |-> settings.role, role_at |-> 0, is_active |-> settings.is_active, is_active_at |-> 0]

\* op: what the request will commit; user, token, reset, state, identity,
\* actor: what it is about; password: the user's as loaded; targets: the live
\* tokens it has loaded; loaded, new and started: of an administrator's change.
Sessions ==
  [op : {"idle", "login", "google", "rotate", "revoke", "change", "reset",
         "callback", "exchange", "update"},
   user : Users \cup {None}, token : TokenIds \cup {None}, reset : ResetIds \cup {None},
   state : StateIds \cup {None}, identity : Identities \cup {None},
   actor : Users \cup {None}, password : Nat, targets : SUBSET TokenIds,
   loaded : Settings, new : Settings, started : Nat]

Idle ==
  [op |-> "idle", user |-> None, token |-> None, reset |-> None, state |-> None,
   identity |-> None, actor |-> None, password |-> 0, targets |-> {},
   loaded |-> NoSettings, new |-> NoSettings, started |-> 0]

Setting(row) == [role |-> row.role, is_active |-> row.is_active]

Init ==
  /\ users = InitialUsers
  /\ refresh_tokens = [r \in TokenIds |-> None]
  /\ password_resets = [p \in ResetIds |-> None]
  /\ email_verifications = [u \in Users |-> "none"]
  /\ oauth_accounts = [s \in Subjects |-> None]
  /\ oauth_states = [s \in StateIds |-> [action |-> "none", user_id |-> None]]
  /\ audit = [u \in Users |->
                NoRows(IF InitialUsers[u] = None THEN NoSettings ELSE Setting(InitialUsers[u]))]
  /\ sess = [w \in Workers |-> Idle]
  /\ passwords = 1
  /\ forked = {}
  /\ lapsed = FALSE
  /\ overlapped = {}
  /\ requests = 0

-----------------------------------------------------------------------------
(* Sessions.                                                               *)

Request ==
  /\ requests < MaxRequests
  /\ requests' = requests + 1

Begin(w, s) ==
  /\ Request
  /\ sess[w].op = "idle"
  /\ sess' = [sess EXCEPT ![w] = s]
  /\ UNCHANGED <<tables, history>>

End(w) == sess' = [sess EXCEPT ![w] = Idle]

Exists(u) == users[u] # None

\* get_current_user and authenticate: the account is there and active.
Active(u) == Exists(u) /\ users[u].is_active

\* FAULT: the address is not unique.
AnyEmail(e) == TRUE

\* get_by_email finds nobody, and the unique column has no such value.
EmailFree(e) == \A u \in Users : Exists(u) => users[u].email # e

-----------------------------------------------------------------------------
(* Tokens.                                                                 *)

Issued(r) == refresh_tokens[r] # None
Live(r) == Issued(r) /\ ~refresh_tokens[r].revoked_at

LiveOfFamily(f) == {r \in TokenIds : Live(r) /\ refresh_tokens[r].family_id = f}

\* FAULT: revoke_all_for_user stops at one family.
LiveOfOneFamily(u) ==
  {r \in TokenIds : Live(r) /\ refresh_tokens[r].user_id = u /\ refresh_tokens[r].family_id = r}

LiveOfUser(u) == {r \in TokenIds : Live(r) /\ refresh_tokens[r].user_id = u}

\* The rows with revoked_at set on those in R.
Revoked(R) ==
  [r \in TokenIds |->
     IF r \in R /\ Issued(r) THEN [refresh_tokens[r] EXCEPT !.revoked_at = TRUE]
     ELSE refresh_tokens[r]]

\* The user's password is another one than w has loaded, or a request that
\* will set one has loaded the tokens it will revoke.
PasswordChanging(w, u) ==
  \/ users[u].hashed_password # sess[w].password
  \/ \E v \in Workers : sess[v].op \in {"change", "reset"} /\ sess[v].user = u

\* issue_token_pair: a new family.
FirstToken(r, u, password, changing) ==
  [user_id |-> u, family_id |-> r, revoked_at |-> FALSE, replaced_by_id |-> None,
   password |-> password, raced |-> changing]

\* authenticate: the password is the right one.
Login(w, u) ==
  /\ Active(u)
  /\ users[u].hashed_password # 0
  /\ Begin(w, [Idle EXCEPT !.op = "login", !.user = u,
                           !.password = users[u].hashed_password])

CommitLogin(w, r) ==
  LET u == sess[w].user
  IN  /\ sess[w].op \in {"login", "google"}
      /\ ~Issued(r)
      /\ refresh_tokens' = [refresh_tokens EXCEPT ![r] =
           FirstToken(r, u, sess[w].password, PasswordChanging(w, u))]
      /\ End(w)
      /\ UNCHANGED <<users, password_resets, email_verifications, oauth_accounts,
                     oauth_states, audit, history, requests>>

\* FAULT: revoked_at is not looked at.
UsableIfIssued(r) == Issued(r) /\ Active(refresh_tokens[r].user_id)

Usable(r) == Live(r) /\ Active(refresh_tokens[r].user_id)

\* rotate_refresh_token, up to the user.
Refresh(w, r) ==
  /\ Usable(r)
  /\ Begin(w, [Idle EXCEPT !.op = "rotate", !.token = r, !.user = refresh_tokens[r].user_id,
                           !.password = users[refresh_tokens[r].user_id].hashed_password])

\* FAULT: the token that was used stays valid.
RotatedTwice(w, n) ==
  [refresh_tokens EXCEPT
     ![sess[w].token].replaced_by_id = n,
     ![n] = [refresh_tokens[sess[w].token] EXCEPT !.replaced_by_id = None]]

\* The stored token is revoked and replaced by n, whatever it is by now.
Rotated(w, n) ==
  LET stored == refresh_tokens[sess[w].token]
  IN  [refresh_tokens EXCEPT
         ![sess[w].token] = [stored EXCEPT !.revoked_at = TRUE, !.replaced_by_id = n],
         ![n] = [FirstToken(n, stored.user_id, stored.password,
                            stored.raced \/ PasswordChanging(w, stored.user_id))
                   EXCEPT !.family_id = stored.family_id]]

CommitRotate(w, n) ==
  LET stored == refresh_tokens[sess[w].token]
  IN  /\ sess[w].op = "rotate"
      /\ ~Issued(n)
      /\ refresh_tokens' = Rotated(w, n)
      /\ forked' = IF stored.revoked_at THEN forked \cup {stored.family_id} ELSE forked
      /\ End(w)
      /\ UNCHANGED <<users, password_resets, email_verifications, oauth_accounts,
                     oauth_states, audit, passwords, lapsed, overlapped, requests>>

\* A revoked token is used: revoke_family, with its own commit.
Reuse(w, r) ==
  /\ Issued(r) /\ refresh_tokens[r].revoked_at
  /\ Begin(w, [Idle EXCEPT !.op = "revoke",
                           !.targets = LiveOfFamily(refresh_tokens[r].family_id)])

CommitRevoke(w) ==
  /\ sess[w].op = "revoke"
  /\ refresh_tokens' = Revoked(sess[w].targets)
  /\ End(w)
  /\ UNCHANGED <<users, password_resets, email_verifications, oauth_accounts,
                 oauth_states, audit, history, requests>>

Logout(r) ==
  /\ Request
  /\ Live(r)
  /\ refresh_tokens' = Revoked({r})
  /\ UNCHANGED <<users, password_resets, email_verifications, oauth_accounts,
                 oauth_states, audit, sess, history>>

-----------------------------------------------------------------------------
(* Passwords.                                                              *)

\* change_password: the current password is the right one.
ChangePassword(w, u) ==
  /\ Active(u)
  /\ users[u].hashed_password # 0
  /\ Begin(w, [Idle EXCEPT !.op = "change", !.user = u, !.targets = LiveOfUser(u)])

request_password_reset(u, p) ==
  /\ Request
  /\ Exists(u)
  /\ password_resets[p] = None
  /\ password_resets' = [password_resets EXCEPT ![p] = [user_id |-> u, used_at |-> FALSE]]
  /\ UNCHANGED <<users, refresh_tokens, email_verifications, oauth_accounts, oauth_states,
                 audit, sess, history>>

ConfirmReset(w, p) ==
  /\ password_resets[p] # None
  /\ ~password_resets[p].used_at
  /\ Begin(w, [Idle EXCEPT !.op = "reset", !.user = password_resets[p].user_id, !.reset = p,
                           !.targets = LiveOfUser(password_resets[p].user_id)])

CommitPassword(w) ==
  /\ sess[w].op \in {"change", "reset"}
  /\ users' = [users EXCEPT ![sess[w].user].hashed_password = passwords + 1]
  /\ passwords' = passwords + 1
  /\ refresh_tokens' = Revoked(sess[w].targets)
  /\ password_resets' = IF sess[w].op = "reset"
                        THEN [password_resets EXCEPT ![sess[w].reset].used_at = TRUE]
                        ELSE password_resets
  /\ End(w)
  /\ UNCHANGED <<email_verifications, oauth_accounts, oauth_states, audit, forked, lapsed,
                 overlapped, requests>>

-----------------------------------------------------------------------------
(* Registration and Google.                                                *)

Customer(e, password, verified) ==
  [email |-> e, hashed_password |-> password, role |-> "customer", is_active |-> TRUE,
   is_verified |-> verified]

\* register and the first token pair.
Register(u, e, r) ==
  /\ Request
  /\ ~Exists(u)
  /\ EmailFree(e)
  /\ ~Issued(r)
  /\ users' = [users EXCEPT ![u] = Customer(e, passwords + 1, FALSE)]
  /\ passwords' = passwords + 1
  /\ email_verifications' = [email_verifications EXCEPT ![u] = "sent"]
  /\ refresh_tokens' = [refresh_tokens EXCEPT ![r] = FirstToken(r, u, passwords + 1, FALSE)]
  /\ UNCHANGED <<password_resets, oauth_accounts, oauth_states, audit, sess, forked, lapsed,
                 overlapped>>

confirm_email_verification(u) ==
  /\ Request
  /\ email_verifications[u] = "sent"
  /\ email_verifications' = [email_verifications EXCEPT ![u] = "used"]
  /\ users' = [users EXCEPT ![u].is_verified = TRUE]
  /\ UNCHANGED <<refresh_tokens, password_resets, oauth_accounts, oauth_states, audit, sess,
                 history>>

SetState(s, action, u) ==
  /\ oauth_states' = [oauth_states EXCEPT ![s] = [action |-> action, user_id |-> u]]
  /\ UNCHANGED <<users, refresh_tokens, password_resets, email_verifications,
                 oauth_accounts, audit, history>>

google_login(s) ==
  /\ Request
  /\ oauth_states[s].action = "none"
  /\ SetState(s, "login", None)
  /\ UNCHANGED sess

google_link_start(s, u) ==
  /\ Request
  /\ oauth_states[s].action = "none"
  /\ Active(u)
  /\ SetState(s, "link", u)
  /\ UNCHANGED sess

\* OAUTH_STATE_TTL_SECONDS have passed.
ExpireState(s) ==
  /\ oauth_states[s].action \in {"login", "link"}
  /\ SetState(s, "deleted", None)
  /\ UNCHANGED <<sess, requests>>

\* google_callback: redis.get, then redis.delete.
Callback(w, s) ==
  /\ sess[w].op = "idle"
  /\ oauth_states[s].action \in {"login", "link"}
  /\ sess' = [sess EXCEPT ![w] = [Idle EXCEPT !.op = "callback", !.state = s,
                                              !.user = oauth_states[s].user_id]]
  /\ UNCHANGED <<tables, history, requests>>

DeleteState(w) ==
  /\ sess[w].op = "callback"
  /\ SetState(sess[w].state, "deleted", None)
  /\ sess' = [sess EXCEPT ![w].op = "exchange"]
  /\ UNCHANGED requests

\* A callback whose user is None was started by google_login.
ForLogin(w) == sess[w].op = "exchange" /\ sess[w].user = None

\* FAULT: an account with the address of the Google account is entered.
EntersByEmail(i, u) == Exists(u) /\ users[u].email = i.email

\* get_by_oauth: the Google account is linked to u.
Enters(i, u) ==
  oauth_accounts[i.subject] # None /\ oauth_accounts[i.subject].user_id = u

GoogleLogin(w, i, u) ==
  /\ ForLogin(w)
  /\ Enters(i, u)
  /\ sess' = [sess EXCEPT ![w] = [Idle EXCEPT !.op = "google", !.user = u, !.identity = i,
                                              !.password = users[u].hashed_password]]
  /\ UNCHANGED <<tables, history, requests>>

Linked(i, u) ==
  oauth_accounts' = [oauth_accounts EXCEPT ![i.subject] = [user_id |-> u, email |-> i.email]]

\* Nobody is linked, and nobody has the address: a new account.
GoogleRegister(w, i, u, r) ==
  /\ ForLogin(w)
  /\ oauth_accounts[i.subject] = None
  /\ EmailFree(i.email)
  /\ ~Exists(u) /\ ~Issued(r)
  /\ users' = [users EXCEPT ![u] = Customer(i.email, 0, i.email_verified)]
  /\ Linked(i, u)
  /\ refresh_tokens' = [refresh_tokens EXCEPT ![r] = FirstToken(r, u, 0, FALSE)]
  /\ End(w)
  /\ UNCHANGED <<password_resets, email_verifications, oauth_states, audit, history, requests>>

link_google_account(w, i) ==
  LET u == sess[w].user
  IN  /\ sess[w].op = "exchange" /\ u # None
      /\ i.email = users[u].email
      /\ oauth_accounts[i.subject] = None
      /\ Linked(i, u)
      /\ End(w)
      /\ UNCHANGED <<users, refresh_tokens, password_resets, email_verifications,
                     oauth_states, audit, history, requests>>

-----------------------------------------------------------------------------
(* Roles.                                                                  *)

\* FAULT: an administrator may change any role.
MaySetAny(actor, u, data) == TRUE

\* Nobody changes his own role.
MaySet(actor, u, data) == data.role # users[u].role => u # actor

\* require_permission("user.manage").
Manages(u) == Active(u) /\ users[u].role \in user_manage

\* update_user: its transaction starts when the actor is read.
UpdateUser(w, actor, u, data) ==
  /\ Manages(actor)
  /\ Exists(u)
  /\ MaySet(actor, u, data)
  /\ data # Setting(users[u])
  /\ Begin(w, [Idle EXCEPT !.op = "update", !.actor = actor, !.user = u,
                           !.loaded = Setting(users[u]), !.new = data,
                           !.started = requests + 1])

\* The UPDATE has the fields that are not as loaded.
Updated(w, row) ==
  [row EXCEPT
     !.role = IF sess[w].new.role = sess[w].loaded.role THEN @ ELSE sess[w].new.role,
     !.is_active = IF sess[w].new.is_active = sess[w].loaded.is_active THEN @
                   ELSE sess[w].new.is_active]

\* A row with the value new is written, and is newer than that of time at.
Newest(w, loaded, new, at) == new # loaded /\ sess[w].started > at

\* FAULT: the change of a role is not audited.
AuditedActivation(w) ==
  LET old == audit[sess[w].user]
      new == sess[w].new.is_active
  IN  IF Newest(w, sess[w].loaded.is_active, new, old.is_active_at)
      THEN [old EXCEPT !.is_active = new, !.is_active_at = sess[w].started] ELSE old

\* write_audit_log, for the fields that are not as loaded.
Audited(w) ==
  LET old == audit[sess[w].user]
      new == sess[w].new
      role == Newest(w, sess[w].loaded.role, new.role, old.role_at)
      active == Newest(w, sess[w].loaded.is_active, new.is_active, old.is_active_at)
  IN  [role |-> IF role THEN new.role ELSE old.role,
       role_at |-> IF role THEN sess[w].started ELSE old.role_at,
       is_active |-> IF active THEN new.is_active ELSE old.is_active,
       is_active_at |-> IF active THEN sess[w].started ELSE old.is_active_at]

\* Another update of the same user is under way.
Overlaps(w) ==
  \E v \in Workers \ {w} : sess[v].op = "update" /\ sess[v].user = sess[w].user

CommitUpdate(w) ==
  /\ sess[w].op = "update"
  /\ users' = [users EXCEPT ![sess[w].user] = Updated(w, users[sess[w].user])]
  /\ audit' = [audit EXCEPT ![sess[w].user] = Audited(w)]
  /\ lapsed' = \/ lapsed
               \/ ~Manages(sess[w].actor)
               \/ sess[w].user = sess[w].actor /\ ~sess[w].new.is_active
  /\ overlapped' = IF Overlaps(w) THEN overlapped \cup {sess[w].user} ELSE overlapped
  /\ End(w)
  /\ UNCHANGED <<refresh_tokens, password_resets, email_verifications, oauth_accounts,
                 oauth_states, passwords, forked, requests>>

-----------------------------------------------------------------------------

\* The request ends without a commit: Google answers with an error, the
\* service refuses the identity, a constraint does not hold, or the worker
\* or its connection is lost.
Abort(w) ==
  /\ sess[w].op # "idle"
  /\ End(w)
  /\ UNCHANGED <<tables, history, requests>>

Start(w) ==
  \/ \E u \in Users : Login(w, u) \/ ChangePassword(w, u)
  \/ \E r \in TokenIds : Refresh(w, r) \/ Reuse(w, r)
  \/ \E p \in ResetIds : ConfirmReset(w, p)
  \/ \E s \in StateIds : Callback(w, s)
  \/ \E actor, u \in Users, data \in Changes : UpdateUser(w, actor, u, data)

Step(w) ==
  \/ \E r \in TokenIds : CommitLogin(w, r) \/ CommitRotate(w, r)
  \/ CommitRevoke(w) \/ CommitPassword(w) \/ CommitUpdate(w) \/ DeleteState(w)
  \/ \E i \in Identities :
       \/ \E u \in Users : GoogleLogin(w, i, u) \/ \E r \in TokenIds : GoogleRegister(w, i, u, r)
       \/ link_google_account(w, i)
  \/ Abort(w)

Other ==
  \/ \E u \in Users, e \in Emails, r \in TokenIds : Register(u, e, r)
  \/ \E r \in TokenIds : Logout(r)
  \/ \E u \in Users, p \in ResetIds : request_password_reset(u, p)
  \/ \E u \in Users : confirm_email_verification(u)
  \/ \E s \in StateIds : google_login(s) \/ ExpireState(s) \/ \E u \in Users : google_link_start(s, u)

Next == (\E w \in Workers : Start(w) \/ Step(w)) \/ Other

Spec == Init /\ [][Next]_vars

-----------------------------------------------------------------------------
(* Properties.                                                             *)

\* One type invariant: also, addresses are unique, and what refers to a user
\* or token refers to one that exists.
AccountsTypeOK ==
  /\ users \in [Users -> UserRows \cup {None}]
  /\ refresh_tokens \in [TokenIds -> Tokens \cup {None}]
  /\ password_resets \in [ResetIds -> Resets \cup {None}]
  /\ email_verifications \in [Users -> {"none", "sent", "used"}]
  /\ oauth_accounts \in [Subjects -> [user_id : Users, email : Emails] \cup {None}]
  /\ oauth_states \in [StateIds -> States]
  /\ audit \in [Users -> AuditRows]
  /\ sess \in [Workers -> Sessions]
  /\ passwords \in Nat /\ forked \subseteq TokenIds /\ lapsed \in BOOLEAN
  /\ overlapped \subseteq Users /\ requests \in Nat
  /\ \A u, v \in Users : Exists(u) /\ Exists(v) /\ u # v => users[u].email # users[v].email
  /\ \A r \in TokenIds : Issued(r) => Exists(refresh_tokens[r].user_id)
  /\ \A s \in Subjects : oauth_accounts[s] # None => Exists(oauth_accounts[s].user_id)

\* A family has one live token, the last of its chain: every rotation revokes
\* what it replaces by a token of the same user and family.  Only a token
\* that was revoked between a rotation's read and its commit forks a family.
OneTokenPerFamily ==
  \A r \in TokenIds : Issued(r) =>
    LET token == refresh_tokens[r]
        next == token.replaced_by_id
    IN  /\ next # None =>
             /\ token.revoked_at
             /\ Issued(next)
             /\ refresh_tokens[next].family_id = token.family_id
             /\ refresh_tokens[next].user_id = token.user_id
        /\ Live(r) /\ token.family_id \notin forked => LiveOfFamily(token.family_id) = {r}

\* No token of the family is live or being rotated.
Dead(f) ==
  /\ Issued(f)
  /\ LiveOfFamily(f) = {}
  /\ \A w \in Workers :
       sess[w].op = "rotate" => refresh_tokens[sess[w].token].family_id # f

\* A dead family stays dead: what a logout, the reuse of a token or a new
\* password has ended is never resumed, unless a rotation that had loaded its
\* token before is still under way.
DeadFamiliesStayDead == [][\A f \in TokenIds : Dead(f) => Dead(f)']_vars

\* A new password ends the sessions of the old one: a live token whose login
\* was made with an older password was issued by a request that overlapped
\* the change, or is descended from such a token.
OldSessionsEnd ==
  \A r \in TokenIds : Live(r) /\ ~refresh_tokens[r].raced =>
    refresh_tokens[r].password = users[refresh_tokens[r].user_id].hashed_password

\* A Google account enters only the account it is linked to, and that one has
\* its address: a local account with the address is never entered or linked
\* by a login.
GoogleEntersItsOwn ==
  /\ \A s \in Subjects : oauth_accounts[s] # None =>
       users[oauth_accounts[s].user_id].email = oauth_accounts[s].email
  /\ \A w \in Workers : sess[w].op = "google" =>
       /\ oauth_accounts[sess[w].identity.subject] # None
       /\ oauth_accounts[sess[w].identity.subject].user_id = sess[w].user

\* Whoever changes others keeps his own role, so there is always an active
\* account that may manage users, unless an administrator deactivates himself,
\* which update_user does not refuse, or a change is committed by one who has
\* lost user.manage after it was checked (two can demote each other).
SomebodyManagesUsers == ~lapsed => \E u \in Users : Manages(u)

\* The newest rows of the audit log about a user's role and activation say what
\* the user has, as long as no two updates of this user overlap.  (The log is
\* in the order in which the transactions started: of two that overlap, the
\* one that started first may commit last, and its row is not the newest.)
AuditAgrees ==
  \A u \in Users \ overlapped : Exists(u) =>
    audit[u].role = users[u].role /\ audit[u].is_active = users[u].is_active
=============================================================================
