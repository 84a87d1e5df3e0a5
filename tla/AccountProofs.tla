--------------------------- MODULE AccountProofs ---------------------------
(***************************************************************************)
(* Proofs about Accounts for any number of workers, users and tokens.      *)
(*                                                                         *)
(* No row is locked, so what a request commits rests on what is still true *)
(* of the rows it has loaded: Known.  Rows are never deleted and the       *)
(* fields a session relies on never change (TokensGrow), except for what   *)
(* the history fields raced and forked record.                             *)
(***************************************************************************)
EXTENDS Accounts, TLAPS

\* What the session s relies on, in the tables U of users, T of tokens and O
\* of Google accounts: a rotation that is not raced goes on with the password
\* its login was made with, and a new password ends every live token of the
\* user that was not issued meanwhile.
Known(s, U, T, O) ==
  /\ s.op \in {"login", "google", "rotate", "change", "reset", "update"} =>
       s.user \in Users /\ U[s.user] # None
  /\ s.op \in {"callback", "exchange"} =>
       s.state \in StateIds /\ (s.user # None => U[s.user] # None)
  /\ s.op = "rotate" =>
       /\ s.token \in TokenIds /\ T[s.token] # None
       /\ T[s.token].user_id = s.user
       /\ ~T[s.token].raced => T[s.token].password = s.password
  /\ s.op \in {"change", "reset"} =>
       \A r \in TokenIds : T[r] # None /\ T[r].user_id = s.user =>
         T[r].revoked_at \/ T[r].raced \/ r \in s.targets
  /\ s.op = "google" =>
       /\ s.identity \in Identities
       /\ O[s.identity.subject] # None
       /\ O[s.identity.subject].user_id = s.user
  /\ s.op = "update" =>
       /\ s.actor \in Users /\ U[s.actor] # None
       /\ s.user = s.actor => s.new.role = s.loaded.role /\ s.loaded.is_active

SessionsKnow == \A w \in Workers : Known(sess[w], users, refresh_tokens, oauth_accounts)

\* What else refers to a user, a token or a reset refers to one that exists.
RowsResolve ==
  /\ \A p \in ResetIds : password_resets[p] # None => Exists(password_resets[p].user_id)
  /\ \A s \in StateIds : oauth_states[s].user_id # None => Exists(oauth_states[s].user_id)
  /\ \A u \in Users : email_verifications[u] # "none" => Exists(u)
  /\ \A r \in TokenIds : Issued(r) => Issued(refresh_tokens[r].family_id)
  /\ \A w \in Workers : sess[w].op = "reset" =>
       sess[w].reset \in ResetIds /\ password_resets[sess[w].reset] # None

LinkedAddress ==
  \A s \in Subjects : oauth_accounts[s] # None =>
    users[oauth_accounts[s].user_id].email = oauth_accounts[s].email

\* The inductive invariant.
AccountInv ==
  /\ AccountsTypeOK
  /\ RowsResolve
  /\ LinkedAddress
  /\ SomebodyManagesUsers
  /\ OldSessionsEnd
  /\ OneTokenPerFamily
  /\ SessionsKnow

LEMMA IdleSession == Idle \in Sessions
BY DEF Idle, Sessions, NoSettings, Settings, Roles

LEMMA IdleKnown == ASSUME NEW U, NEW T, NEW O PROVE Known(Idle, U, T, O)
BY DEF Known, Idle

LEMMA InitAccounts == Init => AccountInv
<1> SUFFICES ASSUME Init PROVE AccountInv
  OBVIOUS
<1>1. \A r \in TokenIds : ~Issued(r)
  BY DEF Init, Issued
<1>2. \A w \in Workers : sess[w] = Idle
  BY DEF Init
<1>3. NoSettings \in Settings
  BY DEF NoSettings, Settings, Roles
<1>4. \A u \in Users : InitialUsers[u] # None => Setting(InitialUsers[u]) \in Settings
  BY InitialAccounts DEF Setting, Settings, UserRows
<1>5. audit \in [Users -> AuditRows]
  <2>1. \A s \in Settings : NoRows(s) \in AuditRows
    BY DEF NoRows, AuditRows, Settings
  <2> QED
    BY <1>3, <1>4, <2>1 DEF Init
<1>6. oauth_states \in [StateIds -> States]
  BY DEF Init, States
<1>7. AccountsTypeOK
  BY <1>1, <1>5, <1>6, IdleSession, InitialAccounts DEF Init, AccountsTypeOK, Exists
<1>8. RowsResolve
  BY <1>1, <1>2 DEF Init, RowsResolve, Idle
<1>9. LinkedAddress
  BY DEF Init, LinkedAddress
<1>10. SomebodyManagesUsers
  BY InitialAccounts DEF Init, SomebodyManagesUsers, Manages, Active, Exists
<1>11. OldSessionsEnd /\ OneTokenPerFamily
  BY <1>1 DEF OldSessionsEnd, OneTokenPerFamily, Live
<1>12. SessionsKnow
  BY <1>2, IdleKnown DEF SessionsKnow
<1> QED
  BY <1>7, <1>8, <1>9, <1>10, <1>11, <1>12 DEF AccountInv

-----------------------------------------------------------------------------
(* Steps that write no user, token, link or audit row.                     *)

Calm == UNCHANGED <<users, refresh_tokens, oauth_accounts, audit, history>>

LEMMA CalmKeeps ==
  ASSUME AccountInv, Calm,
         password_resets' \in [ResetIds -> Resets \cup {None}],
         email_verifications' = email_verifications,
         oauth_states' \in [StateIds -> States],
         sess' \in [Workers -> Sessions], requests' \in Nat,
         RowsResolve', SessionsKnow'
  PROVE  AccountInv'
<1>1. AccountsTypeOK'
  BY DEF AccountInv, AccountsTypeOK, Calm, history, Exists, Issued
<1>2. LinkedAddress' /\ SomebodyManagesUsers'
  BY DEF AccountInv, Calm, history, LinkedAddress, SomebodyManagesUsers, Manages, Active, Exists
<1>3. OldSessionsEnd' /\ OneTokenPerFamily'
  BY DEF AccountInv, Calm, history, OldSessionsEnd, OneTokenPerFamily, Live, LiveOfFamily, Issued
<1> QED
  BY <1>1, <1>2, <1>3 DEF AccountInv

\* w's session becomes s.
LEMMA SessionKeeps ==
  ASSUME AccountInv, NEW w \in Workers, NEW s \in Sessions,
         Known(s, users, refresh_tokens, oauth_accounts),
         s.op = "reset" => s.reset \in ResetIds /\ password_resets[s.reset] # None,
         sess' = [sess EXCEPT ![w] = s],
         UNCHANGED <<tables, history>>, requests' \in Nat
  PROVE  AccountInv'
<1>1. Calm /\ sess' \in [Workers -> Sessions]
  BY DEF AccountInv, AccountsTypeOK, Calm, tables, history
<1>2. RowsResolve'
  BY DEF AccountInv, AccountsTypeOK, RowsResolve, tables, Exists, Issued
<1>3. SessionsKnow'
  BY DEF AccountInv, AccountsTypeOK, SessionsKnow, tables
<1> QED
  BY <1>1, <1>2, <1>3, CalmKeeps DEF AccountInv, AccountsTypeOK, tables

LEMMA BeginKeeps ==
  ASSUME AccountInv, NEW w \in Workers, NEW s \in Sessions, Begin(w, s),
         Known(s, users, refresh_tokens, oauth_accounts),
         s.op = "reset" => s.reset \in ResetIds /\ password_resets[s.reset] # None
  PROVE  AccountInv'
<1>1. requests' \in Nat /\ sess' = [sess EXCEPT ![w] = s] /\ UNCHANGED <<tables, history>>
  BY DEF Begin, Request, AccountInv, AccountsTypeOK
<1> QED
  BY <1>1, SessionKeeps

LEMMA LoginKeeps ==
  ASSUME AccountInv, NEW w \in Workers, NEW u \in Users, Login(w, u) PROVE AccountInv'
<1> DEFINE s == [Idle EXCEPT !.op = "login", !.user = u, !.password = users[u].hashed_password]
<1>1. users[u] # None /\ users[u] \in UserRows /\ Begin(w, s)
  BY DEF Login, Active, Exists, AccountInv, AccountsTypeOK
<1>2. s \in Sessions
  BY <1>1, IdleSession DEF Sessions, Idle, UserRows
<1>3. s.op = "login" /\ s.user = u
  BY DEF Idle
<1>4. Known(s, users, refresh_tokens, oauth_accounts)
  BY <1>1, <1>3 DEF Known
<1> HIDE DEF s
<1> QED
  BY <1>1, <1>2, <1>3, <1>4, BeginKeeps

LEMMA ChangePasswordKeeps ==
  ASSUME AccountInv, NEW w \in Workers, NEW u \in Users, ChangePassword(w, u) PROVE AccountInv'
<1> DEFINE s == [Idle EXCEPT !.op = "change", !.user = u, !.targets = LiveOfUser(u)]
<1>1. users[u] # None /\ Begin(w, s)
  BY DEF ChangePassword, Active, Exists
<1>2. s \in Sessions
  BY IdleSession DEF Sessions, Idle, LiveOfUser
<1>3. s.op = "change" /\ s.user = u /\ s.targets = LiveOfUser(u)
  BY DEF Idle
<1>4. Known(s, users, refresh_tokens, oauth_accounts)
  BY <1>1, <1>3 DEF Known, LiveOfUser, Live, Issued
<1> HIDE DEF s
<1> QED
  BY <1>1, <1>2, <1>3, <1>4, BeginKeeps

LEMMA RefreshKeeps ==
  ASSUME AccountInv, NEW w \in Workers, NEW r \in TokenIds, Refresh(w, r) PROVE AccountInv'
<1> DEFINE u == refresh_tokens[r].user_id
           s == [Idle EXCEPT !.op = "rotate", !.token = r, !.user = u,
                             !.password = users[u].hashed_password]
<1>1. Begin(w, s) /\ Live(r) /\ Issued(r)
  BY DEF Refresh, Usable, Live
<1>2. u \in Users /\ users[u] # None /\ users[u] \in UserRows
  BY <1>1 DEF AccountInv, AccountsTypeOK, Issued, Tokens, Exists
<1>3. s \in Sessions
  BY <1>2, IdleSession DEF Sessions, Idle, UserRows
<1>4. s.op = "rotate" /\ s.user = u /\ s.token = r /\ s.password = users[u].hashed_password
  BY DEF Idle
<1>5. ~refresh_tokens[r].raced => refresh_tokens[r].password = users[u].hashed_password
  BY <1>1 DEF AccountInv, OldSessionsEnd
<1>6. Known(s, users, refresh_tokens, oauth_accounts)
  BY <1>1, <1>2, <1>4, <1>5 DEF Known, Issued
<1> HIDE DEF s
<1> QED
  BY <1>1, <1>3, <1>4, <1>6, BeginKeeps

LEMMA ReuseKeeps ==
  ASSUME AccountInv, NEW w \in Workers, NEW r \in TokenIds, Reuse(w, r) PROVE AccountInv'
<1> DEFINE s == [Idle EXCEPT !.op = "revoke",
                             !.targets = LiveOfFamily(refresh_tokens[r].family_id)]
<1>1. s \in Sessions /\ s.op = "revoke"
  BY IdleSession DEF Sessions, Idle, LiveOfFamily
<1>2. Begin(w, s)
  BY DEF Reuse
<1>3. Known(s, users, refresh_tokens, oauth_accounts)
  BY <1>1 DEF Known
<1> HIDE DEF s
<1> QED
  BY <1>1, <1>2, <1>3, BeginKeeps

LEMMA ConfirmResetKeeps ==
  ASSUME AccountInv, NEW w \in Workers, NEW p \in ResetIds, ConfirmReset(w, p) PROVE AccountInv'
<1> DEFINE u == password_resets[p].user_id
           s == [Idle EXCEPT !.op = "reset", !.user = u, !.reset = p, !.targets = LiveOfUser(u)]
<1>1. Begin(w, s) /\ password_resets[p] # None
  BY DEF ConfirmReset
<1>2. u \in Users /\ users[u] # None
  BY <1>1 DEF AccountInv, AccountsTypeOK, RowsResolve, Exists, Resets
<1>3. s \in Sessions
  BY <1>2, IdleSession DEF Sessions, Idle, LiveOfUser
<1>4. s.op = "reset" /\ s.user = u /\ s.reset = p /\ s.targets = LiveOfUser(u)
  BY DEF Idle
<1>5. Known(s, users, refresh_tokens, oauth_accounts)
  BY <1>2, <1>4 DEF Known, LiveOfUser, Live, Issued
<1> HIDE DEF s
<1> QED
  BY <1>1, <1>3, <1>4, <1>5, BeginKeeps

LEMMA UpdateUserKeeps ==
  ASSUME AccountInv, NEW w \in Workers, NEW actor \in Users, NEW u \in Users,
         NEW data \in Changes, UpdateUser(w, actor, u, data)
  PROVE  AccountInv'
<1> DEFINE s == [Idle EXCEPT !.op = "update", !.actor = actor, !.user = u,
                             !.loaded = Setting(users[u]), !.new = data,
                             !.started = requests + 1]
<1>1. /\ Begin(w, s) /\ users[actor] # None /\ users[u] # None /\ users[u] \in UserRows
      /\ data \in Settings
      /\ data.role # users[u].role => u # actor
      /\ users[actor].is_active /\ requests + 1 \in Nat
  BY ChangesAssumption
  DEF UpdateUser, Manages, Active, Exists, MaySet, AccountInv, AccountsTypeOK, Settings
<1>2. /\ Setting(users[u]) \in Settings /\ Setting(users[u]).role = users[u].role
      /\ Setting(users[u]).is_active = users[u].is_active
  BY <1>1 DEF Setting, Settings, UserRows
<1>3. s \in Sessions
  BY <1>1, <1>2, IdleSession DEF Sessions, Idle
<1>4. s.op = "update" /\ s.user = u /\ s.actor = actor /\ s.loaded = Setting(users[u]) /\ s.new = data
  BY DEF Idle
<1>5. Known(s, users, refresh_tokens, oauth_accounts)
  BY <1>1, <1>2, <1>4 DEF Known
<1> HIDE DEF s
<1> QED
  BY <1>1, <1>3, <1>4, <1>5, BeginKeeps

LEMMA CallbackKeeps ==
  ASSUME AccountInv, NEW w \in Workers, NEW x \in StateIds, Callback(w, x) PROVE AccountInv'
<1> DEFINE s == [Idle EXCEPT !.op = "callback", !.state = x, !.user = oauth_states[x].user_id]
<1>1. sess' = [sess EXCEPT ![w] = s] /\ UNCHANGED <<tables, history>> /\ requests' \in Nat
  BY DEF Callback, AccountInv, AccountsTypeOK
<1>2. /\ oauth_states[x].user_id \in Users \cup {None}
      /\ oauth_states[x].user_id # None => users[oauth_states[x].user_id] # None
  BY DEF AccountInv, AccountsTypeOK, RowsResolve, Exists, States
<1>3. s \in Sessions
  BY <1>2, IdleSession DEF Sessions, Idle
<1>4. s.op = "callback" /\ s.state = x /\ s.user = oauth_states[x].user_id
  BY DEF Idle
<1>5. Known(s, users, refresh_tokens, oauth_accounts)
  BY <1>2, <1>4 DEF Known
<1> HIDE DEF s
<1> QED
  BY <1>1, <1>3, <1>4, <1>5, SessionKeeps

LEMMA GoogleLoginKeeps ==
  ASSUME AccountInv, NEW w \in Workers, NEW i \in Identities, NEW u \in Users,
         GoogleLogin(w, i, u)
  PROVE  AccountInv'
<1> DEFINE s == [Idle EXCEPT !.op = "google", !.user = u, !.identity = i,
                             !.password = users[u].hashed_password]
<1>1. /\ sess' = [sess EXCEPT ![w] = s] /\ UNCHANGED <<tables, history>> /\ requests' \in Nat
      /\ oauth_accounts[i.subject] # None /\ oauth_accounts[i.subject].user_id = u
  BY DEF GoogleLogin, Enters, AccountInv, AccountsTypeOK
<1>2. users[u] # None /\ users[u] \in UserRows
  BY <1>1 DEF AccountInv, AccountsTypeOK, Exists, Subjects
<1>3. s \in Sessions
  BY <1>2, IdleSession DEF Sessions, Idle, UserRows
<1>4. s.op = "google" /\ s.user = u /\ s.identity = i
  BY DEF Idle
<1>5. Known(s, users, refresh_tokens, oauth_accounts)
  BY <1>1, <1>2, <1>4 DEF Known
<1> HIDE DEF s
<1> QED
  BY <1>1, <1>3, <1>4, <1>5, SessionKeeps

LEMMA AbortKeeps ==
  ASSUME AccountInv, NEW w \in Workers, Abort(w) PROVE AccountInv'
<1>1. Idle.op # "reset"
  BY DEF Idle
<1>2. sess' = [sess EXCEPT ![w] = Idle] /\ UNCHANGED <<tables, history>> /\ requests' \in Nat
  BY DEF Abort, End, AccountInv, AccountsTypeOK
<1> QED
  BY <1>1, <1>2, IdleSession, IdleKnown, SessionKeeps

LEMMA StutterKeeps == ASSUME AccountInv, UNCHANGED vars PROVE AccountInv'
<1>1. Calm /\ RowsResolve' /\ SessionsKnow'
  BY DEF AccountInv, vars, tables, history, Calm, RowsResolve, SessionsKnow, Exists, Issued
<1> QED
  BY <1>1, CalmKeeps DEF AccountInv, AccountsTypeOK, vars, tables

\* A state is set or deleted, w's callback goes on or no session moves.
LEMMA SetStateKeeps ==
  ASSUME AccountInv, NEW x \in StateIds, NEW action \in {"login", "link", "deleted"},
         NEW u \in Users \cup {None}, u # None => Exists(u), SetState(x, action, u),
         sess' \in [Workers -> Sessions], requests' \in Nat, SessionsKnow',
         \A w \in Workers : sess'[w].op = "reset" => sess'[w] = sess[w]
  PROVE  AccountInv'
<1>1. Calm /\ UNCHANGED <<password_resets, email_verifications>>
  BY DEF SetState, Calm
<1>2. oauth_states' = [oauth_states EXCEPT ![x] = [action |-> action, user_id |-> u]]
  BY DEF SetState
<1>3. oauth_states' \in [StateIds -> States]
  BY <1>2 DEF AccountInv, AccountsTypeOK, States
<1>4. RowsResolve'
  <2>1. \A y \in StateIds : oauth_states'[y].user_id # None => Exists(oauth_states'[y].user_id)
    BY <1>2 DEF AccountInv, AccountsTypeOK, RowsResolve
  <2> QED
    BY <1>1, <2>1 DEF AccountInv, RowsResolve, Calm, Exists, Issued
<1> QED
  BY <1>1, <1>3, <1>4, CalmKeeps DEF AccountInv, AccountsTypeOK

LEMMA StateStepsKeep ==
  ASSUME AccountInv, NEW x \in StateIds,
         google_login(x) \/ ExpireState(x) \/ \E u \in Users : google_link_start(x, u)
  PROVE  AccountInv'
<1>1. UNCHANGED sess /\ requests' \in Nat
  BY DEF google_login, google_link_start, ExpireState, Request, AccountInv, AccountsTypeOK
<1>2. ASSUME NEW action, NEW u, SetState(x, action, u) PROVE SessionsKnow'
  BY <1>1, <1>2 DEF SetState, AccountInv, SessionsKnow
<1>3. CASE google_login(x)
  BY <1>1, <1>2, <1>3, SetStateKeeps DEF google_login, AccountInv, AccountsTypeOK
<1>4. CASE ExpireState(x)
  BY <1>1, <1>2, <1>4, SetStateKeeps DEF ExpireState, AccountInv, AccountsTypeOK
<1>5. ASSUME NEW u \in Users, google_link_start(x, u) PROVE AccountInv'
  BY <1>1, <1>2, <1>5, SetStateKeeps DEF google_link_start, Active, AccountInv, AccountsTypeOK
<1> QED
  BY <1>3, <1>4, <1>5

LEMMA DeleteStateKeeps ==
  ASSUME AccountInv, NEW w \in Workers, DeleteState(w) PROVE AccountInv'
<1> DEFINE s == [sess[w] EXCEPT !.op = "exchange"]
<1>1. sess[w] \in Sessions /\ Known(sess[w], users, refresh_tokens, oauth_accounts)
  BY DEF AccountInv, AccountsTypeOK, SessionsKnow
<1>2. /\ sess[w].op = "callback" /\ SetState(sess[w].state, "deleted", None)
      /\ sess' = [sess EXCEPT ![w] = s] /\ requests' \in Nat
  BY DEF DeleteState, AccountInv, AccountsTypeOK
<1>3. s \in Sessions /\ s.op = "exchange" /\ s.state = sess[w].state /\ s.user = sess[w].user
  BY <1>1 DEF Sessions
<1>4. sess[w].state \in StateIds /\ Known(s, users, refresh_tokens, oauth_accounts)
  BY <1>1, <1>2, <1>3 DEF Known
<1> HIDE DEF s
<1>5. sess' \in [Workers -> Sessions]
      /\ \A v \in Workers : sess'[v].op = "reset" => sess'[v] = sess[v]
  BY <1>2, <1>3 DEF AccountInv, AccountsTypeOK
<1>6. SessionsKnow'
  BY <1>2, <1>4 DEF SessionsKnow, SetState, AccountInv, AccountsTypeOK
<1> QED
  BY <1>2, <1>4, <1>5, <1>6, SetStateKeeps

LEMMA RequestResetKeeps ==
  ASSUME AccountInv, NEW u \in Users, NEW p \in ResetIds, request_password_reset(u, p)
  PROVE  AccountInv'
<1>1. /\ Calm /\ UNCHANGED <<email_verifications, oauth_states, sess>> /\ requests' \in Nat
      /\ Exists(u)
      /\ password_resets' = [password_resets EXCEPT ![p] = [user_id |-> u, used_at |-> FALSE]]
  BY DEF request_password_reset, Calm, history, Request, AccountInv, AccountsTypeOK
<1>2. [user_id |-> u, used_at |-> FALSE] \in Resets /\ [user_id |-> u, used_at |-> FALSE] # None
  <2>1. [user_id |-> u, used_at |-> FALSE] \in Resets
    BY DEF Resets
  <2> QED
    BY <2>1, AccountRows
<1>3. password_resets' \in [ResetIds -> Resets \cup {None}]
  BY <1>1, <1>2 DEF AccountInv, AccountsTypeOK
<1>4. \A q \in ResetIds : /\ password_resets[q] # None => password_resets'[q] # None
                          /\ password_resets'[q] # None => Exists(password_resets'[q].user_id)
  BY <1>1, <1>2 DEF AccountInv, AccountsTypeOK, RowsResolve
<1>5. RowsResolve'
  BY <1>1, <1>4 DEF AccountInv, RowsResolve, Calm, Exists, Issued
<1>6. SessionsKnow'
  BY <1>1 DEF AccountInv, SessionsKnow, Calm
<1> QED
  BY <1>1, <1>3, <1>5, <1>6, CalmKeeps DEF AccountInv, AccountsTypeOK

-----------------------------------------------------------------------------
(* Steps that write users, tokens or links.                                *)

\* A request ends, the others go on.
SessionsGoOn ==
  /\ sess' \in [Workers -> Sessions]
  /\ \A v \in Workers : sess'[v] = sess[v] \/ sess'[v] = Idle

UsersGrow ==
  \A u \in Users : Exists(u) => users'[u] # None /\ users'[u].email = users[u].email

TokensGrow ==
  \A r \in TokenIds : Issued(r) =>
    /\ refresh_tokens'[r] # None
    /\ refresh_tokens'[r].user_id = refresh_tokens[r].user_id
    /\ refresh_tokens'[r].family_id = refresh_tokens[r].family_id
    /\ refresh_tokens'[r].password = refresh_tokens[r].password
    /\ refresh_tokens'[r].raced = refresh_tokens[r].raced
    /\ refresh_tokens[r].revoked_at => refresh_tokens'[r].revoked_at

LinksGrow ==
  \A s \in Subjects : oauth_accounts[s] # None => oauth_accounts'[s] = oauth_accounts[s]

\* A new token refers to what exists, and a change of its user's password
\* that is under way knows of it or it is raced.
NewTokensKnown ==
  \A r \in TokenIds : ~Issued(r) /\ refresh_tokens'[r] # None =>
    /\ users'[refresh_tokens'[r].user_id] # None
    /\ refresh_tokens'[refresh_tokens'[r].family_id] # None
    /\ \A v \in Workers :
         sess[v].op \in {"change", "reset"} /\ sess[v].user = refresh_tokens'[r].user_id =>
           refresh_tokens'[r].raced

LEMMA OthersKnow ==
  ASSUME AccountInv, SessionsGoOn, UsersGrow, TokensGrow, LinksGrow, NewTokensKnown
  PROVE  SessionsKnow'
<1> SUFFICES ASSUME NEW v \in Workers
             PROVE  Known(sess'[v], users', refresh_tokens', oauth_accounts')
  BY DEF SessionsKnow
<1>1. CASE sess'[v] = Idle
  BY <1>1, IdleKnown
<1>2. CASE sess'[v] = sess[v]
  <2> DEFINE s == sess[v]
  <2>1. s \in Sessions /\ Known(s, users, refresh_tokens, oauth_accounts)
    BY DEF AccountInv, AccountsTypeOK, SessionsKnow
  <2>2. s.op \in {"change", "reset"} =>
          \A r \in TokenIds : refresh_tokens'[r] # None /\ refresh_tokens'[r].user_id = s.user =>
            refresh_tokens'[r].revoked_at \/ refresh_tokens'[r].raced \/ r \in s.targets
    BY <2>1 DEF Known, TokensGrow, NewTokensKnown, Issued
  <2>3. s.op = "google" => s.identity \in Identities /\ s.identity.subject \in Subjects
    BY <2>1 DEF Known, Subjects
  <2>4. s.user \in Users \cup {None}
    BY <2>1 DEF Sessions
  <2> HIDE DEF s
  <2>5. Known(s, users', refresh_tokens', oauth_accounts')
    BY <2>1, <2>2, <2>3, <2>4 DEF Known, UsersGrow, TokensGrow, LinksGrow, Exists, Issued
  <2> QED
    BY <1>2, <2>5 DEF s
<1> QED
  BY <1>1, <1>2 DEF SessionsGoOn

LEMMA RowsKeep ==
  ASSUME AccountInv, SessionsGoOn, UsersGrow, TokensGrow, NewTokensKnown,
         UNCHANGED oauth_states,
         \A p \in ResetIds :
           /\ password_resets[p] # None <=> password_resets'[p] # None
           /\ password_resets[p] # None =>
                password_resets'[p].user_id = password_resets[p].user_id,
         \A u \in Users : email_verifications'[u] # "none" =>
           email_verifications[u] # "none" \/ users'[u] # None
  PROVE  RowsResolve'
<1>1. \A p \in ResetIds : password_resets'[p] # None => users'[password_resets'[p].user_id] # None
  BY DEF AccountInv, AccountsTypeOK, Resets, RowsResolve, UsersGrow, Exists
<1>2. \A s \in StateIds : oauth_states'[s].user_id # None => users'[oauth_states'[s].user_id] # None
  BY DEF AccountInv, AccountsTypeOK, States, RowsResolve, UsersGrow, Exists
<1>3. \A u \in Users : email_verifications'[u] # "none" => users'[u] # None
  BY DEF AccountInv, RowsResolve, UsersGrow, Exists
<1>4. \A r \in TokenIds : refresh_tokens'[r] # None =>
        refresh_tokens'[refresh_tokens'[r].family_id] # None
  BY DEF AccountInv, AccountsTypeOK, Tokens, RowsResolve, TokensGrow, NewTokensKnown, Issued
<1>5. \A v \in Workers : sess'[v].op = "reset" =>
        sess'[v].reset \in ResetIds /\ password_resets'[sess'[v].reset] # None
  BY DEF AccountInv, RowsResolve, SessionsGoOn, Idle
<1> QED
  BY <1>1, <1>2, <1>3, <1>4, <1>5 DEF RowsResolve, Exists, Issued

\* End, as the writers use it.
LEMMA EndGoesOn ==
  ASSUME AccountInv, NEW w \in Workers, End(w) PROVE SessionsGoOn
BY IdleSession DEF End, SessionsGoOn, AccountInv, AccountsTypeOK

LEMMA SameGoesOn == ASSUME AccountInv, UNCHANGED sess PROVE SessionsGoOn
BY DEF SessionsGoOn, AccountInv, AccountsTypeOK

\* The tables other than refresh_tokens stay as they are.
LEMMA TokensKeep ==
  ASSUME AccountInv, SessionsGoOn, TokensGrow, NewTokensKnown,
         UNCHANGED <<users, password_resets, email_verifications, oauth_accounts,
                     oauth_states, audit, passwords, lapsed, overlapped>>,
         refresh_tokens' \in [TokenIds -> Tokens \cup {None}],
         forked' \subseteq TokenIds, requests' \in Nat, OldSessionsEnd', OneTokenPerFamily'
  PROVE  AccountInv'
<1>1. UsersGrow /\ LinksGrow
  BY DEF UsersGrow, LinksGrow, Exists
<1>2. SessionsKnow' /\ RowsResolve'
  BY <1>1, OthersKnow, RowsKeep
<1>3. \A r \in TokenIds : refresh_tokens'[r] # None => users'[refresh_tokens'[r].user_id] # None
  BY DEF AccountInv, AccountsTypeOK, Exists, TokensGrow, NewTokensKnown, Issued
<1>4. AccountsTypeOK'
  BY <1>3 DEF AccountInv, AccountsTypeOK, SessionsGoOn, Exists, Issued
<1>5. LinkedAddress' /\ SomebodyManagesUsers'
  BY DEF AccountInv, LinkedAddress, SomebodyManagesUsers, Manages, Active, Exists
<1> QED
  BY <1>2, <1>4, <1>5 DEF AccountInv

\* Rows whose revoked_at is set.
LEMMA RevokedRows ==
  ASSUME AccountInv, NEW R, refresh_tokens' = Revoked(R)
  PROVE  /\ refresh_tokens' \in [TokenIds -> Tokens \cup {None}]
         /\ TokensGrow
         /\ NewTokensKnown
         /\ \A r \in TokenIds : refresh_tokens'[r] # None <=> Issued(r)
         /\ \A r \in TokenIds : Issued(r) =>
              refresh_tokens'[r].replaced_by_id = refresh_tokens[r].replaced_by_id
         /\ \A r \in TokenIds : Issued(r) =>
              (refresh_tokens'[r].revoked_at <=> refresh_tokens[r].revoked_at \/ r \in R)
<1> DEFINE T == [TokenIds -> Tokens \cup {None}]
<1>1. refresh_tokens \in T
  BY DEF AccountInv, AccountsTypeOK
<1>2. ASSUME NEW r \in TokenIds, Issued(r), r \in R
      PROVE  /\ refresh_tokens'[r] = [refresh_tokens[r] EXCEPT !.revoked_at = TRUE]
             /\ refresh_tokens[r] \in Tokens
  BY <1>1, <1>2 DEF Revoked, Issued
<1>3. ASSUME NEW r \in TokenIds, ~(Issued(r) /\ r \in R)
      PROVE  refresh_tokens'[r] = refresh_tokens[r]
  BY <1>3 DEF Revoked
<1>4. ASSUME NEW r \in TokenIds, Issued(r), r \in R
      PROVE  /\ refresh_tokens'[r] \in Tokens
             /\ refresh_tokens'[r].user_id = refresh_tokens[r].user_id
             /\ refresh_tokens'[r].family_id = refresh_tokens[r].family_id
             /\ refresh_tokens'[r].password = refresh_tokens[r].password
             /\ refresh_tokens'[r].raced = refresh_tokens[r].raced
             /\ refresh_tokens'[r].replaced_by_id = refresh_tokens[r].replaced_by_id
             /\ refresh_tokens'[r].revoked_at = TRUE
  BY <1>2, <1>4 DEF Tokens
<1>5. ASSUME NEW r \in TokenIds, Issued(r), r \in R PROVE refresh_tokens'[r] # None
  BY <1>4, <1>5, AccountRows
<1>6. refresh_tokens' \in T
  <2>1. \A r \in TokenIds : refresh_tokens'[r] \in Tokens \cup {None}
    BY <1>1, <1>3, <1>4
  <2> QED
    BY <2>1 DEF Revoked
<1>7. \A r \in TokenIds : refresh_tokens'[r] # None <=> Issued(r)
  BY <1>3, <1>5 DEF Issued
<1>8. TokensGrow
  BY <1>3, <1>4, <1>5 DEF TokensGrow, Issued
<1>9. NewTokensKnown
  BY <1>7 DEF NewTokensKnown
<1>10. \A r \in TokenIds : Issued(r) =>
         /\ refresh_tokens'[r].replaced_by_id = refresh_tokens[r].replaced_by_id
         /\ (refresh_tokens'[r].revoked_at <=> refresh_tokens[r].revoked_at \/ r \in R)
  BY <1>3, <1>4
<1> QED
  BY <1>6, <1>7, <1>8, <1>9, <1>10

\* OneTokenPerFamily in two parts, for the tokens T and the forked families F.
Chained(T) ==
  \A r \in TokenIds : T[r] # None /\ T[r].replaced_by_id # None =>
    /\ T[r].revoked_at
    /\ T[T[r].replaced_by_id] # None
    /\ T[T[r].replaced_by_id].family_id = T[r].family_id
    /\ T[T[r].replaced_by_id].user_id = T[r].user_id

Single(T, F) ==
  \A r, q \in TokenIds :
    /\ T[r] # None /\ ~T[r].revoked_at /\ T[r].family_id \notin F
    /\ T[q] # None /\ ~T[q].revoked_at /\ T[q].family_id = T[r].family_id
    => r = q

LEMMA FamiliesSplit ==
  /\ OneTokenPerFamily <=> Chained(refresh_tokens) /\ Single(refresh_tokens, forked)
  /\ OneTokenPerFamily' <=> Chained(refresh_tokens') /\ Single(refresh_tokens', forked')
<1>1. OneTokenPerFamily <=> Chained(refresh_tokens) /\ Single(refresh_tokens, forked)
  BY DEF OneTokenPerFamily, Chained, Single, LiveOfFamily, Live, Issued
<1>2. OneTokenPerFamily' <=> Chained(refresh_tokens') /\ Single(refresh_tokens', forked')
  BY DEF OneTokenPerFamily, Chained, Single, LiveOfFamily, Live, Issued
<1> QED
  BY <1>1, <1>2

LEMMA RevokedFamilies ==
  ASSUME AccountInv, NEW R, refresh_tokens' = Revoked(R), UNCHANGED forked
  PROVE  OneTokenPerFamily'
<1>1. Chained(refresh_tokens) /\ Single(refresh_tokens, forked)
  BY FamiliesSplit DEF AccountInv
<1>2. \A r \in TokenIds : Issued(r) => refresh_tokens[r].replaced_by_id \in TokenIds \cup {None}
  BY DEF AccountInv, AccountsTypeOK, Issued, Tokens
<1>3. Chained(refresh_tokens')
  BY <1>1, <1>2, RevokedRows DEF Chained, TokensGrow, Issued
<1>4. Single(refresh_tokens', forked')
  BY <1>1, RevokedRows DEF Single, TokensGrow, Issued
<1> QED
  BY <1>3, <1>4, FamiliesSplit

\* r begins a family of its own.
LEMMA FirstTokenRows ==
  ASSUME AccountInv, NEW r \in TokenIds, NEW u \in Users, NEW p \in Nat, NEW c \in BOOLEAN,
         ~Issued(r), refresh_tokens' = [refresh_tokens EXCEPT ![r] = FirstToken(r, u, p, c)]
  PROVE  /\ refresh_tokens' \in [TokenIds -> Tokens \cup {None}]
         /\ refresh_tokens'[r] = FirstToken(r, u, p, c)
         /\ refresh_tokens'[r] # None
         /\ \A q \in TokenIds : q # r => refresh_tokens'[q] = refresh_tokens[q]
         /\ TokensGrow
<1>1. FirstToken(r, u, p, c) \in Tokens
  BY DEF FirstToken, Tokens
<1>2. FirstToken(r, u, p, c) # None
  BY <1>1, AccountRows
<1> HIDE DEF FirstToken
<1>3. refresh_tokens \in [TokenIds -> Tokens \cup {None}]
  BY DEF AccountInv, AccountsTypeOK
<1>4. refresh_tokens' \in [TokenIds -> Tokens \cup {None}]
  BY <1>1, <1>3
<1>5. /\ refresh_tokens'[r] = FirstToken(r, u, p, c)
      /\ \A q \in TokenIds : q # r => refresh_tokens'[q] = refresh_tokens[q]
  BY <1>3
<1>6. TokensGrow
  BY <1>5 DEF TokensGrow, Issued
<1> QED
  BY <1>2, <1>4, <1>5, <1>6

LEMMA FirstTokenFamilies ==
  ASSUME AccountInv, NEW r \in TokenIds, NEW u \in Users, NEW p \in Nat, NEW c \in BOOLEAN,
         ~Issued(r), refresh_tokens' = [refresh_tokens EXCEPT ![r] = FirstToken(r, u, p, c)],
         UNCHANGED forked
  PROVE  OneTokenPerFamily'
<1>1. Chained(refresh_tokens) /\ Single(refresh_tokens, forked)
  BY FamiliesSplit DEF AccountInv
<1>2. \A q \in TokenIds : Issued(q) =>
        /\ refresh_tokens[q].family_id # r
        /\ refresh_tokens[q].replaced_by_id \in TokenIds \cup {None}
  BY DEF AccountInv, AccountsTypeOK, RowsResolve, Issued, Tokens
<1>3. /\ refresh_tokens'[r].replaced_by_id = None
      /\ refresh_tokens'[r].family_id = r
  BY FirstTokenRows DEF FirstToken
<1>4. \A q \in TokenIds : q # r => refresh_tokens'[q] = refresh_tokens[q]
  BY FirstTokenRows
<1>5. Chained(refresh_tokens')
  BY <1>1, <1>2, <1>3, <1>4 DEF Chained, Issued
<1>6. Single(refresh_tokens', forked')
  BY <1>1, <1>2, <1>3, <1>4 DEF Single, Issued
<1> QED
  BY <1>5, <1>6, FamiliesSplit

LEMMA RevokedOldSessions ==
  ASSUME AccountInv, NEW R, refresh_tokens' = Revoked(R), UNCHANGED users
  PROVE  OldSessionsEnd'
<1> SUFFICES ASSUME NEW r \in TokenIds, refresh_tokens'[r] # None,
                    ~refresh_tokens'[r].revoked_at, ~refresh_tokens'[r].raced
             PROVE  refresh_tokens'[r].password = users'[refresh_tokens'[r].user_id].hashed_password
  BY DEF OldSessionsEnd, Live, Issued
<1>1. Issued(r) /\ Live(r)
  BY RevokedRows DEF Live, Issued
<1>2. TokensGrow
  BY RevokedRows
<1> QED
  BY <1>1, <1>2 DEF AccountInv, OldSessionsEnd, TokensGrow

LEMMA CommitRevokeKeeps ==
  ASSUME AccountInv, NEW w \in Workers, CommitRevoke(w) PROVE AccountInv'
<1>1. refresh_tokens' = Revoked(sess[w].targets) /\ SessionsGoOn
  BY EndGoesOn DEF CommitRevoke
<1>2. OldSessionsEnd' /\ OneTokenPerFamily'
  BY <1>1, RevokedOldSessions, RevokedFamilies DEF CommitRevoke, history
<1>3. refresh_tokens' \in [TokenIds -> Tokens \cup {None}] /\ TokensGrow /\ NewTokensKnown
  BY <1>1, RevokedRows
<1> QED
  BY <1>1, <1>2, <1>3, TokensKeep DEF CommitRevoke, history, AccountInv, AccountsTypeOK

LEMMA LogoutKeeps ==
  ASSUME AccountInv, NEW r \in TokenIds, Logout(r) PROVE AccountInv'
<1>1. refresh_tokens' = Revoked({r}) /\ SessionsGoOn
  BY SameGoesOn DEF Logout
<1>2. OldSessionsEnd' /\ OneTokenPerFamily'
  BY <1>1, RevokedOldSessions, RevokedFamilies DEF Logout, history
<1>3. refresh_tokens' \in [TokenIds -> Tokens \cup {None}] /\ TokensGrow /\ NewTokensKnown
  BY <1>1, RevokedRows
<1>4. /\ requests' \in Nat /\ forked' \subseteq TokenIds
      /\ UNCHANGED <<users, password_resets, email_verifications, oauth_accounts, oauth_states,
                     audit, passwords, lapsed, overlapped>>
  BY DEF Logout, Request, history, AccountInv, AccountsTypeOK
<1> QED
  BY <1>1, <1>2, <1>3, <1>4, TokensKeep

LEMMA CommitLoginKeeps ==
  ASSUME AccountInv, NEW w \in Workers, NEW r \in TokenIds, CommitLogin(w, r) PROVE AccountInv'
<1> DEFINE u == sess[w].user
           p == sess[w].password
           c == PasswordChanging(w, u)
<1>1. u \in Users /\ users[u] # None /\ p \in Nat /\ c \in BOOLEAN
  <2>1. sess[w] \in Sessions /\ Known(sess[w], users, refresh_tokens, oauth_accounts)
    BY DEF AccountInv, AccountsTypeOK, SessionsKnow
  <2>2. u \in Users /\ users[u] # None
    BY <2>1 DEF Known, CommitLogin
  <2>3. p \in Nat
    BY <2>1 DEF Sessions
  <2>4. c \in BOOLEAN
    BY DEF PasswordChanging
  <2> QED
    BY <2>2, <2>3, <2>4
<1>2. /\ ~Issued(r) /\ SessionsGoOn
      /\ refresh_tokens' = [refresh_tokens EXCEPT ![r] = FirstToken(r, u, p, c)]
  BY EndGoesOn DEF CommitLogin
<1>3. ~c => users[u].hashed_password = p
  BY DEF PasswordChanging
<1>4. \A v \in Workers : sess[v].op \in {"change", "reset"} /\ sess[v].user = u => c
  BY DEF PasswordChanging
<1> HIDE DEF u, p, c
<1>5. /\ refresh_tokens' \in [TokenIds -> Tokens \cup {None}]
      /\ refresh_tokens'[r] = FirstToken(r, u, p, c)
      /\ refresh_tokens'[r] # None
      /\ \A q \in TokenIds : q # r => refresh_tokens'[q] = refresh_tokens[q]
      /\ TokensGrow
  BY <1>1, <1>2, FirstTokenRows
<1>6. /\ refresh_tokens'[r].user_id = u /\ refresh_tokens'[r].family_id = r
      /\ refresh_tokens'[r].password = p /\ refresh_tokens'[r].raced = c
  BY <1>5 DEF FirstToken
<1>7. UNCHANGED <<users, password_resets, email_verifications, oauth_accounts, oauth_states,
                  audit, passwords, forked, lapsed, overlapped, requests>>
  BY DEF CommitLogin, history
<1>8. NewTokensKnown
  BY <1>1, <1>4, <1>5, <1>6, <1>7 DEF NewTokensKnown, Issued
<1>9. OldSessionsEnd'
  BY <1>3, <1>5, <1>6, <1>7 DEF AccountInv, OldSessionsEnd, Live, Issued
<1>10. OneTokenPerFamily'
  BY <1>1, <1>2, <1>7, FirstTokenFamilies
<1> QED
  BY <1>2, <1>5, <1>7, <1>8, <1>9, <1>10, TokensKeep DEF AccountInv, AccountsTypeOK

LEMMA CommitRotateKeeps ==
  ASSUME AccountInv, NEW w \in Workers, NEW n \in TokenIds, CommitRotate(w, n) PROVE AccountInv'
<1> DEFINE t == sess[w].token
           stored == refresh_tokens[t]
           u == stored.user_id
           p == sess[w].password
           c == stored.raced \/ PasswordChanging(w, u)
           first == FirstToken(n, u, stored.password, c)
           next == [first EXCEPT !.family_id = stored.family_id]
           spent == [stored EXCEPT !.revoked_at = TRUE, !.replaced_by_id = n]
<1>1. /\ t \in TokenIds /\ stored # None /\ stored \in Tokens
      /\ ~stored.raced => stored.password = p
  <2>1. Known(sess[w], users, refresh_tokens, oauth_accounts) /\ sess[w].op = "rotate"
    BY DEF AccountInv, SessionsKnow, CommitRotate
  <2>2. /\ t \in TokenIds /\ stored # None
        /\ ~stored.raced => stored.password = p
    BY <2>1 DEF Known
  <2> QED
    BY <2>2 DEF AccountInv, AccountsTypeOK
<1>2. /\ ~Issued(n) /\ SessionsGoOn /\ n # t
      /\ refresh_tokens' = [refresh_tokens EXCEPT ![t] = spent, ![n] = next]
      /\ forked' = IF stored.revoked_at THEN forked \cup {stored.family_id} ELSE forked
  BY <1>1, EndGoesOn DEF CommitRotate, Rotated, Issued
<1>3. ~c => users[u].hashed_password = p
  BY DEF PasswordChanging
<1>4. \A v \in Workers : sess[v].op \in {"change", "reset"} /\ sess[v].user = u => c
  BY DEF PasswordChanging
<1>5. c \in BOOLEAN
  BY DEF PasswordChanging
<1>6. u \in Users /\ users[u] # None /\ stored.family_id \in TokenIds /\ Issued(stored.family_id)
  BY <1>1 DEF AccountInv, AccountsTypeOK, RowsResolve, Tokens, Exists, Issued
<1> HIDE DEF c
<1>7. /\ next \in Tokens /\ next.user_id = u /\ next.family_id = stored.family_id
      /\ next.password = stored.password /\ next.raced = c
      /\ next.replaced_by_id = None /\ next.revoked_at = FALSE
  BY <1>1, <1>5 DEF FirstToken, Tokens
<1>8. /\ spent \in Tokens /\ spent.user_id = u /\ spent.family_id = stored.family_id
      /\ spent.password = stored.password /\ spent.raced = stored.raced
      /\ spent.replaced_by_id = n /\ spent.revoked_at = TRUE
  BY <1>1 DEF Tokens
<1>9. spent # None /\ next # None
  BY <1>7, <1>8, AccountRows
<1> HIDE DEF next, spent, first
<1>10. refresh_tokens \in [TokenIds -> Tokens \cup {None}]
  BY DEF AccountInv, AccountsTypeOK
<1>11. /\ refresh_tokens' \in [TokenIds -> Tokens \cup {None}]
       /\ refresh_tokens'[t] = spent /\ refresh_tokens'[n] = next
       /\ \A q \in TokenIds : q # t /\ q # n => refresh_tokens'[q] = refresh_tokens[q]
  BY <1>1, <1>2, <1>7, <1>8, <1>10
<1>12. TokensGrow
  BY <1>1, <1>2, <1>8, <1>9, <1>11 DEF TokensGrow, Issued
<1>13. UNCHANGED <<users, password_resets, email_verifications, oauth_accounts, oauth_states,
                   audit, passwords, lapsed, overlapped, requests>>
  BY DEF CommitRotate
<1>14. NewTokensKnown
  BY <1>1, <1>4, <1>6, <1>7, <1>11, <1>12, <1>13 DEF NewTokensKnown, TokensGrow, Issued
<1>15. OldSessionsEnd'
  <2> SUFFICES ASSUME NEW r \in TokenIds, refresh_tokens'[r] # None,
                      ~refresh_tokens'[r].revoked_at, ~refresh_tokens'[r].raced
               PROVE  refresh_tokens'[r].password = users'[refresh_tokens'[r].user_id].hashed_password
    BY DEF OldSessionsEnd, Live, Issued
  <2>1. CASE r = n
    <3>1. ~c /\ ~stored.raced
      BY <2>1, <1>7, <1>11 DEF c
    <3> QED
      BY <3>1, <2>1, <1>1, <1>3, <1>7, <1>11, <1>13
  <2>2. CASE r = t
    BY <2>2, <1>8, <1>11
  <2>3. CASE r # t /\ r # n
    BY <2>3, <1>11, <1>13 DEF AccountInv, OldSessionsEnd, Live, Issued
  <2> QED
    BY <2>1, <2>2, <2>3
<1>16. Chained(refresh_tokens) /\ Single(refresh_tokens, forked)
  BY FamiliesSplit DEF AccountInv
<1>17. \A q \in TokenIds : Issued(q) => refresh_tokens[q].replaced_by_id \in TokenIds \cup {None}
  BY DEF AccountInv, AccountsTypeOK, Issued, Tokens
<1>18. Chained(refresh_tokens')
  <2> SUFFICES ASSUME NEW r \in TokenIds, refresh_tokens'[r] # None,
                      refresh_tokens'[r].replaced_by_id # None
               PROVE  LET m == refresh_tokens'[r].replaced_by_id
                      IN  /\ refresh_tokens'[r].revoked_at
                          /\ refresh_tokens'[m] # None
                          /\ refresh_tokens'[m].family_id = refresh_tokens'[r].family_id
                          /\ refresh_tokens'[m].user_id = refresh_tokens'[r].user_id
    BY DEF Chained
  <2>1. CASE r = t
    BY <2>1, <1>7, <1>8, <1>9, <1>11
  <2>2. CASE r # t
    <3>1. r # n /\ refresh_tokens'[r] = refresh_tokens[r]
      BY <2>2, <1>7, <1>11
    <3>2. /\ refresh_tokens[r].replaced_by_id \in TokenIds
          /\ refresh_tokens[r].revoked_at
          /\ Issued(refresh_tokens[r].replaced_by_id)
          /\ refresh_tokens[refresh_tokens[r].replaced_by_id].family_id = refresh_tokens[r].family_id
          /\ refresh_tokens[refresh_tokens[r].replaced_by_id].user_id = refresh_tokens[r].user_id
      BY <3>1, <1>16, <1>17 DEF Chained, Issued
    <3> QED
      BY <3>1, <3>2, <1>12 DEF TokensGrow
  <2> QED
    BY <2>1, <2>2
<1>19. Single(refresh_tokens', forked')
  <2> SUFFICES ASSUME NEW r \in TokenIds, NEW q \in TokenIds,
                      refresh_tokens'[r] # None, ~refresh_tokens'[r].revoked_at,
                      refresh_tokens'[r].family_id \notin forked',
                      refresh_tokens'[q] # None, ~refresh_tokens'[q].revoked_at,
                      refresh_tokens'[q].family_id = refresh_tokens'[r].family_id
               PROVE  r = q
    BY DEF Single
  <2>1. r # t /\ q # t
    BY <1>8, <1>11
  <2>2. CASE r # n /\ q # n
    BY <2>1, <2>2, <1>2, <1>11, <1>16 DEF Single
  <2>3. ASSUME NEW x \in TokenIds, x # t, x # n, refresh_tokens'[x] # None,
               ~refresh_tokens'[x].revoked_at, refresh_tokens'[x].family_id = stored.family_id,
               stored.family_id \notin forked'
        PROVE  FALSE
    <3>1. ~stored.revoked_at /\ stored.family_id \notin forked
      BY <2>3, <1>2
    <3> QED
      BY <3>1, <2>3, <1>1, <1>11, <1>16 DEF Single
  <2> QED
    BY <2>1, <2>2, <2>3, <1>7, <1>11
<1>20. forked' \subseteq TokenIds
  BY <1>2, <1>6 DEF AccountInv, AccountsTypeOK
<1>21. OneTokenPerFamily'
  BY <1>18, <1>19, FamiliesSplit
<1> QED
  BY <1>2, <1>11, <1>12, <1>13, <1>14, <1>15, <1>20, <1>21, TokensKeep
  DEF AccountInv, AccountsTypeOK

\* A user's row gets another password, verification or setting.
LEMMA RowWritten ==
  ASSUME AccountInv, NEW u \in Users, NEW row \in UserRows, Exists(u),
         row.email = users[u].email, users' = [users EXCEPT ![u] = row]
  PROVE  /\ users' \in [Users -> UserRows \cup {None}]
         /\ users'[u] = row
         /\ \A v \in Users : v # u => users'[v] = users[v]
         /\ \A v \in Users : users'[v] # None <=> Exists(v)
         /\ UsersGrow
         /\ \A v, z \in Users : users'[v] # None /\ users'[z] # None /\ v # z =>
              users'[v].email # users'[z].email
<1>1. row # None
  BY AccountNames
<1>2. users \in [Users -> UserRows \cup {None}]
  BY DEF AccountInv, AccountsTypeOK
<1>3. /\ users' \in [Users -> UserRows \cup {None}]
      /\ users'[u] = row
      /\ \A v \in Users : v # u => users'[v] = users[v]
  BY <1>2
<1>4. \A v \in Users : users'[v] # None <=> Exists(v)
  BY <1>1, <1>3 DEF Exists
<1>5. \A v \in Users : Exists(v) => users'[v].email = users[v].email
  BY <1>3
<1>6. UsersGrow
  BY <1>4, <1>5 DEF UsersGrow
<1>7. \A v, z \in Users : Exists(v) /\ Exists(z) /\ v # z => users[v].email # users[z].email
  BY DEF AccountInv, AccountsTypeOK
<1> QED
  BY <1>3, <1>4, <1>5, <1>6, <1>7

LEMMA SameTokens ==
  ASSUME AccountInv, UNCHANGED refresh_tokens
  PROVE  /\ TokensGrow /\ NewTokensKnown
         /\ UNCHANGED forked => OneTokenPerFamily'
<1>1. TokensGrow /\ NewTokensKnown
  BY DEF TokensGrow, NewTokensKnown, Issued
<1>2. UNCHANGED forked => OneTokenPerFamily'
  BY FamiliesSplit DEF AccountInv
<1> QED
  BY <1>1, <1>2

\* The links of Google accounts after a user's row is written.
LEMMA SameLinks ==
  ASSUME AccountInv, UsersGrow, UNCHANGED oauth_accounts
  PROVE  /\ LinksGrow /\ LinkedAddress'
         /\ \A s \in Subjects : oauth_accounts'[s] # None => users'[oauth_accounts'[s].user_id] # None
<1>1. \A s \in Subjects : oauth_accounts[s] # None =>
        oauth_accounts[s].user_id \in Users /\ Exists(oauth_accounts[s].user_id)
  BY DEF AccountInv, AccountsTypeOK
<1>2. LinkedAddress'
  BY <1>1 DEF AccountInv, LinkedAddress, UsersGrow
<1> QED
  BY <1>1, <1>2 DEF LinksGrow, UsersGrow

LEMMA VerificationKeeps ==
  ASSUME AccountInv, NEW u \in Users, confirm_email_verification(u) PROVE AccountInv'
<1> DEFINE row == [users[u] EXCEPT !.is_verified = TRUE]
<1>1. Exists(u) /\ users[u] \in UserRows
  BY DEF confirm_email_verification, AccountInv, AccountsTypeOK, RowsResolve, Exists
<1>2. /\ row \in UserRows /\ row.email = users[u].email
      /\ row.hashed_password = users[u].hashed_password /\ row.role = users[u].role
      /\ row.is_active = users[u].is_active
  BY <1>1 DEF UserRows
<1>3. /\ users' = [users EXCEPT ![u] = row] /\ requests' \in Nat
      /\ UNCHANGED <<refresh_tokens, password_resets, oauth_accounts, oauth_states, audit, sess,
                     passwords, forked, lapsed, overlapped>>
      /\ email_verifications' = [email_verifications EXCEPT ![u] = "used"]
  BY DEF confirm_email_verification, Request, history, AccountInv, AccountsTypeOK
<1> HIDE DEF row
<1>4. /\ users' \in [Users -> UserRows \cup {None}]
      /\ users'[u] = row
      /\ \A v \in Users : v # u => users'[v] = users[v]
      /\ \A v \in Users : users'[v] # None <=> Exists(v)
      /\ UsersGrow
      /\ \A v, z \in Users : users'[v] # None /\ users'[z] # None /\ v # z =>
           users'[v].email # users'[z].email
  BY <1>1, <1>2, <1>3, RowWritten
<1>5. SessionsGoOn /\ TokensGrow /\ NewTokensKnown /\ OneTokenPerFamily'
  BY <1>3, SameGoesOn, SameTokens
<1>6. /\ LinksGrow /\ LinkedAddress'
      /\ \A s \in Subjects : oauth_accounts'[s] # None => users'[oauth_accounts'[s].user_id] # None
  BY <1>3, <1>4, SameLinks
<1>7. SessionsKnow'
  BY <1>4, <1>5, <1>6, OthersKnow
<1>8. /\ email_verifications' \in [Users -> {"none", "sent", "used"}]
      /\ \A v \in Users : email_verifications'[v] # "none" =>
           email_verifications[v] # "none" \/ users'[v] # None
  BY <1>1, <1>3, <1>4 DEF AccountInv, AccountsTypeOK
<1>9. RowsResolve'
  BY <1>3, <1>4, <1>5, <1>8, RowsKeep
<1>10. \A r \in TokenIds : Issued(r) => refresh_tokens[r].user_id \in Users
  BY DEF AccountInv, AccountsTypeOK, Issued, Tokens
<1>11. AccountsTypeOK'
  BY <1>3, <1>4, <1>6, <1>8, <1>10 DEF AccountInv, AccountsTypeOK, Exists, Issued
<1>12. SomebodyManagesUsers'
  BY <1>2, <1>3, <1>4 DEF AccountInv, SomebodyManagesUsers, Manages, Active, Exists
<1>13. OldSessionsEnd'
  BY <1>2, <1>3, <1>4, <1>10 DEF AccountInv, OldSessionsEnd, Live, Issued
<1> QED
  BY <1>5, <1>6, <1>7, <1>9, <1>11, <1>12, <1>13 DEF AccountInv

LEMMA CommitPasswordKeeps ==
  ASSUME AccountInv, NEW w \in Workers, CommitPassword(w) PROVE AccountInv'
<1> DEFINE u == sess[w].user
           row == [users[u] EXCEPT !.hashed_password = passwords + 1]
           R == sess[w].targets
<1>1. Known(sess[w], users, refresh_tokens, oauth_accounts) /\ sess[w].op \in {"change", "reset"}
  BY DEF CommitPassword, AccountInv, SessionsKnow
<1>2. /\ u \in Users /\ Exists(u) /\ users[u] \in UserRows
      /\ \A r \in TokenIds : Issued(r) /\ refresh_tokens[r].user_id = u =>
           refresh_tokens[r].revoked_at \/ refresh_tokens[r].raced \/ r \in R
  <2>1. u \in Users /\ Exists(u)
    BY <1>1 DEF Known, Exists
  <2>2. \A r \in TokenIds : Issued(r) /\ refresh_tokens[r].user_id = u =>
           refresh_tokens[r].revoked_at \/ refresh_tokens[r].raced \/ r \in R
    BY <1>1 DEF Known, Issued
  <2> QED
    BY <2>1, <2>2 DEF AccountInv, AccountsTypeOK, Exists
<1>3. passwords + 1 \in Nat
  BY DEF AccountInv, AccountsTypeOK
<1>4. /\ row \in UserRows /\ row.email = users[u].email /\ row.role = users[u].role
      /\ row.is_active = users[u].is_active
  BY <1>2, <1>3 DEF UserRows
<1>5. /\ users' = [users EXCEPT ![u] = row] /\ passwords' \in Nat
      /\ refresh_tokens' = Revoked(R) /\ End(w)
      /\ UNCHANGED <<email_verifications, oauth_accounts, oauth_states, audit, forked, lapsed,
                     overlapped, requests>>
  BY <1>3 DEF CommitPassword
<1>6. /\ password_resets' \in [ResetIds -> Resets \cup {None}]
      /\ \A p \in ResetIds :
           /\ password_resets[p] # None <=> password_resets'[p] # None
           /\ password_resets[p] # None =>
                password_resets'[p].user_id = password_resets[p].user_id
  <2> DEFINE x == sess[w].reset
             used == [password_resets[x] EXCEPT !.used_at = TRUE]
  <2>1. CASE sess[w].op = "reset"
    <3>1. x \in ResetIds /\ password_resets[x] # None /\ password_resets[x] \in Resets
      BY <2>1 DEF AccountInv, AccountsTypeOK, RowsResolve
    <3>2. used \in Resets /\ used.user_id = password_resets[x].user_id
      BY <3>1 DEF Resets
    <3>3. used # None
      BY <3>2, AccountRows
    <3>4. password_resets' = [password_resets EXCEPT ![x] = used]
      BY <2>1 DEF CommitPassword
    <3> HIDE DEF used
    <3>5. password_resets \in [ResetIds -> Resets \cup {None}]
      BY DEF AccountInv, AccountsTypeOK
    <3> QED
      BY <3>1, <3>2, <3>3, <3>4, <3>5
  <2>2. CASE sess[w].op # "reset"
    BY <2>2 DEF CommitPassword, AccountInv, AccountsTypeOK
  <2> QED
    BY <2>1, <2>2
<1> HIDE DEF row, u, R
<1>7. /\ users' \in [Users -> UserRows \cup {None}]
      /\ users'[u] = row
      /\ \A v \in Users : v # u => users'[v] = users[v]
      /\ \A v \in Users : users'[v] # None <=> Exists(v)
      /\ UsersGrow
      /\ \A v, z \in Users : users'[v] # None /\ users'[z] # None /\ v # z =>
           users'[v].email # users'[z].email
  BY <1>2, <1>4, <1>5, RowWritten
<1>8. /\ SessionsGoOn /\ TokensGrow /\ NewTokensKnown /\ OneTokenPerFamily'
      /\ refresh_tokens' \in [TokenIds -> Tokens \cup {None}]
      /\ \A r \in TokenIds : refresh_tokens'[r] # None <=> Issued(r)
      /\ \A r \in TokenIds : Issued(r) =>
           (refresh_tokens'[r].revoked_at <=> refresh_tokens[r].revoked_at \/ r \in R)
  BY <1>5, EndGoesOn, RevokedRows, RevokedFamilies
<1>9. /\ LinksGrow /\ LinkedAddress'
      /\ \A s \in Subjects : oauth_accounts'[s] # None => users'[oauth_accounts'[s].user_id] # None
  BY <1>5, <1>7, SameLinks
<1>10. SessionsKnow'
  BY <1>7, <1>8, <1>9, OthersKnow
<1>11. RowsResolve'
  BY <1>5, <1>6, <1>7, <1>8, RowsKeep
<1>12. \A r \in TokenIds : refresh_tokens'[r] # None =>
         /\ refresh_tokens'[r].user_id = refresh_tokens[r].user_id
         /\ refresh_tokens[r].user_id \in Users /\ Exists(refresh_tokens[r].user_id)
  BY <1>8 DEF AccountInv, AccountsTypeOK, Issued, Tokens, TokensGrow
<1>13. AccountsTypeOK'
  BY <1>5, <1>6, <1>7, <1>8, <1>9, <1>12
  DEF AccountInv, AccountsTypeOK, SessionsGoOn, Exists, Issued
<1>14. SomebodyManagesUsers'
  BY <1>4, <1>5, <1>7 DEF AccountInv, SomebodyManagesUsers, Manages, Active, Exists
<1>15. OldSessionsEnd'
  <2> SUFFICES ASSUME NEW r \in TokenIds, refresh_tokens'[r] # None,
                      ~refresh_tokens'[r].revoked_at, ~refresh_tokens'[r].raced
               PROVE  refresh_tokens'[r].password = users'[refresh_tokens'[r].user_id].hashed_password
    BY DEF OldSessionsEnd, Live, Issued
  <2>1. Live(r) /\ r \notin R /\ ~refresh_tokens[r].raced
    BY <1>8 DEF Live, TokensGrow
  <2>2. refresh_tokens[r].user_id # u
    BY <1>2, <2>1 DEF Live
  <2> QED
    BY <1>7, <1>8, <1>12, <2>1, <2>2 DEF AccountInv, OldSessionsEnd, TokensGrow, Live
<1> QED
  BY <1>8, <1>9, <1>10, <1>11, <1>13, <1>14, <1>15 DEF AccountInv

LEMMA CommitUpdateKeeps ==
  ASSUME AccountInv, NEW w \in Workers, CommitUpdate(w) PROVE AccountInv'
<1> DEFINE u == sess[w].user
           actor == sess[w].actor
           row == Updated(w, users[u])
           entry == Audited(w)
<1>1. /\ sess[w].op = "update" /\ sess[w] \in Sessions
      /\ Known(sess[w], users, refresh_tokens, oauth_accounts)
  BY DEF CommitUpdate, AccountInv, AccountsTypeOK, SessionsKnow
<1>2. /\ u \in Users /\ Exists(u) /\ actor \in Users /\ Exists(actor)
      /\ u = actor => sess[w].new.role = sess[w].loaded.role /\ sess[w].loaded.is_active
  BY <1>1 DEF Known, Exists
<1>3. users[u] \in UserRows /\ audit[u] \in AuditRows
  BY <1>2 DEF AccountInv, AccountsTypeOK, Exists
<1>4. sess[w].new \in Settings /\ sess[w].loaded \in Settings /\ sess[w].started \in Nat
  BY <1>1 DEF Sessions
<1>5. /\ row \in UserRows /\ row.email = users[u].email
      /\ row.hashed_password = users[u].hashed_password
      /\ u = actor => row.role = users[u].role
      /\ u = actor /\ sess[w].new.is_active => row.is_active = users[u].is_active
  BY <1>2, <1>3, <1>4 DEF Updated, UserRows, Settings
<1>6. entry \in AuditRows
  <2> DEFINE role == Newest(w, sess[w].loaded.role, sess[w].new.role, audit[u].role_at)
             active == Newest(w, sess[w].loaded.is_active, sess[w].new.is_active,
                              audit[u].is_active_at)
  <2>1. entry = [role |-> IF role THEN sess[w].new.role ELSE audit[u].role,
                 role_at |-> IF role THEN sess[w].started ELSE audit[u].role_at,
                 is_active |-> IF active THEN sess[w].new.is_active ELSE audit[u].is_active,
                 is_active_at |-> IF active THEN sess[w].started ELSE audit[u].is_active_at]
    BY DEF Audited
  <2> HIDE DEF role, active, entry
  <2> QED
    BY <1>3, <1>4, <2>1 DEF AuditRows, Settings
<1>7. /\ users' = [users EXCEPT ![u] = row] /\ audit' = [audit EXCEPT ![u] = entry]
      /\ overlapped' \in {overlapped, overlapped \cup {u}} /\ End(w)
      /\ UNCHANGED <<refresh_tokens, password_resets, email_verifications, oauth_accounts,
                     oauth_states, passwords, forked, requests>>
  <2> HIDE DEF row, entry
  <2> QED
    BY DEF CommitUpdate, row, entry
<1>18. /\ lapsed' \in BOOLEAN
       /\ ~lapsed' => Manages(actor) /\ (u = actor => sess[w].new.is_active)
  BY DEF CommitUpdate
<1> HIDE DEF row, entry, u, actor
<1>8. /\ users' \in [Users -> UserRows \cup {None}]
      /\ users'[u] = row
      /\ \A v \in Users : v # u => users'[v] = users[v]
      /\ \A v \in Users : users'[v] # None <=> Exists(v)
      /\ UsersGrow
      /\ \A v, z \in Users : users'[v] # None /\ users'[z] # None /\ v # z =>
           users'[v].email # users'[z].email
  BY <1>2, <1>5, <1>7, RowWritten
<1>9. SessionsGoOn /\ TokensGrow /\ NewTokensKnown /\ OneTokenPerFamily'
  BY <1>7, EndGoesOn, SameTokens
<1>10. /\ LinksGrow /\ LinkedAddress'
       /\ \A s \in Subjects : oauth_accounts'[s] # None => users'[oauth_accounts'[s].user_id] # None
  BY <1>7, <1>8, SameLinks
<1>11. SessionsKnow' /\ RowsResolve'
  BY <1>7, <1>8, <1>9, <1>10, OthersKnow, RowsKeep
<1>12. audit' \in [Users -> AuditRows]
  BY <1>2, <1>6, <1>7 DEF AccountInv, AccountsTypeOK
<1>13. \A r \in TokenIds : Issued(r) => refresh_tokens[r].user_id \in Users
  BY DEF AccountInv, AccountsTypeOK, Issued, Tokens
<1>14. lapsed' \in BOOLEAN /\ overlapped' \subseteq Users
  BY <1>2, <1>7, <1>18 DEF AccountInv, AccountsTypeOK
<1>15. AccountsTypeOK'
  BY <1>7, <1>8, <1>9, <1>10, <1>12, <1>13, <1>14
  DEF AccountInv, AccountsTypeOK, SessionsGoOn, Exists, Issued
<1>16. SomebodyManagesUsers'
  <2> SUFFICES ASSUME ~lapsed' PROVE \E v \in Users : Manages(v)'
    BY DEF SomebodyManagesUsers
  <2>1. Manages(actor) /\ (u = actor => sess[w].new.is_active)
    BY <1>18
  <2>2. /\ users'[actor] # None /\ users'[actor].role = users[actor].role
        /\ users'[actor].is_active = users[actor].is_active
    BY <1>2, <1>5, <1>8, <2>1
  <2> QED
    BY <1>2, <2>1, <2>2 DEF Manages, Active, Exists
<1>17. OldSessionsEnd'
  BY <1>5, <1>7, <1>8, <1>13 DEF AccountInv, OldSessionsEnd, Live, Issued
<1> QED
  BY <1>9, <1>10, <1>11, <1>15, <1>16, <1>17 DEF AccountInv

\* u is registered with the address e and a first token r.
LEMMA RegisteredKeeps ==
  ASSUME AccountInv, NEW u \in Users, NEW e \in Emails, NEW r \in TokenIds, NEW p \in Nat,
         NEW verified \in BOOLEAN, ~Exists(u), EmailFree(e), ~Issued(r), SessionsGoOn,
         users' = [users EXCEPT ![u] = Customer(e, p, verified)],
         refresh_tokens' = [refresh_tokens EXCEPT ![r] = FirstToken(r, u, p, FALSE)],
         passwords' \in Nat, requests' \in Nat,
         email_verifications' = email_verifications
           \/ email_verifications' = [email_verifications EXCEPT ![u] = "sent"],
         oauth_accounts' \in [Subjects -> [user_id : Users, email : Emails] \cup {None}],
         LinksGrow,
         \A s \in Subjects : oauth_accounts'[s] # None =>
           oauth_accounts'[s] = oauth_accounts[s] \/ oauth_accounts'[s] = [user_id |-> u, email |-> e],
         UNCHANGED <<password_resets, oauth_states, audit, forked, lapsed, overlapped>>
  PROVE  AccountInv'
<1> DEFINE row == Customer(e, p, verified)
<1>1. /\ row \in UserRows /\ row.email = e /\ row.hashed_password = p
  BY DEF Customer, UserRows, Roles
<1>2. row # None
  BY <1>1, AccountNames
<1> HIDE DEF row
<1>3. users \in [Users -> UserRows \cup {None}]
  BY DEF AccountInv, AccountsTypeOK
<1>4. /\ users' \in [Users -> UserRows \cup {None}] /\ users'[u] = row
      /\ \A v \in Users : v # u => users'[v] = users[v]
  BY <1>1, <1>3 DEF row
<1>5. UsersGrow
  BY <1>4 DEF UsersGrow, Exists
<1>6. \A v, z \in Users : users'[v] # None /\ users'[z] # None /\ v # z =>
        users'[v].email # users'[z].email
  <2>1. \A v, z \in Users : Exists(v) /\ Exists(z) /\ v # z => users[v].email # users[z].email
    BY DEF AccountInv, AccountsTypeOK
  <2>2. \A v \in Users : Exists(v) => users[v].email # e
    BY DEF EmailFree
  <2> QED
    BY <1>1, <1>4, <2>1, <2>2 DEF Exists
<1>7. /\ refresh_tokens' \in [TokenIds -> Tokens \cup {None}]
      /\ refresh_tokens'[r] = FirstToken(r, u, p, FALSE)
      /\ refresh_tokens'[r] # None
      /\ \A q \in TokenIds : q # r => refresh_tokens'[q] = refresh_tokens[q]
      /\ TokensGrow
  BY FirstTokenRows
<1>8. /\ refresh_tokens'[r].user_id = u /\ refresh_tokens'[r].family_id = r
      /\ refresh_tokens'[r].password = p
  BY <1>7 DEF FirstToken
<1>9. \A v \in Workers : sess[v].op \in {"change", "reset"} => sess[v].user # u
  BY DEF AccountInv, SessionsKnow, Known, Exists
<1>10. NewTokensKnown
  BY <1>2, <1>4, <1>7, <1>8, <1>9 DEF NewTokensKnown, Issued
<1>11. SessionsKnow'
  BY <1>5, <1>7, <1>10, OthersKnow
<1>12. /\ email_verifications' \in [Users -> {"none", "sent", "used"}]
       /\ \A v \in Users : email_verifications'[v] # "none" =>
            email_verifications[v] # "none" \/ users'[v] # None
  BY <1>2, <1>4 DEF AccountInv, AccountsTypeOK
<1>13. RowsResolve'
  BY <1>5, <1>7, <1>10, <1>12, RowsKeep
<1>14. \A q \in TokenIds : Issued(q) =>
         /\ refresh_tokens[q].user_id \in Users /\ refresh_tokens[q].user_id # u
         /\ Exists(refresh_tokens[q].user_id)
  BY DEF AccountInv, AccountsTypeOK, Issued, Tokens
<1>15. \A s \in Subjects : oauth_accounts'[s] # None =>
         users'[oauth_accounts'[s].user_id] # None
         /\ users'[oauth_accounts'[s].user_id].email = oauth_accounts'[s].email
  <2> SUFFICES ASSUME NEW s \in Subjects, oauth_accounts'[s] # None
               PROVE  /\ users'[oauth_accounts'[s].user_id] # None
                      /\ users'[oauth_accounts'[s].user_id].email = oauth_accounts'[s].email
    OBVIOUS
  <2>1. CASE oauth_accounts'[s] = [user_id |-> u, email |-> e]
    BY <2>1, <1>1, <1>2, <1>4
  <2>2. CASE oauth_accounts'[s] = oauth_accounts[s]
    <3>1. /\ oauth_accounts[s].user_id \in Users /\ Exists(oauth_accounts[s].user_id)
          /\ users[oauth_accounts[s].user_id].email = oauth_accounts[s].email
      BY <2>2 DEF AccountInv, AccountsTypeOK, LinkedAddress
    <3> QED
      BY <2>2, <3>1, <1>5 DEF UsersGrow
  <2> QED
    BY <2>1, <2>2
<1>16. AccountsTypeOK'
  BY <1>2, <1>4, <1>5, <1>6, <1>7, <1>8, <1>12, <1>14, <1>15
  DEF AccountInv, AccountsTypeOK, SessionsGoOn, Exists, Issued, UsersGrow
<1>17. LinkedAddress'
  BY <1>15 DEF LinkedAddress
<1>18. SomebodyManagesUsers'
  BY <1>4 DEF AccountInv, SomebodyManagesUsers, Manages, Active, Exists
<1>19. OldSessionsEnd'
  BY <1>1, <1>4, <1>7, <1>8, <1>14 DEF AccountInv, OldSessionsEnd, Live, Issued
<1>20. OneTokenPerFamily'
  BY FirstTokenFamilies
<1> QED
  BY <1>11, <1>13, <1>16, <1>17, <1>18, <1>19, <1>20 DEF AccountInv

LEMMA RegisterKeeps ==
  ASSUME AccountInv, NEW u \in Users, NEW e \in Emails, NEW r \in TokenIds, Register(u, e, r)
  PROVE  AccountInv'
<1>1. passwords + 1 \in Nat /\ passwords' \in Nat /\ requests' \in Nat
  BY DEF Register, Request, AccountInv, AccountsTypeOK
<1>2. /\ SessionsGoOn /\ LinksGrow
      /\ oauth_accounts' \in [Subjects -> [user_id : Users, email : Emails] \cup {None}]
      /\ \A s \in Subjects : oauth_accounts'[s] = oauth_accounts[s]
  BY SameGoesOn DEF Register, LinksGrow, AccountInv, AccountsTypeOK
<1> QED
  BY <1>1, <1>2, RegisteredKeeps DEF Register

LEMMA GoogleRegisterKeeps ==
  ASSUME AccountInv, NEW w \in Workers, NEW i \in Identities, NEW u \in Users,
         NEW r \in TokenIds, GoogleRegister(w, i, u, r)
  PROVE  AccountInv'
<1>1. i.email \in Emails /\ i.email_verified \in BOOLEAN /\ i.subject \in Subjects
  BY IdentitiesAssumption DEF Subjects
<1>2. SessionsGoOn /\ passwords' \in Nat /\ requests' \in Nat
  BY EndGoesOn DEF GoogleRegister, history, AccountInv, AccountsTypeOK
<1>3. /\ oauth_accounts[i.subject] = None
      /\ oauth_accounts' = [oauth_accounts EXCEPT ![i.subject] = [user_id |-> u, email |-> i.email]]
      /\ oauth_accounts \in [Subjects -> [user_id : Users, email : Emails] \cup {None}]
  BY DEF GoogleRegister, Linked, AccountInv, AccountsTypeOK
<1>4. /\ LinksGrow
      /\ oauth_accounts' \in [Subjects -> [user_id : Users, email : Emails] \cup {None}]
      /\ \A s \in Subjects : oauth_accounts'[s] # None =>
           oauth_accounts'[s] = oauth_accounts[s]
             \/ oauth_accounts'[s] = [user_id |-> u, email |-> i.email]
  BY <1>1, <1>3 DEF LinksGrow
<1> QED
  BY <1>1, <1>2, <1>4, RegisteredKeeps DEF GoogleRegister, history

LEMMA LinkKeeps ==
  ASSUME AccountInv, NEW w \in Workers, NEW i \in Identities, link_google_account(w, i)
  PROVE  AccountInv'
<1> DEFINE u == sess[w].user
<1>1. u \in Users /\ Exists(u)
  <2>1. sess[w] \in Sessions /\ Known(sess[w], users, refresh_tokens, oauth_accounts)
    BY DEF AccountInv, AccountsTypeOK, SessionsKnow
  <2>2. sess[w].op = "exchange" /\ u # None
    BY DEF link_google_account
  <2>3. u \in Users \cup {None}
    BY <2>1 DEF Sessions
  <2> QED
    BY <2>1, <2>2, <2>3 DEF Known, Exists
<1>2. i.email \in Emails /\ i.subject \in Subjects
  BY IdentitiesAssumption DEF Subjects
<1>3. /\ i.email = users[u].email /\ oauth_accounts[i.subject] = None
      /\ oauth_accounts' = [oauth_accounts EXCEPT ![i.subject] = [user_id |-> u, email |-> i.email]]
      /\ oauth_accounts \in [Subjects -> [user_id : Users, email : Emails] \cup {None}]
      /\ UNCHANGED <<users, refresh_tokens, password_resets, email_verifications, oauth_states,
                     audit, passwords, forked, lapsed, overlapped, requests>>
      /\ SessionsGoOn
  BY EndGoesOn DEF link_google_account, Linked, history, AccountInv, AccountsTypeOK
<1> HIDE DEF u
<1>4. /\ oauth_accounts' \in [Subjects -> [user_id : Users, email : Emails] \cup {None}]
      /\ oauth_accounts'[i.subject] = [user_id |-> u, email |-> i.email]
      /\ \A s \in Subjects : s # i.subject => oauth_accounts'[s] = oauth_accounts[s]
  BY <1>1, <1>2, <1>3
<1>5. LinksGrow /\ UsersGrow /\ TokensGrow /\ NewTokensKnown /\ OneTokenPerFamily'
  BY <1>3, <1>4, SameTokens DEF LinksGrow, UsersGrow, Exists
<1>6. SessionsKnow' /\ RowsResolve'
  BY <1>3, <1>5, OthersKnow, RowsKeep
<1>7. \A s \in Subjects : oauth_accounts'[s] # None =>
        /\ users[oauth_accounts'[s].user_id] # None
        /\ users[oauth_accounts'[s].user_id].email = oauth_accounts'[s].email
  BY <1>1, <1>3, <1>4 DEF AccountInv, AccountsTypeOK, LinkedAddress, Exists
<1>8. AccountsTypeOK' /\ LinkedAddress'
  BY <1>3, <1>4, <1>7 DEF AccountInv, AccountsTypeOK, LinkedAddress, SessionsGoOn, Exists, Issued
<1>9. SomebodyManagesUsers' /\ OldSessionsEnd'
  BY <1>3 DEF AccountInv, SomebodyManagesUsers, Manages, Active, OldSessionsEnd, Live, Exists,
              Issued
<1> QED
  BY <1>5, <1>6, <1>8, <1>9 DEF AccountInv

LEMMA AccountStep == ASSUME AccountInv, [Next]_vars PROVE AccountInv'
<1>1. ASSUME NEW w \in Workers, Start(w) PROVE AccountInv'
  BY <1>1, LoginKeeps, ChangePasswordKeeps, RefreshKeeps, ReuseKeeps, ConfirmResetKeeps,
     CallbackKeeps, UpdateUserKeeps DEF Start
<1>2. ASSUME NEW w \in Workers, Step(w) PROVE AccountInv'
  BY <1>2, CommitLoginKeeps, CommitRotateKeeps, CommitRevokeKeeps, CommitPasswordKeeps,
     CommitUpdateKeeps, DeleteStateKeeps, GoogleLoginKeeps, GoogleRegisterKeeps, LinkKeeps,
     AbortKeeps DEF Step
<1>3. ASSUME Other PROVE AccountInv'
  BY <1>3, RegisterKeeps, LogoutKeeps, RequestResetKeeps, VerificationKeeps, StateStepsKeep
  DEF Other
<1> QED
  BY <1>1, <1>2, <1>3, StutterKeeps DEF Next

\* AccountInv holds in every state: what a request has loaded of rows it has
\* not locked is still good for what it commits, or the history says why not.
THEOREM AccountInvariantHolds == Spec => []AccountInv
<1>1. Init => AccountInv
  BY InitAccounts
<1>2. AccountInv /\ [Next]_vars => AccountInv'
  BY AccountStep
<1> QED
  BY <1>1, <1>2, PTL DEF Spec

\* The rows of auth/ and users/ have their types, addresses are unique
\* although register checks and inserts without a lock, and no token or
\* Google account refers to a user who does not exist.
THEOREM AccountTypesHold == Spec => []AccountsTypeOK
<1>1. AccountInv => AccountsTypeOK
  BY DEF AccountInv
<1> QED
  BY <1>1, AccountInvariantHolds, PTL

\* update_user refuses a change of one's own role, and so an active account
\* always has user.manage, unless an administrator deactivates himself or a
\* change is committed after its author lost user.manage.
THEOREM ManagersRemain == Spec => []SomebodyManagesUsers
<1>1. AccountInv => SomebodyManagesUsers
  BY DEF AccountInv
<1> QED
  BY <1>1, AccountInvariantHolds, PTL

\* login_or_register_google enters the account the Google account is linked
\* to, and link_google_account links one with the same address.
THEOREM GoogleHolds == Spec => []GoogleEntersItsOwn
<1>1. AccountInv => GoogleEntersItsOwn
  BY DEF AccountInv, LinkedAddress, SessionsKnow, Known, GoogleEntersItsOwn
<1> QED
  BY <1>1, AccountInvariantHolds, PTL

\* change_password and confirm_password_reset end the sessions of the old
\* password: only a token issued while they ran is left, and its successors.
THEOREM OldSessionsHold == Spec => []OldSessionsEnd
<1>1. AccountInv => OldSessionsEnd
  BY DEF AccountInv
<1> QED
  BY <1>1, AccountInvariantHolds, PTL

\* rotate_refresh_token leaves a family one live token, unless the token was
\* revoked between its read and the commit.
THEOREM FamiliesHold == Spec => []OneTokenPerFamily
<1>1. AccountInv => OneTokenPerFamily
  BY DEF AccountInv
<1> QED
  BY <1>1, AccountInvariantHolds, PTL

-----------------------------------------------------------------------------
(* The audit log.                                                          *)

\* An update of a user that is under way started after the newest rows about
\* him, or it overlaps one whose rows they are.
AuditInv ==
  /\ AuditAgrees
  /\ \A u \in Users : ~Exists(u) => audit[u] = NoRows(NoSettings)
  /\ \A u \in Users : audit[u].role_at <= requests /\ audit[u].is_active_at <= requests
  /\ \A w \in Workers : sess[w].op = "update" /\ sess[w].user \notin overlapped =>
       /\ audit[sess[w].user].role_at < sess[w].started
       /\ audit[sess[w].user].is_active_at < sess[w].started
  /\ \A w \in Workers : sess[w].op = "update" => sess[w].started <= requests

\* What every other step does: no role or activation changes, a new user is an
\* active customer, and an update begins as a new request.
AuditStep ==
  /\ UNCHANGED <<audit, overlapped>>
  /\ requests' \in {requests, requests + 1}
  /\ \A u \in Users : Exists(u) =>
       users'[u] # None /\ Setting(users'[u]) = Setting(users[u])
  /\ \A u \in Users : ~Exists(u) /\ users'[u] # None => Setting(users'[u]) = NoSettings
  /\ \A w \in Workers : sess'[w].op = "update" =>
       sess'[w] = sess[w] \/ (sess'[w].started = requests + 1 /\ requests' = requests + 1)

LEMMA NoRowsOf ==
  ASSUME NEW s
  PROVE  /\ NoRows(s).role = s.role /\ NoRows(s).role_at = 0
         /\ NoRows(s).is_active = s.is_active /\ NoRows(s).is_active_at = 0
BY DEF NoRows

LEMMA InitAudit == Init => AuditInv
<1> SUFFICES ASSUME Init PROVE AuditInv
  OBVIOUS
<1>1. \A u \in Users : audit[u] =
        NoRows(IF users[u] = None THEN NoSettings ELSE Setting(users[u]))
  BY DEF Init
<1>2. AuditAgrees
  <2> SUFFICES ASSUME NEW u \in Users, users[u] # None
               PROVE  audit[u].role = users[u].role /\ audit[u].is_active = users[u].is_active
    BY DEF AuditAgrees, Exists
  <2>1. audit[u] = NoRows(Setting(users[u]))
    BY <1>1
  <2> QED
    BY <2>1, NoRowsOf DEF Setting
<1>3. \A u \in Users : audit[u].role_at = 0 /\ audit[u].is_active_at = 0
  BY <1>1, NoRowsOf
<1>4. \A w \in Workers : sess[w].op = "idle"
  BY DEF Init, Idle
<1> QED
  BY <1>1, <1>2, <1>3, <1>4 DEF Init, AuditInv, Exists

LEMMA AuditKept ==
  ASSUME AccountInv, AccountInv', AuditInv, AuditStep PROVE AuditInv'
<1>1. /\ requests \in Nat /\ requests' \in Nat /\ requests <= requests'
      /\ \A u \in Users : audit[u].role_at \in Nat /\ audit[u].is_active_at \in Nat
      /\ \A w \in Workers : sess[w] \in Sessions
  BY DEF AccountInv, AccountsTypeOK, AuditRows, AuditStep
<1>2. AuditAgrees'
  <2> SUFFICES ASSUME NEW u \in Users, u \notin overlapped, users'[u] # None
               PROVE  audit[u].role = users'[u].role /\ audit[u].is_active = users'[u].is_active
    BY DEF AuditAgrees, AuditStep, Exists
  <2>1. CASE Exists(u)
    BY <2>1 DEF AuditInv, AuditAgrees, AuditStep, Setting
  <2>2. CASE ~Exists(u)
    <3>1. audit[u] = NoRows(NoSettings) /\ Setting(users'[u]) = NoSettings
      BY <2>2 DEF AuditInv, AuditStep
    <3> QED
      BY <3>1, NoRowsOf DEF NoSettings, Setting
  <2> QED
    BY <2>1, <2>2
<1>3. \A u \in Users : users'[u] = None => audit'[u] = NoRows(NoSettings)
  BY DEF AuditInv, AuditStep, Exists
<1>4. \A u \in Users : audit'[u].role_at <= requests' /\ audit'[u].is_active_at <= requests'
  BY <1>1 DEF AuditInv, AuditStep
<1>5. ASSUME NEW w \in Workers, sess'[w].op = "update"
      PROVE  /\ sess'[w].started <= requests'
             /\ sess'[w].user \notin overlapped' =>
                  /\ audit'[sess'[w].user].role_at < sess'[w].started
                  /\ audit'[sess'[w].user].is_active_at < sess'[w].started
  <2>1. CASE sess'[w] = sess[w]
    BY <1>1, <1>5, <2>1 DEF AuditInv, AuditStep, Sessions
  <2>2. CASE sess'[w].started = requests + 1 /\ requests' = requests + 1
    <3>1. sess'[w].user \in Users
      BY <1>5 DEF AccountInv, SessionsKnow, Known
    <3> QED
      BY <1>1, <2>2, <3>1 DEF AuditInv, AuditStep
  <2> QED
    BY <1>5, <2>1, <2>2 DEF AuditStep
<1> QED
  BY <1>2, <1>3, <1>4, <1>5 DEF AuditInv, Exists

\* w's session becomes s.
LEMMA SessionAudit ==
  ASSUME AccountInv, NEW w \in Workers, NEW s, sess' = [sess EXCEPT ![w] = s],
         UNCHANGED <<users, audit, overlapped>>, requests' \in {requests, requests + 1},
         s.op = "update" => s.started = requests + 1 /\ requests' = requests + 1
  PROVE  AuditStep
<1>1. sess'[w] = s /\ \A v \in Workers : v # w => sess'[v] = sess[v]
  BY DEF AccountInv, AccountsTypeOK
<1> QED
  BY <1>1 DEF AuditStep, Exists

LEMMA BeginAudit ==
  ASSUME AccountInv, NEW w \in Workers, NEW s, Begin(w, s),
         s.op = "update" => s.started = requests + 1
  PROVE  AuditStep
BY SessionAudit DEF Begin, Request, tables, history

\* Sessions go on or end, and users keep their roles and activations.
LEMMA QuietAudit ==
  ASSUME SessionsGoOn, UNCHANGED <<audit, overlapped>>, requests' \in {requests, requests + 1},
         \A u \in Users : Exists(u) =>
           users'[u] # None /\ Setting(users'[u]) = Setting(users[u]),
         \A u \in Users : ~Exists(u) /\ users'[u] # None => Setting(users'[u]) = NoSettings
  PROVE  AuditStep
<1>1. \A v \in Workers : sess'[v].op = "update" => sess'[v] = sess[v]
  BY DEF SessionsGoOn, Idle
<1> QED
  BY <1>1 DEF AuditStep

LEMMA RegisteredAudit ==
  ASSUME AccountInv, SessionsGoOn, UNCHANGED <<audit, overlapped>>,
         requests' \in {requests, requests + 1}, NEW u \in Users, ~Exists(u), NEW e, NEW p, NEW v,
         users' = [users EXCEPT ![u] = Customer(e, p, v)]
  PROVE  AuditStep
<1>1. /\ users'[u] = Customer(e, p, v)
      /\ \A z \in Users : z # u => users'[z] = users[z]
  BY DEF AccountInv, AccountsTypeOK
<1>2. Setting(Customer(e, p, v)) = NoSettings
  BY DEF Setting, Customer, NoSettings
<1> QED
  BY <1>1, <1>2, QuietAudit DEF Exists

\* A field of u's row that is neither his role nor his activation is set.
LEMMA FieldAudit ==
  ASSUME AccountInv, SessionsGoOn, UNCHANGED <<audit, overlapped>>,
         requests' \in {requests, requests + 1}, NEW u \in Users, Exists(u), NEW row \in UserRows,
         users' = [users EXCEPT ![u] = row], Setting(row) = Setting(users[u])
  PROVE  AuditStep
<1>1. /\ users'[u] = row /\ row # None
      /\ \A z \in Users : z # u => users'[z] = users[z]
  BY AccountNames DEF AccountInv, AccountsTypeOK
<1> QED
  BY <1>1, QuietAudit DEF Exists

LEMMA StartAudit ==
  ASSUME AccountInv, NEW w \in Workers, Start(w) PROVE AuditStep
<1>1. ASSUME NEW u \in Users, Login(w, u) PROVE AuditStep
  <2>1. [Idle EXCEPT !.op = "login", !.user = u,
                     !.password = users[u].hashed_password].op # "update"
    BY DEF Idle
  <2> QED
    BY <1>1, <2>1, BeginAudit DEF Login
<1>2. ASSUME NEW u \in Users, ChangePassword(w, u) PROVE AuditStep
  <2>1. [Idle EXCEPT !.op = "change", !.user = u, !.targets = LiveOfUser(u)].op # "update"
    BY DEF Idle
  <2> QED
    BY <1>2, <2>1, BeginAudit DEF ChangePassword
<1>3. ASSUME NEW r \in TokenIds, Refresh(w, r) PROVE AuditStep
  <2>1. [Idle EXCEPT !.op = "rotate", !.token = r, !.user = refresh_tokens[r].user_id,
           !.password = users[refresh_tokens[r].user_id].hashed_password].op # "update"
    BY DEF Idle
  <2> QED
    BY <1>3, <2>1, BeginAudit DEF Refresh
<1>4. ASSUME NEW r \in TokenIds, Reuse(w, r) PROVE AuditStep
  <2>1. [Idle EXCEPT !.op = "revoke",
                     !.targets = LiveOfFamily(refresh_tokens[r].family_id)].op # "update"
    BY DEF Idle
  <2> QED
    BY <1>4, <2>1, BeginAudit DEF Reuse
<1>5. ASSUME NEW p \in ResetIds, ConfirmReset(w, p) PROVE AuditStep
  <2>1. [Idle EXCEPT !.op = "reset", !.user = password_resets[p].user_id, !.reset = p,
                     !.targets = LiveOfUser(password_resets[p].user_id)].op # "update"
    BY DEF Idle
  <2> QED
    BY <1>5, <2>1, BeginAudit DEF ConfirmReset
<1>6. ASSUME NEW x \in StateIds, Callback(w, x) PROVE AuditStep
  <2>1. [Idle EXCEPT !.op = "callback", !.state = x,
                     !.user = oauth_states[x].user_id].op # "update"
    BY DEF Idle
  <2> QED
    BY <1>6, <2>1, SessionAudit DEF Callback, tables, history
<1>7. ASSUME NEW actor \in Users, NEW u \in Users, NEW data \in Changes,
             UpdateUser(w, actor, u, data)
      PROVE  AuditStep
  <2>1. [Idle EXCEPT !.op = "update", !.actor = actor, !.user = u,
                     !.loaded = Setting(users[u]), !.new = data,
                     !.started = requests + 1].started = requests + 1
    BY DEF Idle
  <2> QED
    BY <1>7, <2>1, BeginAudit DEF UpdateUser
<1> QED
  BY <1>1, <1>2, <1>3, <1>4, <1>5, <1>6, <1>7 DEF Start

\* A commit of w other than an update.
LEMMA StepAudit ==
  ASSUME AccountInv, NEW w \in Workers, Step(w), ~CommitUpdate(w) PROVE AuditStep
<1>1. ASSUME UNCHANGED <<users, audit, overlapped, requests>>, End(w) PROVE AuditStep
  BY <1>1, EndGoesOn, QuietAudit DEF Exists
<1>2. ASSUME NEW r \in TokenIds, CommitLogin(w, r) \/ CommitRotate(w, r) PROVE AuditStep
  BY <1>1, <1>2 DEF CommitLogin, CommitRotate, history
<1>3. CASE CommitRevoke(w)
  BY <1>1, <1>3 DEF CommitRevoke, history
<1>4. CASE CommitPassword(w)
  <2> DEFINE u == sess[w].user
             row == [users[u] EXCEPT !.hashed_password = passwords + 1]
  <2>1. u \in Users /\ Exists(u) /\ users[u] \in UserRows /\ passwords + 1 \in Nat
    BY <1>4 DEF CommitPassword, AccountInv, AccountsTypeOK, SessionsKnow, Known, Exists
  <2>2. row \in UserRows /\ Setting(row) = Setting(users[u])
    BY <2>1 DEF UserRows, Setting
  <2>3. users' = [users EXCEPT ![u] = row]
    BY <1>4, <2>1 DEF CommitPassword, AccountInv, AccountsTypeOK
  <2>4. SessionsGoOn /\ UNCHANGED <<audit, overlapped, requests>>
    BY <1>4, EndGoesOn DEF CommitPassword
  <2> HIDE DEF u, row
  <2> QED
    BY <2>1, <2>2, <2>3, <2>4, FieldAudit
<1>5. CASE DeleteState(w)
  <2>1. [sess[w] EXCEPT !.op = "exchange"].op # "update"
    BY DEF AccountInv, AccountsTypeOK, Sessions
  <2>2. sess' = [sess EXCEPT ![w] = [sess[w] EXCEPT !.op = "exchange"]]
    BY <1>5 DEF DeleteState, AccountInv, AccountsTypeOK
  <2> QED
    BY <1>5, <2>1, <2>2, SessionAudit DEF DeleteState, SetState, history
<1>6. ASSUME NEW i \in Identities, NEW u \in Users, GoogleLogin(w, i, u) PROVE AuditStep
  <2>1. [Idle EXCEPT !.op = "google", !.user = u, !.identity = i,
                     !.password = users[u].hashed_password].op # "update"
    BY DEF Idle
  <2> QED
    BY <1>6, <2>1, SessionAudit DEF GoogleLogin, tables, history
<1>7. ASSUME NEW i \in Identities, NEW u \in Users, NEW r \in TokenIds,
             GoogleRegister(w, i, u, r)
      PROVE  AuditStep
  BY <1>7, EndGoesOn, RegisteredAudit DEF GoogleRegister, history
<1>8. ASSUME NEW i \in Identities, link_google_account(w, i) PROVE AuditStep
  BY <1>1, <1>8 DEF link_google_account, history
<1>9. CASE Abort(w)
  BY <1>1, <1>9 DEF Abort, tables, history
<1> QED
  BY <1>2, <1>3, <1>4, <1>5, <1>6, <1>7, <1>8, <1>9 DEF Step

LEMMA OtherAudit == ASSUME AccountInv, Other PROVE AuditStep
<1>1. ASSUME UNCHANGED <<users, audit, overlapped, sess>>, requests' \in {requests, requests + 1}
      PROVE  AuditStep
  BY <1>1, SameGoesOn, QuietAudit DEF Exists
<1>2. ASSUME NEW u \in Users, NEW e \in Emails, NEW r \in TokenIds, Register(u, e, r)
      PROVE  AuditStep
  BY <1>2, SameGoesOn, RegisteredAudit DEF Register, Request
<1>3. ASSUME NEW r \in TokenIds, Logout(r) PROVE AuditStep
  BY <1>1, <1>3 DEF Logout, Request, history
<1>4. ASSUME NEW u \in Users, NEW p \in ResetIds, request_password_reset(u, p) PROVE AuditStep
  BY <1>1, <1>4 DEF request_password_reset, Request, history
<1>5. ASSUME NEW u \in Users, confirm_email_verification(u) PROVE AuditStep
  <2> DEFINE row == [users[u] EXCEPT !.is_verified = TRUE]
  <2>1. Exists(u) /\ users[u] \in UserRows
    BY <1>5 DEF confirm_email_verification, AccountInv, AccountsTypeOK, RowsResolve, Exists
  <2>2. row \in UserRows /\ Setting(row) = Setting(users[u])
    BY <2>1 DEF UserRows, Setting
  <2>3. users' = [users EXCEPT ![u] = row]
    BY <1>5 DEF confirm_email_verification, AccountInv, AccountsTypeOK
  <2>4. SessionsGoOn /\ UNCHANGED <<audit, overlapped>> /\ requests' \in {requests, requests + 1}
    BY <1>5, SameGoesOn DEF confirm_email_verification, Request, history
  <2> HIDE DEF row
  <2> QED
    BY <2>1, <2>2, <2>3, <2>4, FieldAudit
<1>6. ASSUME NEW x \in StateIds,
             google_login(x) \/ ExpireState(x) \/ \E u \in Users : google_link_start(x, u)
      PROVE  AuditStep
  BY <1>1, <1>6 DEF google_login, ExpireState, google_link_start, SetState, Request, history
<1> QED
  BY <1>2, <1>3, <1>4, <1>5, <1>6 DEF Other

\* An update that overlaps no other of its user has loaded his row as it
\* still is, and its rows become the newest.
LEMMA CommitUpdateAudit ==
  ASSUME AccountInv, AccountInv', AuditInv, NEW w \in Workers, CommitUpdate(w)
  PROVE  AuditInv'
<1> DEFINE u == sess[w].user
           row == Updated(w, users[u])
           entry == Audited(w)
<1>1. /\ sess[w].op = "update" /\ sess[w] \in Sessions /\ u \in Users /\ Exists(u)
      /\ users[u] \in UserRows /\ audit[u] \in AuditRows /\ requests \in Nat
      /\ sess[w].started \in Nat /\ sess[w].started <= requests
  BY DEF CommitUpdate, AccountInv, AccountsTypeOK, SessionsKnow, Known, Exists, Sessions, AuditInv
<1>2. /\ users'[u] = row /\ audit'[u] = entry
      /\ \A v \in Users : v # u => users'[v] = users[v] /\ audit'[v] = audit[v]
      /\ overlapped' = IF Overlaps(w) THEN overlapped \cup {u} ELSE overlapped
      /\ requests' = requests
      /\ sess'[w] = Idle /\ \A v \in Workers : v # w => sess'[v] = sess[v]
  BY <1>1 DEF CommitUpdate, End, AccountInv, AccountsTypeOK
<1>3. /\ entry.role_at \in {audit[u].role_at, sess[w].started}
      /\ entry.is_active_at \in {audit[u].is_active_at, sess[w].started}
  BY DEF Audited
<1>4. row # None
  <2>1. sess[w].new \in Settings
    BY <1>1 DEF Sessions
  <2>2. row \in UserRows
    BY <1>1, <2>1 DEF Updated, UserRows, Settings
  <2> QED
    BY <2>2, AccountNames
<1>5. ASSUME u \notin overlapped
      PROVE  entry.role = row.role /\ entry.is_active = row.is_active
  <2>1. /\ audit[u].role = users[u].role /\ audit[u].is_active = users[u].is_active
        /\ audit[u].role_at < sess[w].started /\ audit[u].is_active_at < sess[w].started
    BY <1>1, <1>5 DEF AuditInv, AuditAgrees
  <2>2. /\ row.role = IF sess[w].new.role = sess[w].loaded.role THEN users[u].role
                      ELSE sess[w].new.role
        /\ row.is_active = IF sess[w].new.is_active = sess[w].loaded.is_active
                           THEN users[u].is_active ELSE sess[w].new.is_active
    BY <1>1 DEF Updated, UserRows
  <2>3. /\ entry.role = IF sess[w].new.role # sess[w].loaded.role THEN sess[w].new.role
                        ELSE audit[u].role
        /\ entry.is_active = IF sess[w].new.is_active # sess[w].loaded.is_active
                             THEN sess[w].new.is_active ELSE audit[u].is_active
    BY <1>1, <2>1 DEF Audited, Newest, AuditRows
  <2> HIDE DEF row, entry, u
  <2> QED
    BY <2>1, <2>2, <2>3
<1> HIDE DEF row, entry, u
<1>6. AuditAgrees'
  BY <1>1, <1>2, <1>5 DEF AuditInv, AuditAgrees, Exists
<1>7. \A v \in Users : users'[v] = None => audit'[v] = NoRows(NoSettings)
  BY <1>1, <1>2, <1>4 DEF AuditInv, Exists
<1>8. \A v \in Users : audit'[v].role_at <= requests' /\ audit'[v].is_active_at <= requests'
  BY <1>1, <1>2, <1>3 DEF AuditInv
<1>9. ASSUME NEW v \in Workers, sess'[v].op = "update"
      PROVE  /\ sess'[v].started <= requests'
             /\ sess'[v].user \notin overlapped' =>
                  /\ audit'[sess'[v].user].role_at < sess'[v].started
                  /\ audit'[sess'[v].user].is_active_at < sess'[v].started
  <2>1. v # w /\ sess'[v] = sess[v]
    BY <1>2, <1>9 DEF Idle
  <2>2. sess[v].user \in Users
    BY <1>9, <2>1 DEF AccountInv, SessionsKnow, Known
  <2>3. CASE sess[v].user = u
    BY <1>2, <1>9, <2>1, <2>3 DEF Overlaps, AuditInv, u
  <2>4. CASE sess[v].user # u
    BY <1>2, <1>9, <2>1, <2>2, <2>4 DEF AuditInv
  <2> QED
    BY <2>3, <2>4
<1> QED
  BY <1>6, <1>7, <1>8, <1>9 DEF AuditInv, Exists

\* update_user and write_audit_log are one transaction, whose start is the
\* row's created_at: the newest rows about a user say what role and activation
\* he has, unless two updates of him have overlapped.
THEOREM AuditHolds == Spec => []AuditAgrees
<1>1. Init => AuditInv
  BY InitAudit
<1>2. AccountInv /\ AccountInv' /\ AuditInv /\ [Next]_vars => AuditInv'
  <2> SUFFICES ASSUME AccountInv, AccountInv', AuditInv, [Next]_vars PROVE AuditInv'
    OBVIOUS
  <2>1. ASSUME NEW w \in Workers, Start(w) PROVE AuditInv'
    BY <2>1, StartAudit, AuditKept
  <2>2. ASSUME NEW w \in Workers, Step(w) PROVE AuditInv'
    BY <2>2, StepAudit, CommitUpdateAudit, AuditKept
  <2>3. CASE Other
    BY <2>3, OtherAudit, AuditKept
  <2>4. CASE UNCHANGED vars
    BY <2>4 DEF AuditInv, AuditAgrees, vars, tables, history, Exists
  <2> QED
    BY <2>1, <2>2, <2>3, <2>4 DEF Next
<1>3. AuditInv => AuditAgrees
  BY DEF AuditInv
<1> QED
  BY <1>1, <1>2, <1>3, AccountInvariantHolds, PTL DEF Spec

-----------------------------------------------------------------------------
(* Families.                                                               *)

\* What a step does to the families: tokens stay in theirs and stay revoked,
\* a new token begins a family or goes on with the one being rotated, and a
\* new rotation has a live token.
FamilyStep ==
  /\ \A r \in TokenIds : Issued(r) =>
       /\ refresh_tokens'[r] # None
       /\ refresh_tokens'[r].family_id = refresh_tokens[r].family_id
       /\ refresh_tokens[r].revoked_at => refresh_tokens'[r].revoked_at
  /\ \A r \in TokenIds : ~Issued(r) /\ refresh_tokens'[r] # None =>
       \/ refresh_tokens'[r].family_id = r
       \/ \E w \in Workers :
            /\ sess[w].op = "rotate"
            /\ refresh_tokens'[r].family_id = refresh_tokens[sess[w].token].family_id
  /\ \A w \in Workers : sess'[w].op = "rotate" =>
       \/ sess'[w] = sess[w]
       \/ sess'[w].token \in TokenIds /\ Live(sess'[w].token)

LEMMA DeadKept ==
  ASSUME AccountInv, FamilyStep, NEW f \in TokenIds, Dead(f) PROVE Dead(f)'
<1>1. \A r \in TokenIds : Live(r) => refresh_tokens[r].family_id # f
  BY DEF Dead, LiveOfFamily
<1>2. refresh_tokens'[f] # None
  BY DEF Dead, FamilyStep
<1>3. \A r \in TokenIds : refresh_tokens'[r] # None /\ ~refresh_tokens'[r].revoked_at =>
        refresh_tokens'[r].family_id # f
  BY <1>1 DEF FamilyStep, Dead, Live
<1>4. ASSUME NEW w \in Workers, sess'[w].op = "rotate"
      PROVE  refresh_tokens'[sess'[w].token].family_id # f
  <2>1. CASE sess'[w] = sess[w]
    <3>1. sess[w].token \in TokenIds /\ Issued(sess[w].token)
      BY <1>4, <2>1 DEF AccountInv, SessionsKnow, Known, Issued
    <3> QED
      BY <1>4, <2>1, <3>1 DEF Dead, FamilyStep
  <2>2. CASE sess'[w].token \in TokenIds /\ Live(sess'[w].token)
    BY <1>1, <2>2 DEF FamilyStep, Live
  <2> QED
    BY <1>4, <2>1, <2>2 DEF FamilyStep
<1> QED
  BY <1>2, <1>3, <1>4 DEF Dead, LiveOfFamily, Live, Issued

\* The tokens stay as they are, and w's session becomes s.
LEMMA SessionFamilies ==
  ASSUME AccountInv, NEW w \in Workers, NEW s, UNCHANGED refresh_tokens,
         sess' = [sess EXCEPT ![w] = s],
         s.op = "rotate" => s.token \in TokenIds /\ Live(s.token)
  PROVE  FamilyStep
<1>1. sess'[w] = s /\ \A v \in Workers : v # w => sess'[v] = sess[v]
  BY DEF AccountInv, AccountsTypeOK
<1> QED
  BY <1>1 DEF FamilyStep, Issued

\* Sessions go on, and no token is new.
LEMMA GrowthFamilies ==
  ASSUME SessionsGoOn, TokensGrow,
         \A r \in TokenIds : ~Issued(r) /\ refresh_tokens'[r] # None =>
           refresh_tokens'[r].family_id = r
  PROVE  FamilyStep
<1>1. \A v \in Workers : sess'[v].op = "rotate" => sess'[v] = sess[v]
  BY DEF SessionsGoOn, Idle
<1> QED
  BY <1>1 DEF FamilyStep, TokensGrow

LEMMA StartFamilies ==
  ASSUME AccountInv, NEW w \in Workers, Start(w) PROVE FamilyStep
<1>1. ASSUME NEW s, Begin(w, s), s.op = "rotate" => s.token \in TokenIds /\ Live(s.token)
      PROVE  FamilyStep
  BY <1>1, SessionFamilies DEF Begin, tables
<1>2. ASSUME NEW u \in Users, Login(w, u) PROVE FamilyStep
  <2>1. [Idle EXCEPT !.op = "login", !.user = u,
                     !.password = users[u].hashed_password].op # "rotate"
    BY DEF Idle
  <2> QED
    BY <1>1, <1>2, <2>1 DEF Login
<1>3. ASSUME NEW u \in Users, ChangePassword(w, u) PROVE FamilyStep
  <2>1. [Idle EXCEPT !.op = "change", !.user = u, !.targets = LiveOfUser(u)].op # "rotate"
    BY DEF Idle
  <2> QED
    BY <1>1, <1>3, <2>1 DEF ChangePassword
<1>4. ASSUME NEW r \in TokenIds, Refresh(w, r) PROVE FamilyStep
  <2>1. [Idle EXCEPT !.op = "rotate", !.token = r, !.user = refresh_tokens[r].user_id,
           !.password = users[refresh_tokens[r].user_id].hashed_password].token = r
    BY DEF Idle
  <2> QED
    BY <1>1, <1>4, <2>1 DEF Refresh, Usable
<1>5. ASSUME NEW r \in TokenIds, Reuse(w, r) PROVE FamilyStep
  <2>1. [Idle EXCEPT !.op = "revoke",
                     !.targets = LiveOfFamily(refresh_tokens[r].family_id)].op # "rotate"
    BY DEF Idle
  <2> QED
    BY <1>1, <1>5, <2>1 DEF Reuse
<1>6. ASSUME NEW p \in ResetIds, ConfirmReset(w, p) PROVE FamilyStep
  <2>1. [Idle EXCEPT !.op = "reset", !.user = password_resets[p].user_id, !.reset = p,
                     !.targets = LiveOfUser(password_resets[p].user_id)].op # "rotate"
    BY DEF Idle
  <2> QED
    BY <1>1, <1>6, <2>1 DEF ConfirmReset
<1>7. ASSUME NEW x \in StateIds, Callback(w, x) PROVE FamilyStep
  <2>1. [Idle EXCEPT !.op = "callback", !.state = x,
                     !.user = oauth_states[x].user_id].op # "rotate"
    BY DEF Idle
  <2> QED
    BY <1>7, <2>1, SessionFamilies DEF Callback, tables
<1>8. ASSUME NEW actor \in Users, NEW u \in Users, NEW data \in Changes,
             UpdateUser(w, actor, u, data)
      PROVE  FamilyStep
  <2>1. [Idle EXCEPT !.op = "update", !.actor = actor, !.user = u,
                     !.loaded = Setting(users[u]), !.new = data,
                     !.started = requests + 1].op # "rotate"
    BY DEF Idle
  <2> QED
    BY <1>1, <1>8, <2>1 DEF UpdateUser
<1> QED
  BY <1>2, <1>3, <1>4, <1>5, <1>6, <1>7, <1>8 DEF Start

LEMMA FirstFamilies ==
  ASSUME AccountInv, SessionsGoOn, NEW r \in TokenIds, NEW u, NEW p, NEW c, ~Issued(r),
         refresh_tokens' = [refresh_tokens EXCEPT ![r] = FirstToken(r, u, p, c)]
  PROVE  FamilyStep
<1>1. FirstToken(r, u, p, c).family_id = r
  BY DEF FirstToken
<1>2. /\ refresh_tokens'[r] = FirstToken(r, u, p, c)
      /\ \A q \in TokenIds : q # r => refresh_tokens'[q] = refresh_tokens[q]
  BY DEF AccountInv, AccountsTypeOK
<1>3. TokensGrow
  BY <1>2 DEF TokensGrow, Issued
<1> QED
  BY <1>1, <1>2, <1>3, GrowthFamilies DEF Issued

LEMMA RotateFamilies ==
  ASSUME AccountInv, NEW w \in Workers, NEW n \in TokenIds, CommitRotate(w, n) PROVE FamilyStep
<1> DEFINE t == sess[w].token
           stored == refresh_tokens[t]
           spent == [stored EXCEPT !.revoked_at = TRUE, !.replaced_by_id = n]
           c == stored.raced \/ PasswordChanging(w, stored.user_id)
           next == [FirstToken(n, stored.user_id, stored.password, c)
                      EXCEPT !.family_id = stored.family_id]
<1>1. sess[w].op = "rotate" /\ Known(sess[w], users, refresh_tokens, oauth_accounts)
  BY DEF CommitRotate, AccountInv, SessionsKnow
<1>2. t \in TokenIds /\ stored # None /\ stored \in Tokens
  BY <1>1 DEF Known, AccountInv, AccountsTypeOK
<1>3. /\ ~Issued(n) /\ SessionsGoOn /\ n # t
      /\ refresh_tokens' = [refresh_tokens EXCEPT ![t] = spent, ![n] = next]
  BY <1>2, EndGoesOn DEF CommitRotate, Rotated, Issued
<1>4. next.family_id = stored.family_id
  BY DEF FirstToken
<1>5. spent \in Tokens /\ spent.family_id = stored.family_id /\ spent.revoked_at = TRUE
  BY <1>2 DEF Tokens
<1>6. spent # None
  BY <1>5, AccountRows
<1> HIDE DEF spent, next
<1>7. /\ refresh_tokens'[t] = spent /\ refresh_tokens'[n] = next
      /\ \A q \in TokenIds : q # t /\ q # n => refresh_tokens'[q] = refresh_tokens[q]
  BY <1>2, <1>3 DEF AccountInv, AccountsTypeOK
<1>8. \A v \in Workers : sess'[v].op = "rotate" => sess'[v] = sess[v]
  BY <1>3 DEF SessionsGoOn, Idle
<1>9. \A r \in TokenIds : Issued(r) =>
        /\ refresh_tokens'[r] # None
        /\ refresh_tokens'[r].family_id = refresh_tokens[r].family_id
        /\ refresh_tokens[r].revoked_at => refresh_tokens'[r].revoked_at
  BY <1>3, <1>5, <1>6, <1>7 DEF Issued
<1>10. \A r \in TokenIds : ~Issued(r) /\ refresh_tokens'[r] # None =>
         \E v \in Workers :
           /\ sess[v].op = "rotate"
           /\ refresh_tokens'[r].family_id = refresh_tokens[sess[v].token].family_id
  BY <1>1, <1>2, <1>4, <1>7 DEF Issued
<1> QED
  BY <1>8, <1>9, <1>10 DEF FamilyStep

LEMMA RevokeFamilies ==
  ASSUME AccountInv, SessionsGoOn, NEW R, refresh_tokens' = Revoked(R) PROVE FamilyStep
BY RevokedRows, GrowthFamilies

LEMMA QuietFamilies ==
  ASSUME AccountInv, SessionsGoOn, UNCHANGED refresh_tokens PROVE FamilyStep
<1>1. TokensGrow
  BY SameTokens
<1> QED
  BY <1>1, GrowthFamilies DEF Issued

LEMMA StepFamilies ==
  ASSUME AccountInv, NEW w \in Workers, Step(w) PROVE FamilyStep
<1>1. ASSUME NEW r \in TokenIds, CommitLogin(w, r) PROVE FamilyStep
  BY <1>1, EndGoesOn, FirstFamilies DEF CommitLogin
<1>2. ASSUME NEW r \in TokenIds, CommitRotate(w, r) PROVE FamilyStep
  BY <1>2, RotateFamilies
<1>3. CASE CommitRevoke(w)
  BY <1>3, EndGoesOn, RevokeFamilies DEF CommitRevoke
<1>4. CASE CommitPassword(w)
  BY <1>4, EndGoesOn, RevokeFamilies DEF CommitPassword
<1>5. CASE CommitUpdate(w)
  BY <1>5, EndGoesOn, QuietFamilies DEF CommitUpdate
<1>6. CASE DeleteState(w)
  <2>1. [sess[w] EXCEPT !.op = "exchange"].op # "rotate"
    BY DEF AccountInv, AccountsTypeOK, Sessions
  <2>2. sess' = [sess EXCEPT ![w] = [sess[w] EXCEPT !.op = "exchange"]]
    BY <1>6 DEF DeleteState, AccountInv, AccountsTypeOK
  <2> QED
    BY <1>6, <2>1, <2>2, SessionFamilies DEF DeleteState, SetState
<1>7. ASSUME NEW i \in Identities, NEW u \in Users, GoogleLogin(w, i, u) PROVE FamilyStep
  <2>1. [Idle EXCEPT !.op = "google", !.user = u, !.identity = i,
                     !.password = users[u].hashed_password].op # "rotate"
    BY DEF Idle
  <2> QED
    BY <1>7, <2>1, SessionFamilies DEF GoogleLogin, tables
<1>8. ASSUME NEW i \in Identities, NEW u \in Users, NEW r \in TokenIds,
             GoogleRegister(w, i, u, r)
      PROVE  FamilyStep
  BY <1>8, EndGoesOn, FirstFamilies DEF GoogleRegister
<1>9. ASSUME NEW i \in Identities, link_google_account(w, i) PROVE FamilyStep
  BY <1>9, EndGoesOn, QuietFamilies DEF link_google_account
<1>10. CASE Abort(w)
  BY <1>10, EndGoesOn, QuietFamilies DEF Abort, tables
<1> QED
  BY <1>1, <1>2, <1>3, <1>4, <1>5, <1>6, <1>7, <1>8, <1>9, <1>10 DEF Step

LEMMA OtherFamilies == ASSUME AccountInv, Other PROVE FamilyStep
<1>1. ASSUME UNCHANGED sess, UNCHANGED refresh_tokens PROVE FamilyStep
  BY <1>1, SameGoesOn, QuietFamilies
<1>2. ASSUME NEW u \in Users, NEW e \in Emails, NEW r \in TokenIds, Register(u, e, r)
      PROVE  FamilyStep
  BY <1>2, SameGoesOn, FirstFamilies DEF Register
<1>3. ASSUME NEW r \in TokenIds, Logout(r) PROVE FamilyStep
  BY <1>3, SameGoesOn, RevokeFamilies DEF Logout
<1>4. ASSUME NEW u \in Users, NEW p \in ResetIds, request_password_reset(u, p) PROVE FamilyStep
  BY <1>1, <1>4 DEF request_password_reset
<1>5. ASSUME NEW u \in Users, confirm_email_verification(u) PROVE FamilyStep
  BY <1>1, <1>5 DEF confirm_email_verification
<1>6. ASSUME NEW x \in StateIds,
             google_login(x) \/ ExpireState(x) \/ \E u \in Users : google_link_start(x, u)
      PROVE  FamilyStep
  BY <1>1, <1>6 DEF google_login, ExpireState, google_link_start, SetState
<1> QED
  BY <1>2, <1>3, <1>4, <1>5, <1>6 DEF Other

\* No step of any request resumes a family that a logout, the reuse of a
\* token or a new password has ended, once the rotations that had loaded one
\* of its tokens are over.
THEOREM DeadHolds == Spec => DeadFamiliesStayDead
<1>1. AccountInv /\ [Next]_vars => [\A f \in TokenIds : Dead(f) => Dead(f)']_vars
  <2> SUFFICES ASSUME AccountInv, Next, NEW f \in TokenIds, Dead(f) PROVE Dead(f)'
    OBVIOUS
  <2>1. FamilyStep
    BY StartFamilies, StepFamilies, OtherFamilies DEF Next
  <2> QED
    BY <2>1, DeadKept
<1> QED
  BY <1>1, AccountInvariantHolds, PTL DEF Spec, DeadFamiliesStayDead
=============================================================================
