------------------------------ MODULE Accounts ------------------------------
(***************************************************************************)
(* The User Service's accounts and sessions: the users and refresh_tokens  *)
(* tables, the events enqueued in the outbox, and the requests that change *)
(* them (services/user-service/src/services/auth-service.ts and            *)
(* user-service.ts over their repositories).                               *)
(*                                                                         *)
(* A request reads, awaits, and then commits one transaction or statement: *)
(* what it read may be stale by then.  A transaction is one step, and an   *)
(* in-flight request may end without committing at any moment.             *)
(***************************************************************************)
EXTENDS Integers, Sequences, FiniteSets

CONSTANTS
  Users,         \* user ids: randomUUID(), so each is registered at most once
  Emails,        \* normalised addresses
  Names,
  Requests,      \* requests that may be in flight at the same time
  MaxTokens,     \* bound: refresh tokens issued in one behaviour
  MaxBegun       \* bound: requests begun in one behaviour

ASSUME UserAssumption  == Users # {} /\ Emails # {} /\ Names # {}
ASSUME BoundAssumption == MaxTokens \in Nat /\ MaxBegun \in Nat

Tokens  == 1..MaxTokens
NoToken == 0

VARIABLES
  \* users
  status,    \* [Users -> {"absent", "active", "deleted"}]
  email, name,
  password,  \* [Users -> Nat]: which password the hash is of
  \* refresh_tokens, with history fields (from, family, password)
  token,
  issued,    \* tokens issued so far
  \* the rows of outbox_events, in commit order
  ledger,
  \* the service
  req,       \* what each request in flight is about to do, and what it read
  \* history and bounds
  ended,     \* families whose end some revokeAllForUser has reported
  begun

accountVars == <<status, email, name, password>>
sessionVars == <<token, issued, ended>>
vars == <<accountVars, sessionVars, ledger, req, begun>>

-----------------------------------------------------------------------------
(* A refresh_tokens row.  `from` is the token it was rotated from, `family` *)
(* the first of its chain, `password` the one its chain was signed in with. *)
TokenRow == [state : {"none", "live", "revoked"}, user : Users, expired : BOOLEAN,
             replacedBy : Nat, from : Nat, family : Nat, password : Nat]

NoRow == [state |-> "none", user |-> CHOOSE u \in Users : TRUE, expired |-> FALSE,
          replacedBy |-> NoToken, from |-> NoToken, family |-> 0, password |-> 0]

Event == [type : {"registered", "updated", "password_changed", "deleted"},
          user : Users, email : Emails, name : Names]

Idle    == [at |-> "idle"]
Request == {Idle}
  \cup [at : {"issue"}, user : Users, password : Nat]
  \cup [at : {"findUser", "rotate", "revoke"}, token : Tokens]
  \cup [at : {"revokeAll"}, user : Users]
  \cup [at : {"update"}, user : Users, email : Emails, name : Names,
        changed : SUBSET {"email", "name"}]
  \cup [at : {"password", "delete"}, user : Users, email : Emails, name : Names]

TypeOK ==
  /\ status   \in [Users -> {"absent", "active", "deleted"}]
  /\ email    \in [Users -> Emails]
  /\ name     \in [Users -> Names]
  /\ password \in [Users -> Nat]
  /\ token    \in [Tokens -> TokenRow]
  /\ issued   \in 0..MaxTokens
  /\ ledger   \in Seq(Event)
  /\ req      \in [Requests -> Request]
  /\ ended    \subseteq Nat
  /\ begun    \in 0..MaxBegun

Init ==
  /\ status   = [u \in Users |-> "absent"]
  /\ email    = [u \in Users |-> CHOOSE e \in Emails : TRUE]
  /\ name     = [u \in Users |-> CHOOSE n \in Names : TRUE]
  /\ password = [u \in Users |-> 0]
  /\ token    = [t \in Tokens |-> NoRow]
  /\ issued = 0 /\ ended = {} /\ begun = 0
  /\ ledger = <<>>
  /\ req = [r \in Requests |-> Idle]

-----------------------------------------------------------------------------
(* The tables.                                                              *)

(* The UNIQUE index on users.email.                                         *)
EmailUnchecked(u, e) == TRUE
EmailFree(u, e) == \A v \in Users \ {u} : status[v] = "active" => email[v] # e

(* The foreign key of refresh_tokens.user_id, which SQLite enforces only    *)
(* with the foreign_keys pragma on.                                         *)
KeyUnchecked(u) == TRUE
KeyHolds(u) == status[u] = "active"

Emit(type, u, e, n) ==
  ledger' = Append(ledger, [type |-> type, user |-> u, email |-> e, name |-> n])

NewToken(u, from, family, pw) ==
  [state |-> "live", user |-> u, expired |-> FALSE, replacedBy |-> NoToken,
   from |-> from, family |-> family, password |-> pw]

(* revoke(): whatever the row says now; no row, no effect.                  *)
Revoked(row, by) ==
  IF row.state = "none" THEN row ELSE [row EXCEPT !.state = "revoked", !.replacedBy = by]

(* revokeAllForUser(): the rows that are live at this moment.               *)
RevokeAll(u) ==
  /\ token' = [t \in Tokens |->
       IF token[t].user = u /\ token[t].state = "live"
       THEN [token[t] EXCEPT !.state = "revoked"] ELSE token[t]]
  /\ ended' = ended \cup {token[t].family : t \in {s \in Tokens :
                            token[s].user = u /\ token[s].state # "none"}}

Begin(r, what) ==
  /\ req[r] = Idle /\ begun < MaxBegun
  /\ req' = [req EXCEPT ![r] = what]
  /\ begun' = begun + 1
  /\ UNCHANGED <<accountVars, sessionVars, ledger>>

End(r) == req' = [req EXCEPT ![r] = Idle] /\ UNCHANGED begun

-----------------------------------------------------------------------------
(* AuthService.                                                             *)

(* register(): hashing touches no state, so the request is one transaction; *)
(* an address in use rolls it back.                                         *)
Register(u, e, n) ==
  /\ status[u] = "absent" /\ EmailFree(u, e)
  /\ begun < MaxBegun /\ issued < MaxTokens
  /\ begun'    = begun + 1
  /\ status'   = [status EXCEPT ![u] = "active"]
  /\ email'    = [email EXCEPT ![u] = e]
  /\ name'     = [name EXCEPT ![u] = n]
  /\ password' = [password EXCEPT ![u] = Len(ledger) + 1]
  /\ Emit("registered", u, e, n)
  /\ issued'   = issued + 1
  /\ token'    = [token EXCEPT ![issued + 1] =
                    NewToken(u, NoToken, issued + 1, Len(ledger) + 1)]
  /\ UNCHANGED <<req, ended>>

(* login(): the password matches the hash found with the address.           *)
Login(r, u) ==
  /\ status[u] = "active"
  /\ Begin(r, [at |-> "issue", user |-> u, password |-> password[u]])

LoginIssue(r) ==
  /\ req[r].at = "issue" /\ issued < MaxTokens
  /\ LET u == req[r].user IN
       IF KeyHolds(u)
       THEN /\ issued' = issued + 1
            /\ token' = [token EXCEPT ![issued + 1] =
                           NewToken(u, NoToken, issued + 1, req[r].password)]
       ELSE UNCHANGED <<token, issued>>
  /\ End(r)
  /\ UNCHANGED <<accountVars, ended, ledger>>

(* refresh(): the row found decides.  An expired token is refused and       *)
(* nothing changes.                                                         *)
ReuseAccepted(t) == [at |-> "findUser", token |-> t]
RevokesByTokenId(t) ==
  IF token[t].state = "revoked" THEN [at |-> "revokeAll", user |-> t]
                                ELSE [at |-> "findUser", token |-> t]
AfterLookup(t) ==
  IF token[t].state = "revoked" THEN [at |-> "revokeAll", user |-> token[t].user]
                                ELSE [at |-> "findUser", token |-> t]
Refresh(r, t) ==
  /\ token[t].state # "none"
  /\ ~(token[t].state = "live" /\ token[t].expired)
  /\ Begin(r, AfterLookup(t))

FindUser(r) ==
  /\ req[r].at = "findUser"
  /\ LET t == req[r].token IN
       req' = [req EXCEPT ![r] =
         [at |-> IF status[token[t].user] = "active" THEN "rotate" ELSE "revoke", token |-> t]]
  /\ UNCHANGED <<accountVars, sessionVars, ledger, begun>>

(* The rotation's transaction.                                              *)
RotateKeepsOld(r) ==
  /\ req[r].at = "rotate" /\ issued < MaxTokens
  /\ issued' = issued + 1
  /\ LET t == req[r].token IN
       token' = [token EXCEPT ![issued + 1] =
                   NewToken(token[t].user, t, token[t].family, token[t].password)]
  /\ End(r)
  /\ UNCHANGED <<accountVars, ended, ledger>>
Rotate(r) ==
  /\ req[r].at = "rotate" /\ issued < MaxTokens
  /\ LET t == req[r].token IN
       IF KeyHolds(token[t].user)
       THEN /\ issued' = issued + 1
            /\ token' = [token EXCEPT
                 ![issued + 1] = NewToken(token[t].user, t, token[t].family, token[t].password),
                 ![t] = Revoked(token[t], issued + 1)]
       ELSE UNCHANGED <<token, issued>>
  /\ End(r)
  /\ UNCHANGED <<accountVars, ended, ledger>>

(* logout(): any known token will do, a revoked or expired one included.    *)
Logout(r, t) ==
  /\ token[t].state # "none"
  /\ \/ Begin(r, [at |-> "revoke", token |-> t])
     \/ Begin(r, [at |-> "revokeAll", user |-> token[t].user])

(* The last step of logout, and of a refresh whose user is gone.            *)
RevokeOne(r) ==
  /\ req[r].at = "revoke"
  /\ token' = [token EXCEPT ![req[r].token] = Revoked(@, NoToken)]
  /\ End(r)
  /\ UNCHANGED <<accountVars, issued, ended, ledger>>

(* The last step of a logout of all sessions, and of a refresh with a       *)
(* token that was already revoked.                                          *)
RevokeSessions(r) ==
  /\ req[r].at = "revokeAll"
  /\ RevokeAll(req[r].user)
  /\ End(r)
  /\ UNCHANGED <<accountVars, issued, ledger>>

(* expires_at passes.                                                       *)
Expire(t) ==
  /\ token[t].state = "live" /\ ~token[t].expired
  /\ token' = [token EXCEPT ![t].expired = TRUE]
  /\ UNCHANGED <<accountVars, issued, ended, ledger, req, begun>>

-----------------------------------------------------------------------------
(* UserManagementService.                                                   *)

(* updateProfile(): which fields differ is decided on the row as read, and  *)
(* a request that changes none returns at once.                             *)
Changed(u, e, n) == {f \in {"email", "name"} : \/ f = "email" /\ e # email[u]
                                               \/ f = "name"  /\ n # name[u]}
UpdateAnyway(r, u, e, n) ==
  /\ status[u] = "active"
  /\ Begin(r, [at |-> "update", user |-> u, email |-> e, name |-> n,
               changed |-> Changed(u, e, n)])
Update(r, u, e, n) ==
  /\ status[u] = "active"
  /\ Changed(u, e, n) # {}
  /\ Begin(r, [at |-> "update", user |-> u, email |-> e, name |-> n,
               changed |-> Changed(u, e, n)])

(* Its transaction: only the changed columns are written, the event carries *)
(* the row as it reads afterwards; a row that is gone or an address in use  *)
(* rolls back.                                                              *)
UpdateEmitsRequest(r) ==
  /\ req[r].at = "update"
  /\ LET q == req[r]
         u == q.user
         e == IF "email" \in q.changed THEN q.email ELSE email[u]
         n == IF "name"  \in q.changed THEN q.name  ELSE name[u]
     IN IF status[u] = "active" /\ EmailFree(u, e)
        THEN /\ email' = [email EXCEPT ![u] = e]
             /\ name'  = [name EXCEPT ![u] = n]
             /\ Emit("updated", u, q.email, q.name)
        ELSE UNCHANGED <<email, name, ledger>>
  /\ End(r)
  /\ UNCHANGED <<status, password, sessionVars>>
UpdateCommit(r) ==
  /\ req[r].at = "update"
  /\ LET q == req[r]
         u == q.user
         e == IF "email" \in q.changed THEN q.email ELSE email[u]
         n == IF "name"  \in q.changed THEN q.name  ELSE name[u]
     IN IF status[u] = "active" /\ EmailFree(u, e)
        THEN /\ email' = [email EXCEPT ![u] = e]
             /\ name'  = [name EXCEPT ![u] = n]
             /\ Emit("updated", u, e, n)
        ELSE UNCHANGED <<email, name, ledger>>
  /\ End(r)
  /\ UNCHANGED <<status, password, sessionVars>>

(* changePassword(): the current password matches the hash as read.         *)
ChangePasswordUnchecked(r, u) ==
  Begin(r, [at |-> "password", user |-> u, email |-> email[u], name |-> name[u]])
ChangePassword(r, u) ==
  /\ status[u] = "active"
  /\ Begin(r, [at |-> "password", user |-> u, email |-> email[u], name |-> name[u]])

(* Its transaction does not look whether the row is still there.            *)
PasswordCommitKeepsSessions(r) ==
  /\ req[r].at = "password"
  /\ LET q == req[r] IN
       /\ IF status[q.user] = "active"
          THEN password' = [password EXCEPT ![q.user] = Len(ledger) + 1]
          ELSE UNCHANGED password
       /\ Emit("password_changed", q.user, q.email, q.name)
  /\ End(r)
  /\ UNCHANGED <<status, email, name, sessionVars>>
PasswordCommitKeepsHash(r) ==
  /\ req[r].at = "password"
  /\ LET q == req[r] IN
       /\ RevokeAll(q.user)
       /\ Emit("password_changed", q.user, q.email, q.name)
  /\ End(r)
  /\ UNCHANGED <<accountVars, issued>>
PasswordCommit(r) ==
  /\ req[r].at = "password"
  /\ LET q == req[r] IN
       /\ IF status[q.user] = "active"
          THEN password' = [password EXCEPT ![q.user] = Len(ledger) + 1]
          ELSE UNCHANGED password
       /\ RevokeAll(q.user)
       /\ Emit("password_changed", q.user, q.email, q.name)
  /\ End(r)
  /\ UNCHANGED <<status, email, name, issued>>

DeleteAccount(r, u) ==
  /\ status[u] = "active"
  /\ Begin(r, [at |-> "delete", user |-> u, email |-> email[u], name |-> name[u]])

(* Its transaction: the refresh tokens go by cascade, and a row that is     *)
(* gone already rolls the event back.                                       *)
DeleteCommit(r) ==
  /\ req[r].at = "delete"
  /\ LET q == req[r] IN
       IF status[q.user] = "active"
       THEN /\ Emit("deleted", q.user, q.email, q.name)
            /\ status' = [status EXCEPT ![q.user] = "deleted"]
            /\ token' = [t \in Tokens |->
                 IF token[t].user = q.user THEN [token[t] EXCEPT !.state = "none"] ELSE token[t]]
       ELSE UNCHANGED <<status, token, ledger>>
  /\ End(r)
  /\ UNCHANGED <<email, name, password, issued, ended>>

-----------------------------------------------------------------------------
(* The process dies, or a statement throws, before the commit.              *)
Abort(r) ==
  /\ req[r] # Idle
  /\ End(r)
  /\ UNCHANGED <<accountVars, sessionVars, ledger>>

Commit(r) == \/ LoginIssue(r) \/ FindUser(r) \/ Rotate(r) \/ RevokeOne(r) \/ RevokeSessions(r)
             \/ UpdateCommit(r) \/ PasswordCommit(r) \/ DeleteCommit(r)

Next ==
  \/ \E u \in Users, e \in Emails, n \in Names :
       Register(u, e, n) \/ \E r \in Requests : Update(r, u, e, n)
  \/ \E r \in Requests, u \in Users : Login(r, u) \/ ChangePassword(r, u) \/ DeleteAccount(r, u)
  \/ \E r \in Requests, t \in Tokens : Refresh(r, t) \/ Logout(r, t)
  \/ \E r \in Requests : Commit(r) \/ Abort(r)
  \/ \E t \in Tokens : Expire(t)

Spec == Init /\ [][Next]_vars

-----------------------------------------------------------------------------
(* Properties.                                                              *)

Live(t) == token[t].state = "live"
EventsOf(u, types) == {i \in DOMAIN ledger : ledger[i].user = u /\ ledger[i].type \in types}
Emitted(type) == Len(ledger') > Len(ledger) /\ ledger'[Len(ledger')].type = type

(* Two accounts never share an address, although registrations and profile  *)
(* updates decide on rows they read earlier (user-repository.ts:116-124).   *)
UniqueEmails ==
  \A u, v \in Users : status[u] = "active" /\ status[v] = "active" /\ email[u] = email[v] => u = v

(* The outbox alone tells what is in the users table: an account has one    *)
(* 'registered' event and, once gone, one 'deleted'; and its latest profile *)
(* event carries the name and address of its row, whichever requests        *)
(* interleaved (auth-service.ts:103-104, user-service.ts:20-24).            *)
LedgerMirrorsUsers ==
  \A u \in Users :
    /\ Cardinality(EventsOf(u, {"registered"})) = IF status[u] = "absent" THEN 0 ELSE 1
    /\ Cardinality(EventsOf(u, {"deleted"}))    = IF status[u] = "deleted" THEN 1 ELSE 0
    /\ status[u] # "absent" =>
         \E i \in EventsOf(u, {"registered", "updated"}) :
           /\ \A j \in EventsOf(u, {"registered", "updated"}) : j <= i
           /\ ledger[i].email = email[u] /\ ledger[i].name = name[u]

(* A rotated token stays consumed: issuing its successor and revoking it    *)
(* are one step, and nothing brings it back (auth-service.ts:240-242).      *)
ConsumedIsRevoked == \A s \in Tokens :
  token[s].state # "none" /\ token[s].from \in Tokens => ~Live(token[s].from)

(* No refresh token outlives its account, not even one a login or a         *)
(* rotation was about to issue while the account was deleted                *)
(* (user-service.ts:217-218).                                               *)
NoOrphanSessions == \A t \in Tokens : token[t].state # "none" => status[token[t].user] = "active"

(* Rotation never leaves two live tokens of one session                     *)
(* (auth-service.ts:240-242).                                               *)
OneLivePerFamily ==
  \A s, t \in Tokens : Live(s) /\ Live(t) /\ token[s].family = token[t].family => s = t

(* Once every session of a user was revoked, none of them comes back to     *)
(* life through a later rotation (docs/api.md:236).                         *)
EndedStaysEnded == \A t \in Tokens : Live(t) => token[t].family \notin ended

(* A live session goes back to a sign-in with the present password: the     *)
(* change of a password ends the sessions before it (docs/api.md:273).      *)
SessionsMatchPassword ==
  \A t \in Tokens : Live(t) => token[t].password = password[token[t].user]

(* A user.updated event stands for a change of the row, never for an update *)
(* that changed nothing (user-service.ts:64-65).                            *)
UpdatesChange ==
  [][Emitted("updated") => <<email, name>>' # <<email, name>>]_vars

(* A user.password_changed event is committed together with a new password  *)
(* of the account it names (user-service.ts:20-24).                         *)
PasswordEventsChange ==
  [][Emitted("password_changed") => password' # password]_vars
=============================================================================
