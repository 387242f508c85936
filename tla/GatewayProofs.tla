---------------------------- MODULE GatewayProofs ----------------------------
(* Proofs about Gateway, for any number of calls, accounts, addresses,      *)
(* passwords and tokens.                                                    *)
EXTENDS Gateway, AccountsProofs

-----------------------------------------------------------------------------
(* What calls ask and services reply.                                       *)

(* The fields of a call, by its operation.                                  *)
LEMMA AskFields ==
  ASSUME NEW q \in Ask
  PROVE  /\ q.bearer = Anonymous \/ (q.bearer.user \in Users /\ q.bearer.role \in {"user", "admin"})
         /\ q.op \in {"register", "login", "update"} => q.email \in Emails
         /\ q.op \in {"login", "password"} => q.password \in Passwords
         /\ q.op \in {"refresh", "logout"} => q.token \in Tokens
         /\ q.op \in {"update", "password", "delete", "me", "notifications", "user", "byEvent"} =>
              q.bearer.user \in Users
         /\ q.op \in Sessions \cup AccountViews \cup HistoryViews \cup
                     {"update", "password", "delete"}
  BY DEF Ask, Bearer, Anonymous, Admin, Sessions, AccountViews, HistoryViews

(* A guard denies with one of two statuses.                                 *)
LEMMA DenialType ==
  ASSUME NEW level, NEW bearer, NEW live
  PROVE  Denial(level, bearer, live) \subseteq {"401", "403"}
  BY DEF Denial

(* A handler's last reply is one of six.                                    *)
LEMMA OutcomeType ==
  ASSUME NEW c
  PROVE  Outcome(c) \in {"200", "204", "401", "404", "409", "500"}
  BY DEF Outcome

(* The statuses.                                                            *)
LEMMA Codes ==
  /\ Refusals \cap Success = {} /\ "503" \notin Replies /\ "lost" \notin Replies
  /\ "500" \in Replies /\ "500" \notin Refusals /\ "500" \notin Success
  /\ Replies \cap {"none", "arrived", "working", "unsent", "forwarded"} = {}
  BY DEF Replies, Refusals, Success

(* A handler replies at once, registers, or begins a request; what it       *)
(* begins with belongs to the call.                                         *)
Begins(c, what) ==
  /\ Begin(c, what)
  /\ what.at = "issue" => call[c].op = "login"
  /\ what.at \in {"findUser", "rotate"} =>
       /\ call[c].op = "refresh" /\ what.token = call[c].token
       /\ token[what.token].state = "live"
  /\ what.at \in {"revoke", "revokeAll"} => call[c].op \in {"refresh", "logout"}
  /\ what.at \in {"update", "password", "delete"} =>
       /\ call[c].op = what.at /\ what.user = Self(c) /\ status[Self(c)] = "active"
  /\ what.at = "update" => what.email = call[c].email /\ what.changed = {"email"}
                           /\ call[c].email # email[Self(c)]
  /\ what.at = "password" => password[Self(c)] = call[c].password
  /\ what \in Request /\ what # Idle

(* Operations whose success is a change.                                    *)
Changing == {"register", "login", "refresh", "password", "delete"}

AnswersAtOnce(c) ==
  \E code \in Replies : RepliesAtOnce(c, code) /\ (code \in Success => call[c].op \notin Changing)

Registers(c) ==
  /\ call[c].op = "register"
  /\ \E u \in Users, n \in Names :
       /\ Register(u, call[c].email, n) /\ TakesEffect(c)
       /\ Reply(c, "201") \/ Reply(c, "500")

(* There are no other first steps.                                          *)
LEMMA TakeKinds ==
  ASSUME GatewayTypeOK, NEW c \in Calls, Take(c)
  PROVE  /\ Takes(c) /\ call[c] \in Ask
         /\ \/ AnswersAtOnce(c)
            \/ Registers(c)
            \/ GoesOn(c) /\ \E what : Begins(c, what)
<1>1. call[c] \in Ask \/ call[c] = NoCall
  BY DEF GatewayTypeOK
<1>2. call[c] \in Ask
  BY <1>1 DEF Take, TakeRegister, TakeLogin, TakeRefresh, TakeLogout, TakeUpdate, TakePassword,
     TakeDelete, TakeReadAccounts, TakeReadHistory, NoCall, AccountViews, HistoryViews
<1>3. Takes(c)
  BY DEF Take, TakeRegister, TakeLogin, TakeRefresh, TakeLogout, TakeUpdate, TakePassword,
     TakeDelete, TakeReadAccounts, TakeReadHistory
<1>4. TypeOK
  BY DEF GatewayTypeOK
<1>5. \A code \in {"200", "204", "401", "403", "404", "409"} : code \in Replies
  BY DEF Replies, Refusals, Success
<1>6. \A code \in {"401", "403", "404", "409"} : code \notin Success
  BY DEF Success
<1>7. CASE TakeRegister(c)
  <2>1. call[c].op = "register"
    BY <1>7 DEF TakeRegister
  <2>2. CASE RepliesAtOnce(c, "409")
    BY <1>2, <1>3, <1>5, <1>6, <2>2 DEF AnswersAtOnce
  <2>. QED
    BY <1>2, <1>3, <1>7, <2>1, <2>2 DEF TakeRegister, Registers
<1>8. CASE TakeLogin(c)
  <2>1. call[c].op = "login"
    BY <1>8 DEF TakeLogin
  <2>2. CASE RepliesAtOnce(c, "401")
    BY <1>2, <1>3, <1>5, <1>6, <2>2 DEF AnswersAtOnce
  <2>3. ASSUME NEW u \in Users, Login(c, u), GoesOn(c) PROVE \E what : Begins(c, what)
    <3>1. PICK what : what = [at |-> "issue", user |-> u, password |-> password[u]]
      OBVIOUS
    <3>2. Begin(c, what) /\ what \in Request /\ what # Idle
      BY <1>4, <2>3, <3>1 DEF Login, Request, Idle, TypeOK
    <3>. QED
      BY <2>1, <3>1, <3>2 DEF Begins
  <2>. QED
    BY <1>2, <1>3, <1>8, <2>2, <2>3 DEF TakeLogin
<1>9. CASE TakeRefresh(c)
  <2>1. call[c].op = "refresh" /\ call[c].token \in Tokens
    BY <1>2, <1>9, AskFields DEF TakeRefresh
  <2>2. CASE RepliesAtOnce(c, "401")
    BY <1>2, <1>3, <1>5, <1>6, <2>2 DEF AnswersAtOnce
  <2>3. ASSUME Refresh(c, call[c].token), GoesOn(c) PROVE \E what : Begins(c, what)
    <3>1. PICK t : t = call[c].token
      OBVIOUS
    <3>2. PICK what : what = AfterLookup(t)
      OBVIOUS
    <3>3. Begin(c, what) /\ token[t].state # "none" /\ token[t] \in TokenRow /\ t \in Tokens
      BY <1>4, <2>1, <2>3, <3>1, <3>2, RowFields DEF Refresh
    <3>4. CASE token[t].state = "revoked"
      <4>1. what = [at |-> "revokeAll", user |-> token[t].user] /\ token[t].user \in Users
        BY <1>4, <3>2, <3>3, <3>4, RowFields DEF AfterLookup
      <4>2. what \in Request /\ what # Idle /\ what.at = "revokeAll"
        BY <4>1 DEF Request, Idle
      <4>. QED
        BY <2>1, <3>3, <4>2 DEF Begins
    <3>5. CASE token[t].state = "live"
      <4>1. what = [at |-> "findUser", token |-> t]
        BY <3>2, <3>5 DEF AfterLookup
      <4>2. what \in Request /\ what # Idle /\ what.at = "findUser" /\ what.token = t
        BY <3>3, <4>1 DEF Request, Idle
      <4>. QED
        BY <2>1, <3>1, <3>3, <3>5, <4>2 DEF Begins
    <3>. QED
      BY <3>3, <3>4, <3>5 DEF TokenRow
  <2>. QED
    BY <1>2, <1>3, <1>9, <2>2, <2>3 DEF TakeRefresh
<1>10. CASE TakeLogout(c)
  <2>1. call[c].op = "logout" /\ call[c].token \in Tokens
    BY <1>2, <1>10, AskFields DEF TakeLogout
  <2>2. CASE RepliesAtOnce(c, "204")
    BY <1>2, <1>3, <1>5, <2>1, <2>2 DEF AnswersAtOnce, Changing
  <2>3. ASSUME Logout(c, call[c].token), GoesOn(c) PROVE \E what : Begins(c, what)
    <3>1. PICK t : t = call[c].token
      OBVIOUS
    <3>2. t \in Tokens /\ token[t].user \in Users
      BY <1>4, <2>1, <3>1, RowFields
    <3>3. PICK what : /\ Begin(c, what)
                      /\ \/ what = [at |-> "revoke", token |-> t]
                         \/ what = [at |-> "revokeAll", user |-> token[t].user]
      BY <2>3, <3>1 DEF Logout
    <3>4. what \in Request /\ what # Idle /\ what.at \in {"revoke", "revokeAll"}
      BY <3>2, <3>3 DEF Request, Idle
    <3>. QED
      BY <2>1, <3>3, <3>4 DEF Begins
  <2>. QED
    BY <1>2, <1>3, <1>10, <2>2, <2>3 DEF TakeLogout
<1>11. CASE TakeUpdate(c)
  <2>1. call[c].op = "update" /\ call[c].email \in Emails /\ Self(c) \in Users
    BY <1>2, <1>11, AskFields DEF TakeUpdate, Self
  <2>2. CASE RepliesAtOnce(c, "200") \/ RepliesAtOnce(c, "404")
    BY <1>2, <1>3, <1>5, <2>1, <2>2 DEF AnswersAtOnce, Changing
  <2>3. ASSUME Update(c, Self(c), call[c].email, name[Self(c)]), GoesOn(c)
        PROVE  \E what : Begins(c, what)
    <3>1. PICK u : u = Self(c)
      OBVIOUS
    <3>2. PICK ch : ch = Changed(u, call[c].email, name[u])
      OBVIOUS
    <3>3. PICK what : what = [at |-> "update", user |-> u, email |-> call[c].email,
                              name |-> name[u], changed |-> ch]
      OBVIOUS
    <3>4. Begin(c, what) /\ ch # {} /\ status[u] = "active"
      BY <2>3, <3>1, <3>2, <3>3 DEF Update
    <3>5. ch = {"email"} /\ call[c].email # email[u]
      BY <3>2, <3>4 DEF Changed
    <3>6. what \in Request /\ what # Idle
      BY <1>4, <2>1, <3>1, <3>3, <3>5 DEF Request, Idle, TypeOK
    <3>. QED
      BY <2>1, <3>1, <3>3, <3>4, <3>5, <3>6 DEF Begins
  <2>. QED
    BY <1>2, <1>3, <1>11, <2>2, <2>3 DEF TakeUpdate
<1>12. CASE TakePassword(c)
  <2>1. call[c].op = "password" /\ Self(c) \in Users
    BY <1>2, <1>12, AskFields DEF TakePassword, Self
  <2>2. CASE RepliesAtOnce(c, "403") \/ RepliesAtOnce(c, "404")
    BY <1>2, <1>3, <1>5, <1>6, <2>2 DEF AnswersAtOnce
  <2>3. ASSUME password[Self(c)] = call[c].password, ChangePassword(c, Self(c)), GoesOn(c)
        PROVE  \E what : Begins(c, what)
    <3>1. PICK u : u = Self(c)
      OBVIOUS
    <3>2. PICK what : what = [at |-> "password", user |-> u, email |-> email[u], name |-> name[u]]
      OBVIOUS
    <3>3. Begin(c, what) /\ status[u] = "active"
      BY <2>3, <3>1, <3>2 DEF ChangePassword
    <3>4. what \in Request /\ what # Idle
      BY <1>4, <2>1, <3>1, <3>2 DEF Request, Idle, TypeOK
    <3>. QED
      BY <2>1, <2>3, <3>1, <3>2, <3>3, <3>4 DEF Begins
  <2>. QED
    BY <1>2, <1>3, <1>12, <2>2, <2>3 DEF TakePassword
<1>13. CASE TakeDelete(c)
  <2>1. call[c].op = "delete" /\ Self(c) \in Users
    BY <1>2, <1>13, AskFields DEF TakeDelete, Self
  <2>2. CASE RepliesAtOnce(c, "404")
    BY <1>2, <1>3, <1>5, <1>6, <2>2 DEF AnswersAtOnce
  <2>3. ASSUME DeleteAccount(c, Self(c)), GoesOn(c) PROVE \E what : Begins(c, what)
    <3>1. PICK u : u = Self(c)
      OBVIOUS
    <3>2. PICK what : what = [at |-> "delete", user |-> u, email |-> email[u], name |-> name[u]]
      OBVIOUS
    <3>3. Begin(c, what) /\ status[u] = "active"
      BY <2>3, <3>1, <3>2 DEF DeleteAccount
    <3>4. what \in Request /\ what # Idle
      BY <1>4, <2>1, <3>1, <3>2 DEF Request, Idle, TypeOK
    <3>. QED
      BY <2>1, <3>1, <3>2, <3>3, <3>4 DEF Begins
  <2>. QED
    BY <1>2, <1>3, <1>13, <2>2, <2>3 DEF TakeDelete
<1>14. CASE TakeReadAccounts(c) \/ TakeReadHistory(c)
  <2>1. call[c].op \notin Changing
    BY <1>14 DEF TakeReadAccounts, TakeReadHistory, AccountViews, HistoryViews, Changing
  <2>2. \E code \in {"200", "404"} : RepliesAtOnce(c, code)
    BY <1>14 DEF TakeReadAccounts, TakeReadHistory
  <2>. QED
    BY <1>2, <1>3, <1>5, <2>1, <2>2 DEF AnswersAtOnce
<1>. QED
  BY <1>7, <1>8, <1>9, <1>10, <1>11, <1>12, <1>13, <1>14 DEF Take

-----------------------------------------------------------------------------
(* The gateway works on the accounts through their requests.                *)

(* Every step of the gateway is a step of the accounts, or none of theirs.  *)
LEMMA AccountStep == GatewayTypeOK /\ [GatewayNext]_gatewayVars => [Next]_vars
<1>. SUFFICES ASSUME GatewayTypeOK, [GatewayNext]_gatewayVars PROVE [Next]_vars
  OBVIOUS
<1>1. CASE UNCHANGED gatewayVars
  BY <1>1 DEF gatewayVars
<1>2. ASSUME NEW c \in Calls, Take(c) PROVE [Next]_vars
  <2>1. call[c] \in Ask /\ c \in Requests /\ TypeOK
    BY <1>2, TakeKinds, CallAssumption DEF GatewayTypeOK
  <2>2. PICK q \in Ask : q = call[c]
    BY <2>1
  <2>3. \/ \E u \in Users, e \in Emails, n \in Names : Register(u, e, n) \/ Update(c, u, e, n)
        \/ \E u \in Users : Login(c, u) \/ ChangePassword(c, u) \/ DeleteAccount(c, u)
        \/ \E t \in Tokens : Refresh(c, t) \/ Logout(c, t)
        \/ UNCHANGED vars
    <3>1. CASE TakeRegister(c)
      BY <2>2, <3>1, AskFields DEF TakeRegister, RepliesAtOnce
    <3>2. CASE TakeLogin(c)
      BY <3>2 DEF TakeLogin, RepliesAtOnce
    <3>3. CASE TakeRefresh(c) \/ TakeLogout(c)
      BY <2>2, <3>3, AskFields DEF TakeRefresh, TakeLogout, RepliesAtOnce
    <3>4. CASE TakeUpdate(c)
      <4>1. Self(c) \in Users /\ call[c].email \in Emails
        BY <2>2, <3>4, AskFields DEF TakeUpdate, Self
      <4>2. name[Self(c)] \in Names
        BY <2>1, <4>1 DEF TypeOK
      <4>. QED
        BY <3>4, <4>1, <4>2 DEF TakeUpdate, RepliesAtOnce
    <3>5. CASE TakePassword(c) \/ TakeDelete(c)
      <4>1. Self(c) \in Users
        BY <2>2, <3>5, AskFields DEF TakePassword, TakeDelete, Self
      <4>. QED
        BY <3>5, <4>1 DEF TakePassword, TakeDelete, RepliesAtOnce
    <3>6. CASE TakeReadAccounts(c) \/ TakeReadHistory(c)
      BY <3>6 DEF TakeReadAccounts, TakeReadHistory, RepliesAtOnce
    <3>. QED
      BY <1>2, <3>1, <3>2, <3>3, <3>4, <3>5, <3>6 DEF Take
  <2>. QED
    BY <2>1, <2>3 DEF Next
<1>3. ASSUME NEW c \in Calls, Works(c) \/ Throws(c) \/ Loses(c) \/ TakeFails(c) PROVE [Next]_vars
  BY <1>3, CallAssumption DEF Works, Throws, Loses, TakeFails, RepliesAtOnce, Next
<1>. QED
  BY <1>1, <1>2, <1>3 DEF GatewayNext, Service, EdgeRefuses, Forwards, Relay, UpstreamFails,
     TokenExpires, Rejects

-----------------------------------------------------------------------------
(* What a step of the accounts may do.                                      *)

(* Nothing is taken from the ledger, a row changes only with an event, and  *)
(* no token comes to life but a new one.                                    *)
LEMMA StepEffects ==
  ASSUME TypeOK, [Next]_vars
  PROVE  /\ Len(ledger) \in Nat /\ Len(ledger') \in Nat /\ Len(ledger) <= Len(ledger')
         /\ UNCHANGED ledger => UNCHANGED accountVars
         /\ issued' = issued =>
              \A t \in Tokens : token'[t].state = "live" => token[t].state = "live"
<1>. USE DEF accountVars, sessionVars
<1>0. Len(ledger) \in Nat /\ issued \in Nat /\ \A t \in Tokens : token[t] \in TokenRow
  BY DEF TypeOK
<1>1. ASSUME NEW u \in Users, NEW e \in Emails, NEW n \in Names,
             NEW type \in {"registered", "updated", "password_changed", "deleted"},
             Emit(type, u, e, n)
      PROVE  Len(ledger') = Len(ledger) + 1 /\ ledger' # ledger
  <2>1. [type |-> type, user |-> u, email |-> e, name |-> n] \in Event /\ ledger \in Seq(Event)
    BY DEF Event, TypeOK
  <2>2. Len(ledger') = Len(ledger) + 1
    BY <1>1, <2>1, AppendProperties DEF Emit
  <2>. QED
    BY <1>0, <2>2
<1>2. ASSUME NEW u \in Users, NEW e \in Emails, NEW n \in Names, Register(u, e, n)
      PROVE  Len(ledger') = Len(ledger) + 1 /\ ledger' # ledger /\ issued' # issued
  BY <1>0, <1>1, <1>2 DEF Register
<1>3. ASSUME NEW r \in Requests, UpdateCommit(r)
      PROVE  /\ UNCHANGED token
             /\ \/ UNCHANGED <<accountVars, ledger>>
                \/ Len(ledger') = Len(ledger) + 1 /\ ledger' # ledger
  <2>1. PICK u : u = req[r].user
    OBVIOUS
  <2>2. u \in Users /\ req[r].email \in Emails /\ req[r].name \in Names
    BY <1>3, <2>1, RequestFields DEF UpdateCommit
  <2>3. email[u] \in Emails /\ name[u] \in Names
    BY <2>2 DEF TypeOK
  <2>4. \/ UNCHANGED <<accountVars, ledger>>
        \/ \E e \in Emails, n \in Names : Emit("updated", u, e, n)
    BY <1>3, <2>1, <2>2, <2>3 DEF UpdateCommit
  <2>. QED
    BY <1>1, <1>3, <2>2, <2>4 DEF UpdateCommit
<1>4. ASSUME NEW r \in Requests, PasswordCommit(r)
      PROVE  Len(ledger') = Len(ledger) + 1 /\ ledger' # ledger
  BY <1>1, <1>4, RequestFields DEF PasswordCommit
<1>5. ASSUME NEW r \in Requests, DeleteCommit(r)
      PROVE  \/ UNCHANGED <<accountVars, token, ledger>>
             \/ Len(ledger') = Len(ledger) + 1 /\ ledger' # ledger
  BY <1>1, <1>5, RequestFields DEF DeleteCommit
<1>6. ASSUME NEW u, RevokeAll(u)
      PROVE  \A t \in Tokens : token'[t].state = "live" => token[t].state = "live"
  <2>1. \A t \in Tokens : token'[t] = token[t] \/ token'[t] = [token[t] EXCEPT !.state = "revoked"]
    BY <1>6 DEF RevokeAll
  <2>. QED
    BY <1>0, <2>1 DEF TokenRow
<1>7. ASSUME NEW r \in Requests, RevokeOne(r)
      PROVE  \A t \in Tokens : token'[t].state = "live" => token[t].state = "live"
  <2>1. \A t \in Tokens : token'[t] \in {token[t], Revoked(token[t], NoToken)}
    BY <1>7 DEF RevokeOne, TypeOK
  <2>2. \A t \in Tokens : Revoked(token[t], NoToken).state # "live"
    BY <1>0 DEF Revoked, TokenRow
  <2>. QED
    BY <2>1, <2>2
<1>8. ASSUME NEW r \in Requests, DeleteCommit(r)
      PROVE  \A t \in Tokens : token'[t].state = "live" => token[t].state = "live"
  <2>1. \A t \in Tokens : token'[t] = token[t] \/ token'[t] = [token[t] EXCEPT !.state = "none"]
    BY <1>8 DEF DeleteCommit
  <2>. QED
    BY <1>0, <2>1 DEF TokenRow
<1>9. ASSUME NEW r \in Requests, LoginIssue(r) \/ Rotate(r), issued' = issued PROVE UNCHANGED token
  BY <1>0, <1>9 DEF LoginIssue, Rotate
<1>10. ASSUME NEW t \in Tokens, Expire(t)
       PROVE  \A x \in Tokens : token'[x].state = "live" => token[x].state = "live"
  BY <1>0, <1>10 DEF Expire, TypeOK
<1>11. \/ UNCHANGED ledger \/ Len(ledger') = Len(ledger) + 1
  BY <1>2, <1>3, <1>4, <1>5 DEF Next, Update, Login, ChangePassword, DeleteAccount, Refresh,
     Logout, Begin, Commit, LoginIssue, FindUser, Rotate, RevokeOne, RevokeSessions, Abort, Expire,
     vars
<1>12. UNCHANGED ledger => UNCHANGED accountVars
  BY <1>2, <1>3, <1>4, <1>5 DEF Next, Update, Login, ChangePassword, DeleteAccount, Refresh,
     Logout, Begin, Commit, LoginIssue, FindUser, Rotate, RevokeOne, RevokeSessions, Abort, Expire,
     vars
<1>13. issued' = issued => \A t \in Tokens : token'[t].state = "live" => token[t].state = "live"
  <2>. SUFFICES ASSUME issued' = issued
                PROVE  \A t \in Tokens : token'[t].state = "live" => token[t].state = "live"
    OBVIOUS
  <2>1. ASSUME NEW r \in Requests, RevokeSessions(r) \/ PasswordCommit(r)
        PROVE  \A t \in Tokens : token'[t].state = "live" => token[t].state = "live"
    BY <1>6, <2>1 DEF RevokeSessions, PasswordCommit
  <2>2. ASSUME NEW r \in Requests, Commit(r)
        PROVE  \A t \in Tokens : token'[t].state = "live" => token[t].state = "live"
    BY <1>3, <1>7, <1>8, <1>9, <2>1, <2>2 DEF Commit, FindUser
  <2>3. CASE UNCHANGED token
    BY <2>3
  <2>. QED
    BY <1>2, <1>10, <2>2, <2>3 DEF Next, Update, Login, ChangePassword, DeleteAccount, Refresh,
       Logout, Begin, Abort, vars
<1>. QED
  BY <1>0, <1>11, <1>12, <1>13

(* No hash is younger than the ledger.                                      *)
LEMMA NextHash == TypeOK /\ HashInv /\ [Next]_vars => HashInv'
<1>. SUFFICES ASSUME TypeOK, HashInv, [Next]_vars PROVE HashInv'
  OBVIOUS
<1>. USE DEF accountVars, sessionVars
<1>1. ASSUME NEW u \in Users, NEW e \in Emails, NEW n \in Names, Register(u, e, n) PROVE HashInv'
  <2>1. \A v \in Users : password'[v] \in {password[v], Len(ledger) + 1}
    BY <1>1 DEF Register, TypeOK
  <2>. QED
    BY <1>1, <2>1, HashKept DEF Register
<1>2. ASSUME NEW r \in Requests, PasswordCommit(r) PROVE HashInv'
  <2>1. \A v \in Users : password'[v] \in {password[v], Len(ledger) + 1}
    BY <1>2, RequestFields DEF PasswordCommit, TypeOK
  <2>. QED
    BY <1>2, <2>1, RequestFields, HashKept DEF PasswordCommit
<1>3. CASE UNCHANGED password
  BY <1>3, StepEffects DEF HashInv, TypeOK
<1>. QED
  BY <1>1, <1>2, <1>3 DEF Next, Update, Login, ChangePassword, DeleteAccount, Refresh,
     Logout, Begin, Commit, LoginIssue, FindUser, Rotate, RevokeOne, RevokeSessions, UpdateCommit,
     DeleteCommit, Abort, Expire, vars

-----------------------------------------------------------------------------
(* The invariant of the calls.                                              *)

(* What the request of a call in flight has to do with the call.            *)
Handles(c) ==
  /\ req[c].at = "issue" => call[c].op = "login"
  /\ req[c].at \in {"findUser", "rotate"} =>
       call[c].op = "refresh" /\ req[c].token = call[c].token
  /\ req[c].at \in {"revoke", "revokeAll"} => call[c].op \in {"refresh", "logout"}
  /\ req[c].at \in {"update", "password", "delete"} =>
       call[c].op = req[c].at /\ req[c].user = Self(c)
  /\ req[c].at = "update" => req[c].email = call[c].email /\ "email" \in req[c].changed
  /\ req[c].at = "password" => call[c].password <= Len(ledger)
  /\ seen[c] = call[c] /\ call[c].op # "login" => req[c].at \in {"revoke", "revokeAll"}

CallInv(c) ==
  \* the answer is the reply, and is given once
  /\ edge[c] = "unsent" => back[c] = "none"
  /\ edge[c] \in Refusals => back[c] \in {"none", edge[c]}
  /\ edge[c] \in Success \cup {"500"} => back[c] = edge[c]
  \* the call stays what it was, and its handler runs once
  /\ back[c] # "none" => call[c] \in Ask
  /\ back[c] \in {"none", "arrived"} => actor[c] = "unhandled"
  /\ (req[c] # Idle) <=> (back[c] = "working")
  /\ back[c] = "working" => Handles(c)
  /\ c \in valid => edge[c] # "unsent" /\ call[c] \in Ask /\ call[c].bearer # Anonymous
  \* it takes effect with its last step, and the reply tells
  /\ c \in effects => back[c] \in Success \cup {"lost", "500"}
  /\ back[c] \in Success /\ call[c].op \in Changing => c \in effects
  /\ c \in effects /\ call[c].op # "login" => seen[c] # call[c]
  /\ c \in outlived => c \notin effects /\ back[c] \in Replies \cup {"lost"}
  /\ actor[c] # "unhandled" =>
       CASE Catalogue(call[c].op) = "admin" -> actor[c] = "admin"
         [] Catalogue(call[c].op) = "user"  -> actor[c] \in {"user", "admin"}
         [] OTHER -> TRUE

(* What the last effect has left behind, until the next one.                *)
LatestInv ==
  /\ latest.op = "register" =>
       \E u \in Users : status[u] = "active" /\ email[u] = latest.email
  /\ latest.op = "refresh"  => token[latest.token].state # "live"
  /\ latest.op = "update"   => email[latest.bearer.user] = latest.email
  /\ latest.op = "password" =>
       \/ status[latest.bearer.user] # "active"
       \/ password[latest.bearer.user] > latest.password
  /\ latest.op = "delete"   => status[latest.bearer.user] # "active"

GatewayInv == GatewayTypeOK /\ HashInv /\ SessionInv /\ LatestInv /\ \A c \in Calls : CallInv(c)

(* A step of one call leaves the others as they are.                        *)
LEMMA OtherCalls ==
  ASSUME TypeOK, [Next]_vars, NEW d \in Calls, CallInv(d),
         call'[d] = call[d], edge'[d] = edge[d], back'[d] = back[d], actor'[d] = actor[d],
         seen'[d] = seen[d], req'[d] = req[d],
         d \in effects' <=> d \in effects, d \in outlived' <=> d \in outlived,
         d \in valid' => d \in valid
  PROVE  CallInv(d)'
<1>1. Len(ledger) \in Nat /\ Len(ledger') \in Nat /\ Len(ledger) <= Len(ledger')
  BY StepEffects
<1>2. call[d] \in Ask /\ call[d].op = "password" => call[d].password \in Nat
  BY AskFields, PasswordAssumption
<1>3. back[d] = "working" => Handles(d)'
  <2>1. CASE req[d].at = "password" /\ back[d] = "working"
    <3>1. /\ call[d].op = "password" /\ call[d] \in Ask /\ call[d].password <= Len(ledger)
          /\ Handles(d)
      BY <2>1 DEF CallInv, Handles
    <3>2. call[d].password <= Len(ledger')
      BY <1>1, <1>2, <3>1
    <3>. QED
      BY <2>1, <3>1, <3>2 DEF Handles, Self
  <2>2. CASE req[d].at # "password"
    BY <2>2 DEF CallInv, Handles, Self
  <2>. QED
    BY <2>1, <2>2
<1>. QED
  BY <1>3 DEF CallInv

(* What the last effect left behind stays, until the next one.              *)
LEMMA LatestKept ==
  ASSUME GatewayTypeOK, [Next]_vars, LatestInv, latest' = latest, UNCHANGED <<ledger, issued>>
  PROVE  LatestInv'
<1>1. UNCHANGED accountVars /\ \A t \in Tokens : token'[t].state = "live" => token[t].state = "live"
  BY StepEffects DEF GatewayTypeOK
<1>2. latest.op = "refresh" => latest.token \in Tokens
  BY AskFields DEF GatewayTypeOK, NoCall
<1>. QED
  BY <1>1, <1>2 DEF LatestInv, accountVars

(* A step of call c is a step of no other call.                             *)
Framed(c) == \A d \in Calls \ {c} :
  /\ call'[d] = call[d] /\ edge'[d] = edge[d] /\ back'[d] = back[d]
  /\ actor'[d] = actor[d] /\ seen'[d] = seen[d] /\ req'[d] = req[d]
  /\ d \in effects' <=> d \in effects
  /\ d \in outlived' <=> d \in outlived
  /\ d \in valid' => d \in valid

GoodStep(c) == GatewayTypeOK' /\ CallInv(c)' /\ Framed(c) /\ LatestInv'

(* The steps of the gateway.                                                *)
LEMMA EdgeStep ==
  ASSUME GatewayInv, NEW c \in Calls,
         \/ EdgeRefuses(c) \/ (\E q \in Ask : Forwards(c, q))
         \/ TokenExpires(c) \/ Relay(c) \/ UpstreamFails(c)
  PROVE  GoodStep(c)
<1>. USE DEF historyVars
<1>1. /\ GatewayTypeOK /\ TypeOK /\ CallInv(c) /\ LatestInv
      /\ UNCHANGED <<vars, historyVars>>
  BY DEF GatewayInv, GatewayTypeOK, EdgeRefuses, Forwards, TokenExpires, Relay, UpstreamFails
<1>2. /\ TypeOK' /\ LatestInv' /\ UNCHANGED <<req, ledger>>
  BY <1>1 DEF vars, accountVars, sessionVars, TypeOK, LatestInv
<1>3. UNCHANGED call => (Handles(c) => Handles(c)')
  BY <1>1, <1>2 DEF Handles, Self
<1>4. CASE EdgeRefuses(c)
  <2>1. PICK code \in Refusals : edge' = [edge EXCEPT ![c] = code]
    <3>1. PICK q \in Ask, live \in BOOLEAN :
            \E code \in {"400", "403", "429"} \cup Denial(EdgeGuard(q.op), q.bearer, live) :
              edge' = [edge EXCEPT ![c] = code]
      BY <1>4 DEF EdgeRefuses
    <3>2. Denial(EdgeGuard(q.op), q.bearer, live) \subseteq {"401", "403"}
      BY DenialType
    <3>. QED
      BY <3>1, <3>2 DEF Refusals
  <2>2. edge[c] = "unsent" /\ UNCHANGED <<call, valid, back>>
    BY <1>4 DEF EdgeRefuses, NextUnsent
  <2>3. edge'[c] = code /\ \A d \in Calls \ {c} : edge'[d] = edge[d]
    BY <1>1, <2>1 DEF GatewayTypeOK
  <2>4. GatewayTypeOK'
    BY <1>1, <1>2, <2>1, <2>2 DEF GatewayTypeOK, Answers, Replies
  <2>5. CallInv(c)'
    BY <1>1, <1>2, <1>3, <2>2, <2>3, Codes DEF CallInv, Refusals
  <2>6. Framed(c)
    BY <1>1, <1>2, <2>2, <2>3 DEF Framed
  <2>. QED
    BY <1>2, <2>4, <2>5, <2>6 DEF GoodStep
<1>5. ASSUME NEW q \in Ask, Forwards(c, q) PROVE GoodStep(c)
  <2>1. /\ edge[c] = "unsent" /\ call' = [call EXCEPT ![c] = q]
        /\ edge' = [edge EXCEPT ![c] = "forwarded"] /\ back' = [back EXCEPT ![c] = "arrived"]
        /\ valid' = IF q.bearer = Anonymous THEN valid ELSE valid \cup {c}
    BY <1>5 DEF Forwards, NextUnsent
  <2>2. /\ call'[c] = q /\ edge'[c] = "forwarded" /\ back'[c] = "arrived"
        /\ \A d \in Calls \ {c} : call'[d] = call[d] /\ edge'[d] = edge[d] /\ back'[d] = back[d]
                                  /\ (d \in valid' => d \in valid)
        /\ c \in valid' => c \in valid \/ q.bearer # Anonymous
    BY <1>1, <2>1 DEF GatewayTypeOK
  <2>3. /\ back[c] = "none" /\ c \notin effects /\ c \notin outlived /\ req[c] = Idle
        /\ actor[c] = "unhandled" /\ c \notin valid
    BY <1>1, <2>1, Codes DEF CallInv, Success
  <2>4. GatewayTypeOK'
    <3>1. /\ call' \in [Calls -> Ask \cup {NoCall}]
          /\ edge' \in [Calls -> {"unsent", "forwarded"} \cup Answers]
          /\ back' \in [Calls -> {"none", "arrived", "working", "lost"} \cup Replies]
          /\ valid' \subseteq Calls
      BY <1>1, <2>1 DEF GatewayTypeOK
    <3>. QED
      BY <1>1, <1>2, <3>1 DEF GatewayTypeOK
  <2>5. CallInv(c)'
    BY <1>1, <1>2, <2>2, <2>3, Codes DEF CallInv, Refusals, Success
  <2>6. Framed(c)
    BY <1>1, <1>2, <2>2 DEF Framed
  <2>. QED
    BY <1>2, <2>4, <2>5, <2>6 DEF GoodStep
<1>6. CASE TokenExpires(c)
  <2>1. valid' = valid \ {c} /\ UNCHANGED <<call, edge, back>>
    BY <1>6 DEF TokenExpires
  <2>4. GatewayTypeOK'
    BY <1>1, <1>2, <2>1 DEF GatewayTypeOK
  <2>5. CallInv(c)'
    BY <1>1, <1>2, <1>3, <2>1 DEF CallInv
  <2>6. Framed(c)
    BY <1>1, <1>2, <2>1 DEF Framed
  <2>. QED
    BY <1>2, <2>4, <2>5, <2>6 DEF GoodStep
<1>7. CASE Relay(c) \/ UpstreamFails(c)
  <2>1. PICK code : /\ edge' = [edge EXCEPT ![c] = code]
                    /\ code = "503" \/ (code \in Replies /\ back[c] = code)
    BY <1>7 DEF Relay, UpstreamFails
  <2>2. edge[c] = "forwarded" /\ UNCHANGED <<call, valid, back>> /\ code \in Answers
        /\ code # "unsent"
    BY <1>7, <2>1, Codes DEF Relay, UpstreamFails, Answers
  <2>3. edge'[c] = code /\ \A d \in Calls \ {c} : edge'[d] = edge[d]
    BY <1>1, <2>1 DEF GatewayTypeOK
  <2>4. GatewayTypeOK'
    BY <1>1, <1>2, <2>1, <2>2 DEF GatewayTypeOK
  <2>5. CallInv(c)'
    BY <1>1, <1>2, <1>3, <2>1, <2>2, <2>3, Codes DEF CallInv, Replies
  <2>6. Framed(c)
    BY <1>1, <1>2, <2>2, <2>3 DEF Framed
  <2>. QED
    BY <1>2, <2>4, <2>5, <2>6 DEF GoodStep
<1>. QED
  BY <1>4, <1>5, <1>6, <1>7

(* A reply without an effect: a rejection, a failure, a reply or a service  *)
(* that is lost.                                                            *)
LEMMA FailStep ==
  ASSUME GatewayInv, [Next]_vars, TypeOK', NEW c \in Calls, Rejects(c) \/ Throws(c) \/ Loses(c)
  PROVE  GoodStep(c)
<1>. USE DEF historyVars
<1>1. /\ GatewayTypeOK /\ TypeOK /\ CallInv(c) /\ LatestInv
      /\ UNCHANGED <<call, valid, edge, historyVars>>
  BY DEF GatewayInv, GatewayTypeOK, Rejects, Throws, Loses
<1>2. PICK code \in Refusals \cup {"lost", "500"} : back' = [back EXCEPT ![c] = code]
  BY DenialType DEF Rejects, Throws, Loses, Reply, Denied, Refusals
<1>3. /\ back'[c] = code /\ \A d \in Calls \ {c} : back'[d] = back[d]
      /\ code \in Replies \cup {"lost"} /\ code \notin {"none", "arrived", "working"}
  BY <1>1, <1>2, Codes DEF GatewayTypeOK, Replies
<1>4. /\ UNCHANGED <<ledger, issued>> /\ \A d \in Calls \ {c} : req'[d] = req[d]
      /\ \/ UNCHANGED req /\ req[c] = Idle
         \/ req'[c] = Idle /\ req[c] # Idle
  <2>1. CASE Rejects(c)
    BY <1>1, <2>1 DEF Rejects, vars, sessionVars, CallInv
  <2>2. CASE Abort(c)
    BY <1>1, <2>2, CallAssumption DEF Abort, End, sessionVars, TypeOK
  <2>3. CASE Loses(c) /\ ~Abort(c)
    BY <2>3 DEF Loses, vars, sessionVars
  <2>. QED
    BY <2>1, <2>2, <2>3 DEF Throws
<1>5. /\ \/ back[c] \in {"arrived", "working"}
         \/ edge[c] = "forwarded" /\ code = "lost" /\ back[c] \in Replies
      /\ edge[c] # "unsent"
  <2>1. CASE Rejects(c)
    BY <1>1, <2>1 DEF Rejects, CallInv
  <2>2. CASE Throws(c)
    BY <1>1, <2>2 DEF Throws, Abort, CallInv
  <2>3. CASE Loses(c)
    <3>1. code = "lost"
      BY <1>1, <1>3, <2>3 DEF Loses, Reply, GatewayTypeOK
    <3>. QED
      BY <1>1, <2>3, <3>1 DEF Loses, CallInv
  <2>. QED
    BY <2>1, <2>2, <2>3
<1>6. edge[c] \notin Replies
  BY <1>1, <1>5, Codes DEF CallInv, Replies
<1>7. GatewayTypeOK'
  <2>1. back' \in [Calls -> {"none", "arrived", "working", "lost"} \cup Replies]
    BY <1>1, <1>2, <1>3 DEF GatewayTypeOK
  <2>. QED
    BY <1>1, <2>1 DEF GatewayTypeOK
<1>8. CallInv(c)'
  <2>1. edge[c] \notin Refusals /\ edge[c] \notin Success /\ code \notin Success
    BY <1>2, <1>6, Codes DEF Replies, Success
  <2>2. c \in effects => code = "lost"
    BY <1>1, <1>5, Codes DEF CallInv, Success
  <2>3. call[c] \in Ask
    BY <1>1, <1>5, Codes DEF CallInv
  <2>4. req'[c] = Idle
    BY <1>4
  <2>5. c \in outlived => c \notin effects
    BY <1>1 DEF CallInv
  <2>. QED
    BY <1>1, <1>3, <1>5, <2>1, <2>2, <2>3, <2>4, <2>5 DEF CallInv
<1>9. Framed(c)
  BY <1>1, <1>3, <1>4 DEF Framed
<1>10. LatestInv'
  BY <1>1, <1>4, LatestKept
<1>. QED
  BY <1>7, <1>8, <1>9, <1>10 DEF GoodStep

(* The guards of the services are those of the catalogue.                   *)
LEMMA GuardsAgree ==
  ASSUME NEW q \in Ask
  PROVE  BackendGuard(q.op) = Catalogue(q.op)
<1>1. q.op \in Sessions \cup AccountViews \cup HistoryViews \cup {"update", "password", "delete"}
  BY AskFields
<1>. QED
  BY <1>1 DEF BackendGuard, Catalogue, NotificationServiceGuard, UserServiceGuard, Sessions,
     AccountViews, HistoryViews, Admin

(* A handler that begins runs as the caller its guard let through.          *)
LEMMA TakesActor ==
  ASSUME GatewayTypeOK, NEW c \in Calls, CallInv(c), call[c] \in Ask, Takes(c)
  PROVE  /\ actor'[c] \in Level
         /\ actor' = [actor EXCEPT ![c] = actor'[c]]
         /\ Catalogue(call[c].op) = "admin" => actor'[c] = "admin"
         /\ Catalogue(call[c].op) = "user" => actor'[c] \in {"user", "admin"}
<1>1. /\ actor' = [actor EXCEPT ![c] = IF c \in valid THEN call[c].bearer.role ELSE "public"]
      /\ Denied(c) = {}
  BY DEF Takes
<1>2. actor'[c] = IF c \in valid THEN call[c].bearer.role ELSE "public"
  BY <1>1 DEF GatewayTypeOK
<1>3. c \in valid => call[c].bearer # Anonymous /\ call[c].bearer.role \in {"user", "admin"}
  BY AskFields DEF CallInv
<1>4. PICK guard : guard = BackendGuard(call[c].op)
  OBVIOUS
<1>5. PICK bearer : bearer = call[c].bearer
  OBVIOUS
<1>6. Denial(guard, bearer, c \in valid) = {}
  BY <1>1, <1>4, <1>5 DEF Denied
<1>7. /\ guard # "public" => c \in valid
      /\ guard = "admin" => bearer.role = "admin"
  BY <1>6 DEF Denial
<1>8. guard = Catalogue(call[c].op)
  BY <1>4, GuardsAgree
<1>. QED
  BY <1>1, <1>2, <1>3, <1>5, <1>7, <1>8 DEF Level

(* The first step of a handler.                                             *)
LEMMA TakeStep ==
  ASSUME GatewayInv, [Next]_vars, TypeOK', NEW c \in Calls, Take(c) \/ TakeFails(c)
  PROVE  GoodStep(c)
<1>1. GatewayTypeOK /\ TypeOK /\ CallInv(c) /\ LatestInv /\ HashInv /\ c \in Requests
  BY CallAssumption DEF GatewayInv, GatewayTypeOK
<1>2. Takes(c) /\ call[c] \in Ask
  <2>1. CASE Take(c)
    BY <1>1, <2>1, TakeKinds
  <2>2. CASE TakeFails(c)
    BY <1>1, <2>2 DEF TakeFails, Takes, CallInv
  <2>. QED
    BY <2>1, <2>2
<1>3. /\ back[c] = "arrived" /\ UNCHANGED <<call, valid, edge>>
      /\ seen' = [seen EXCEPT ![c] = latest]
      /\ outlived' = outlived \/ (/\ BackendGuard(call[c].op) # "public"
                                  /\ status[call[c].bearer.user] # "active"
                                  /\ outlived' = outlived \cup {c})
  BY <1>2 DEF Takes
<1>4. /\ c \notin effects /\ c \notin outlived /\ req[c] = Idle
      /\ edge[c] # "unsent" /\ edge[c] \notin Refusals \cup Success \cup {"500"}
      /\ c \in valid => call[c].bearer # Anonymous
  BY <1>1, <1>3, Codes DEF CallInv, Success, Replies
<1>5. /\ seen'[c] = latest /\ \A d \in Calls \ {c} : seen'[d] = seen[d]
      /\ \A d \in Calls \ {c} : actor'[d] = actor[d]
      /\ \A d \in Calls \ {c} : d \in outlived' <=> d \in outlived
      /\ actor'[c] # "unhandled" =>
           CASE Catalogue(call[c].op) = "admin" -> actor'[c] = "admin"
             [] Catalogue(call[c].op) = "user"  -> actor'[c] \in {"user", "admin"}
             [] OTHER -> TRUE
  BY <1>1, <1>2, <1>3, TakesActor DEF GatewayTypeOK
<1>6. /\ actor' \in [Calls -> Level \cup {"unhandled"}]
      /\ seen' \in [Calls -> Ask \cup {NoCall}]
      /\ outlived' \subseteq Calls
  <2>1. actor'[c] \in Level /\ actor' = [actor EXCEPT ![c] = actor'[c]]
    BY <1>1, <1>2, TakesActor
  <2>. QED
    BY <1>1, <1>3, <2>1 DEF GatewayTypeOK
<1>7. CASE AnswersAtOnce(c)
  <2>1. PICK code \in Replies : /\ back' = [back EXCEPT ![c] = code]
                                /\ UNCHANGED <<effects, latest>> /\ UNCHANGED vars
                                /\ code \in Success => call[c].op \notin Changing
    BY <1>7 DEF AnswersAtOnce, RepliesAtOnce, Reply, NoEffect
  <2>2. /\ back'[c] = code /\ \A d \in Calls \ {c} : back'[d] = back[d]
        /\ UNCHANGED <<req, ledger, issued>>
        /\ code \notin {"none", "arrived", "working"}
    BY <1>1, <2>1, Codes DEF GatewayTypeOK, vars, sessionVars
  <2>3. GatewayTypeOK'
    <3>1. back' \in [Calls -> {"none", "arrived", "working", "lost"} \cup Replies]
      BY <1>1, <2>1 DEF GatewayTypeOK
    <3>. QED
      BY <1>1, <1>3, <1>6, <2>1, <3>1 DEF GatewayTypeOK
  <2>4. CallInv(c)'
    BY <1>2, <1>3, <1>4, <1>5, <2>1, <2>2 DEF CallInv
  <2>5. Framed(c)
    BY <1>3, <1>5, <2>1, <2>2 DEF Framed
  <2>6. LatestInv'
    BY <1>1, <2>1, <2>2, LatestKept
  <2>. QED
    BY <2>3, <2>4, <2>5, <2>6 DEF GoodStep
<1>8. CASE Registers(c)
  <2>1. PICK u \in Users, n \in Names :
          /\ Register(u, call[c].email, n) /\ TakesEffect(c)
          /\ Reply(c, "201") \/ Reply(c, "500")
    BY <1>8 DEF Registers
  <2>2. call[c].op = "register" /\ BackendGuard(call[c].op) = "public"
    BY <1>8 DEF Registers, BackendGuard, UserServiceGuard, HistoryViews
  <2>a. PICK code \in {"201", "500"} : back' = [back EXCEPT ![c] = code]
    BY <2>1 DEF Reply
  <2>3. /\ UNCHANGED req
        /\ effects' = effects \cup {c} /\ latest' = call[c]
        /\ EmailFree(u, call[c].email) /\ status[u] = "absent"
        /\ status' = [status EXCEPT ![u] = "active"] /\ email' = [email EXCEPT ![u] = call[c].email]
    BY <2>1 DEF Register, TakesEffect
  <2>4. /\ back'[c] = code /\ \A d \in Calls \ {c} : back'[d] = back[d]
        /\ outlived' = outlived /\ code \in Success \cup {"500"} /\ code \in Replies
        /\ code \notin {"none", "arrived", "working"}
    BY <1>1, <1>3, <2>2, <2>a DEF GatewayTypeOK, Success, Replies
  <2>5. latest # call[c]
    <3>. SUFFICES ASSUME latest = call[c] PROVE FALSE
      OBVIOUS
    <3>1. PICK v \in Users : status[v] = "active" /\ email[v] = call[c].email
      BY <1>1, <2>2 DEF LatestInv
    <3>. QED
      BY <2>3, <3>1 DEF EmailFree
  <2>6. GatewayTypeOK'
    <3>1. back' \in [Calls -> {"none", "arrived", "working", "lost"} \cup Replies]
      BY <1>1, <2>a, <2>4 DEF GatewayTypeOK
    <3>2. effects' \subseteq Calls /\ latest' \in Ask \cup {NoCall}
      BY <1>1, <1>2, <2>3 DEF GatewayTypeOK
    <3>. QED
      BY <1>1, <1>3, <1>6, <3>1, <3>2 DEF GatewayTypeOK
  <2>7. CallInv(c)'
    BY <1>2, <1>3, <1>4, <1>5, <2>3, <2>4, <2>5, Codes DEF CallInv
  <2>8. Framed(c)
    BY <1>3, <1>5, <2>3, <2>4 DEF Framed
  <2>9. LatestInv'
    BY <1>1, <2>2, <2>3 DEF LatestInv, TypeOK
  <2>. QED
    BY <2>6, <2>7, <2>8, <2>9 DEF GoodStep
<1>9. ASSUME GoesOn(c), NEW what, Begins(c, what) PROVE GoodStep(c)
  <2>1. /\ back' = [back EXCEPT ![c] = "working"] /\ UNCHANGED <<effects, latest>>
        /\ Begin(c, what) /\ what \in Request /\ what # Idle
    BY <1>9 DEF GoesOn, Reply, NoEffect, Begins
  <2>2. /\ back'[c] = "working" /\ \A d \in Calls \ {c} : back'[d] = back[d]
        /\ req'[c] = what /\ \A d \in Calls \ {c} : req'[d] = req[d]
        /\ UNCHANGED <<ledger, issued>>
    BY <1>1, <2>1, CallAssumption DEF GatewayTypeOK, Begin, TypeOK, sessionVars
  <2>3. what.at \in {"issue", "findUser", "rotate", "revoke", "revokeAll", "update", "password",
                     "delete"}
    BY <2>1 DEF Request, Idle
  <2>4. what.at \in {"issue", "findUser", "rotate", "revoke", "revokeAll"}
          => call[c].op \in Sessions
    BY <1>9 DEF Begins, Sessions
  <2>5. outlived' = outlived
    <3>1. CASE call[c].op \in Sessions
      <4>1. BackendGuard(call[c].op) = "public"
        BY <3>1 DEF Sessions, BackendGuard, UserServiceGuard, HistoryViews
      <4>. QED
        BY <1>3, <4>1
    <3>2. CASE status[Self(c)] = "active"
      BY <1>3, <3>2 DEF Self
    <3>. QED
      BY <1>9, <2>3, <2>4, <3>1, <3>2 DEF Begins
  <2>6. Handles(c)'
    <3>1. /\ what.at = "issue" => call[c].op = "login"
          /\ what.at \in {"findUser", "rotate"} =>
               call[c].op = "refresh" /\ what.token = call[c].token
          /\ what.at \in {"revoke", "revokeAll"} => call[c].op \in {"refresh", "logout"}
          /\ what.at \in {"update", "password", "delete"} =>
               call[c].op = what.at /\ what.user = Self(c)
          /\ what.at = "update" => what.email = call[c].email /\ "email" \in what.changed
      BY <1>9 DEF Begins
    <3>2. what.at = "password" => call[c].password <= Len(ledger)
      <4>1. what.at = "password" => Self(c) \in Users /\ password[Self(c)] = call[c].password
        BY <1>2, <1>9, AskFields DEF Begins, Self
      <4>. QED
        BY <1>1, <4>1 DEF HashInv
    <3>3. latest = call[c] /\ call[c].op # "login" => what.at \in {"revoke", "revokeAll"}
      <4>. SUFFICES ASSUME latest = call[c], call[c].op # "login",
                           what.at \notin {"revoke", "revokeAll"}
                    PROVE  FALSE
        OBVIOUS
      <4>1. CASE what.at \in {"findUser", "rotate"}
        BY <1>1, <1>9, <4>1 DEF Begins, LatestInv
      <4>2. CASE what.at = "update"
        BY <1>1, <1>9, <4>2 DEF Begins, LatestInv, Self
      <4>3. CASE what.at = "password"
        <5>1. Self(c) \in Users /\ password[Self(c)] \in Nat
          BY <1>1, <1>2, <1>9, <4>3, AskFields DEF Begins, Self, TypeOK
        <5>2. password[Self(c)] > call[c].password /\ password[Self(c)] = call[c].password
          BY <1>1, <1>9, <4>3 DEF Begins, LatestInv, Self
        <5>. QED
          BY <5>1, <5>2
      <4>4. CASE what.at = "delete"
        BY <1>1, <1>9, <4>4 DEF Begins, LatestInv, Self
      <4>5. CASE what.at = "issue"
        BY <1>9, <4>5 DEF Begins
      <4>. QED
        BY <2>3, <4>1, <4>2, <4>3, <4>4, <4>5
    <3>. QED
      BY <1>3, <1>5, <2>2, <3>1, <3>2, <3>3 DEF Handles, Self
  <2>7. GatewayTypeOK'
    <3>1. back' \in [Calls -> {"none", "arrived", "working", "lost"} \cup Replies]
      BY <1>1, <2>1 DEF GatewayTypeOK
    <3>. QED
      BY <1>1, <1>3, <1>6, <2>1, <3>1 DEF GatewayTypeOK
  <2>8. CallInv(c)'
    BY <1>2, <1>3, <1>4, <1>5, <2>1, <2>2, <2>5, <2>6, Codes DEF CallInv, Success, Replies
  <2>9. Framed(c)
    BY <1>3, <1>5, <2>1, <2>2 DEF Framed
  <2>10. LatestInv'
    BY <1>1, <2>1, <2>2, LatestKept
  <2>. QED
    BY <2>7, <2>8, <2>9, <2>10 DEF GoodStep
<1>10. CASE TakeFails(c)
  BY <1>7, <1>10, Codes DEF TakeFails, AnswersAtOnce
<1>. QED
  BY <1>1, <1>7, <1>8, <1>9, <1>10, TakeKinds

(* The last step of a handler, with an effect or without.                   *)
LEMMA DoneStep ==
  ASSUME GatewayInv, [Next]_vars, TypeOK', NEW c \in Calls, Works(c), End(c), req[c] # Idle,
         \/ UNCHANGED <<ledger, issued>> /\ (Outcome(c) \in Success => call[c].op \notin Changing)
         \/ /\ ~UNCHANGED <<ledger, issued>> /\ Outcome(c) \in Success
            /\ req[c].at \notin {"revoke", "revokeAll"}
            /\ latest' = call[c] => LatestInv'
  PROVE  GoodStep(c)
<1>1. /\ GatewayTypeOK /\ TypeOK /\ CallInv(c) /\ LatestInv /\ c \in Requests
      /\ UNCHANGED <<call, valid, edge, actor, seen, outlived>>
  BY CallAssumption DEF GatewayInv, GatewayTypeOK, Works
<1>2. /\ back[c] = "working" /\ call[c] \in Ask /\ Handles(c) /\ c \notin effects
      /\ c \notin outlived /\ edge[c] # "unsent"
      /\ edge[c] \notin Refusals /\ edge[c] \notin Success
  BY <1>1, Codes DEF CallInv, Success, Replies
<1>3. req'[c] = Idle /\ \A d \in Calls \ {c} : req'[d] = req[d]
  BY <1>1, CallAssumption DEF End, TypeOK
<1>4. PICK code \in {Outcome(c), "500"} : back' = [back EXCEPT ![c] = code]
  BY <1>3 DEF Works, Reply
<1>5. /\ back' = [back EXCEPT ![c] = code] /\ code \in Replies
      /\ code \notin {"none", "arrived", "working", "lost"}
  BY <1>4, OutcomeType, Codes DEF Replies, Refusals, Success
<1>6. back'[c] = code /\ \A d \in Calls \ {c} : back'[d] = back[d]
  BY <1>1, <1>5 DEF GatewayTypeOK
<1>7. back' \in [Calls -> {"none", "arrived", "working", "lost"} \cup Replies]
  BY <1>1, <1>5 DEF GatewayTypeOK
<1>8. CASE UNCHANGED <<ledger, issued>> /\ (code \in Success => call[c].op \notin Changing)
  <2>1. UNCHANGED <<effects, latest>>
    BY <1>8 DEF Works, NoEffect
  <2>2. GatewayTypeOK'
    BY <1>1, <1>7, <2>1 DEF GatewayTypeOK
  <2>3. CallInv(c)'
    BY <1>1, <1>2, <1>3, <1>5, <1>6, <1>8, <2>1 DEF CallInv
  <2>4. Framed(c)
    BY <1>1, <1>3, <1>6, <2>1 DEF Framed
  <2>5. LatestInv'
    BY <1>1, <1>8, <2>1, LatestKept
  <2>. QED
    BY <2>2, <2>3, <2>4, <2>5 DEF GoodStep
<1>9. CASE /\ ~UNCHANGED <<ledger, issued>> /\ code \in Success \cup {"500"}
           /\ req[c].at \notin {"revoke", "revokeAll"}
           /\ latest' = call[c] => LatestInv'
  <2>1. effects' = effects \cup {c} /\ latest' = call[c]
    BY <1>9 DEF Works, TakesEffect
  <2>2. GatewayTypeOK'
    <3>1. effects' \subseteq Calls /\ latest' \in Ask \cup {NoCall}
      BY <1>1, <1>2, <2>1 DEF GatewayTypeOK
    <3>. QED
      BY <1>1, <1>7, <3>1 DEF GatewayTypeOK
  <2>3. call[c].op # "login" => seen[c] # call[c]
    BY <1>2, <1>9 DEF Handles
  <2>4. CallInv(c)'
    BY <1>1, <1>2, <1>3, <1>5, <1>6, <1>9, <2>1, <2>3, Codes DEF CallInv
  <2>5. Framed(c)
    BY <1>1, <1>3, <1>6, <2>1 DEF Framed
  <2>. QED
    BY <1>9, <2>1, <2>2, <2>4, <2>5 DEF GoodStep
<1>. QED
  BY <1>4, <1>8, <1>9, Codes

(* The later steps of a handler.                                            *)
LEMMA WorkStep ==
  ASSUME GatewayInv, [Next]_vars, TypeOK', NEW c \in Calls, Works(c)
  PROVE  GoodStep(c)
<1>. USE DEF accountVars, sessionVars
<1>1. /\ GatewayTypeOK /\ TypeOK /\ CallInv(c) /\ LatestInv /\ SessionInv /\ c \in Requests
      /\ UNCHANGED <<call, valid, edge, actor, seen, outlived>> /\ Commit(c)
  BY CallAssumption DEF GatewayInv, GatewayTypeOK, Works
<1>2. req[c] # Idle
  BY <1>1 DEF Commit, LoginIssue, FindUser, Rotate, RevokeOne, RevokeSessions, UpdateCommit,
     PasswordCommit, DeleteCommit, Idle
<1>3. back[c] = "working" /\ call[c] \in Ask /\ Handles(c)
  BY <1>1, <1>2, Codes DEF CallInv
<1>a. Len(ledger) \in Nat /\ issued \in Nat
  BY <1>1 DEF TypeOK
<1>b. ASSUME NEW u \in Users, NEW e \in Emails, NEW n \in Names,
             NEW type \in {"registered", "updated", "password_changed", "deleted"},
             Emit(type, u, e, n)
      PROVE  ~UNCHANGED <<ledger, issued>>
  <2>1. [type |-> type, user |-> u, email |-> e, name |-> n] \in Event /\ ledger \in Seq(Event)
    BY <1>1 DEF Event, TypeOK
  <2>2. Len(ledger') = Len(ledger) + 1
    BY <1>b, <2>1, AppendProperties DEF Emit
  <2>. QED
    BY <1>a, <2>2
<1>c. {"200", "204"} \subseteq Success /\ {"401", "404", "409", "500"} \cap Success = {}
  BY DEF Success
<1>4. CASE LoginIssue(c)
  <2>1. req[c].at = "issue" /\ End(c) /\ UNCHANGED ledger /\ call[c].op = "login"
    BY <1>3, <1>4 DEF LoginIssue, Handles
  <2>2. CASE KeyHolds(req[c].user)
    <3>1. issued' # issued /\ Outcome(c) = "200"
      BY <1>4, <1>a, <2>1, <2>2 DEF LoginIssue, Outcome
    <3>2. latest' = call[c] => LatestInv'
      BY <2>1 DEF LatestInv
    <3>. QED
      BY <1>2, <1>c, <2>1, <3>1, <3>2, DoneStep
  <2>3. CASE ~KeyHolds(req[c].user)
    <3>1. issued' = issued /\ Outcome(c) = "500"
      BY <1>4, <2>1, <2>3 DEF LoginIssue, Outcome
    <3>. QED
      BY <1>2, <1>c, <2>1, <3>1, DoneStep
  <2>. QED
    BY <2>2, <2>3
<1>5. CASE FindUser(c)
  <2>1. /\ UNCHANGED <<ledger, issued>> /\ req[c].at = "findUser"
        /\ \E at \in {"rotate", "revoke"} :
             req' = [req EXCEPT ![c] = [at |-> at, token |-> req[c].token]]
    BY <1>5 DEF FindUser
  <2>2. /\ req'[c].at \in {"rotate", "revoke"} /\ req'[c].token = req[c].token
        /\ \A d \in Calls \ {c} : req'[d] = req[d]
    BY <1>1, <2>1, CallAssumption DEF TypeOK
  <2>3. req'[c] # Idle
    BY <2>2 DEF Idle
  <2>4. UNCHANGED <<back, effects, latest>>
    BY <2>1, <2>3 DEF Works, NoEffect
  <2>5. Handles(c)'
    <3>1. /\ call[c].op = "refresh" /\ req'[c].token = call[c].token
          /\ seen[c] # call[c]
      BY <1>3, <2>1, <2>2 DEF Handles
    <3>. QED
      BY <1>1, <2>2, <3>1 DEF Handles, Self
  <2>6. GatewayTypeOK'
    BY <1>1, <2>4 DEF GatewayTypeOK
  <2>7. CallInv(c)'
    BY <1>1, <1>3, <2>3, <2>4, <2>5 DEF CallInv
  <2>8. Framed(c)
    BY <1>1, <2>2, <2>4 DEF Framed
  <2>9. LatestInv'
    BY <1>1, <2>1, <2>4, LatestKept
  <2>. QED
    BY <2>6, <2>7, <2>8, <2>9 DEF GoodStep
<1>6. CASE Rotate(c)
  <2>1. PICK t : t = req[c].token
    OBVIOUS
  <2>2. /\ req[c].at = "rotate" /\ End(c) /\ UNCHANGED ledger
        /\ call[c].op = "refresh" /\ t = call[c].token /\ t \in Tokens
    BY <1>1, <1>3, <1>6, <2>1, RequestFields DEF Rotate, Handles
  <2>3. CASE KeyHolds(token[t].user)
    <3>1. PICK row : row = NewToken(token[t].user, t, token[t].family, token[t].password)
      OBVIOUS
    <3>2. PICK old : old = Revoked(token[t], issued + 1)
      OBVIOUS
    <3>3. /\ issued' = issued + 1
          /\ token' = [token EXCEPT ![issued + 1] = row, ![t] = old]
      BY <1>6, <2>1, <2>3, <3>1, <3>2 DEF Rotate
    <3>4. old.state # "live"
      BY <1>1, <2>2, <3>2, RowFields DEF Revoked, TokenRow
    <3>5. token'[t] = old
      BY <1>1, <2>2, <3>3 DEF TypeOK
    <3>6. issued' # issued /\ Outcome(c) = "200"
      BY <1>a, <2>1, <2>2, <2>3, <3>3 DEF Outcome
    <3>7. latest' = call[c] => LatestInv'
      BY <2>2, <3>4, <3>5 DEF LatestInv
    <3>. QED
      BY <1>2, <1>c, <2>2, <3>6, <3>7, DoneStep
  <2>4. CASE ~KeyHolds(token[t].user)
    <3>1. issued' = issued /\ Outcome(c) = "500"
      BY <1>6, <2>1, <2>2, <2>4 DEF Rotate, Outcome
    <3>. QED
      BY <1>2, <1>c, <2>2, <3>1, DoneStep
  <2>. QED
    BY <2>3, <2>4
<1>7. CASE RevokeOne(c) \/ RevokeSessions(c)
  <2>1. /\ req[c].at \in {"revoke", "revokeAll"} /\ End(c) /\ UNCHANGED <<ledger, issued>>
        /\ call[c].op \in {"refresh", "logout"}
    BY <1>3, <1>7 DEF RevokeOne, RevokeSessions, Handles
  <2>2. Outcome(c) = IF call[c].op = "refresh" THEN "401" ELSE "204"
    BY <2>1 DEF Outcome
  <2>3. Outcome(c) \in Success => call[c].op \notin Changing
    BY <1>c, <2>1, <2>2 DEF Changing
  <2>. QED
    BY <1>2, <2>1, <2>3, DoneStep
<1>8. CASE UpdateCommit(c)
  <2>1. PICK u : u = req[c].user
    OBVIOUS
  <2>2. /\ req[c].at = "update" /\ End(c) /\ UNCHANGED <<status, issued>>
        /\ call[c].op = "update" /\ u = Self(c) /\ u \in Users
        /\ req[c].email = call[c].email /\ "email" \in req[c].changed
        /\ req[c].email \in Emails /\ req[c].name \in Names
    BY <1>1, <1>3, <1>8, <2>1, RequestFields DEF UpdateCommit, Handles
  <2>3. CASE status[u] = "active" /\ EmailFree(u, call[c].email)
    <3>1. PICK n : n = IF "name" \in req[c].changed THEN req[c].name ELSE name[u]
      OBVIOUS
    <3>2. /\ email' = [email EXCEPT ![u] = call[c].email]
          /\ Emit("updated", u, call[c].email, n)
      BY <1>8, <2>1, <2>2, <2>3, <3>1 DEF UpdateCommit
    <3>3. n \in Names
      BY <1>1, <2>2, <3>1 DEF TypeOK
    <3>4. ~UNCHANGED <<ledger, issued>>
      BY <1>b, <2>2, <3>2, <3>3
    <3>5. Outcome(c) = "200"
      BY <2>1, <2>2, <2>3 DEF Outcome
    <3>6. latest' = call[c] => LatestInv'
      BY <1>1, <2>2, <3>2 DEF LatestInv, Self, TypeOK
    <3>. QED
      BY <1>2, <1>c, <2>2, <3>4, <3>5, <3>6, DoneStep
  <2>4. CASE ~(status[u] = "active" /\ EmailFree(u, call[c].email))
    <3>1. UNCHANGED <<ledger, issued>>
      BY <1>8, <2>1, <2>2, <2>4 DEF UpdateCommit
    <3>2. call[c].op \notin Changing
      BY <2>2 DEF Changing
    <3>. QED
      BY <1>2, <2>2, <3>1, <3>2, DoneStep
  <2>. QED
    BY <2>3, <2>4
<1>9. CASE PasswordCommit(c)
  <2>1. PICK u : u = req[c].user
    OBVIOUS
  <2>2. /\ req[c].at = "password" /\ End(c) /\ UNCHANGED <<status, email, issued>>
        /\ call[c].op = "password" /\ u = Self(c) /\ u \in Users
        /\ call[c].password <= Len(ledger) /\ call[c].password \in Nat
        /\ req[c].email \in Emails /\ req[c].name \in Names
        /\ Emit("password_changed", u, req[c].email, req[c].name)
    BY <1>1, <1>3, <1>9, <2>1, RequestFields, AskFields, PasswordAssumption
    DEF PasswordCommit, Handles
  <2>3. ~UNCHANGED <<ledger, issued>>
    BY <1>b, <2>2
  <2>4. Outcome(c) = "204"
    BY <2>2 DEF Outcome
  <2>5. status[u] = "active" => password'[u] = Len(ledger) + 1
    BY <1>1, <1>9, <2>1, <2>2 DEF PasswordCommit, TypeOK
  <2>6. status[u] = "active" => password'[u] > call[c].password
    BY <1>a, <2>2, <2>5
  <2>7. latest' = call[c] => LatestInv'
    BY <2>2, <2>6 DEF LatestInv, Self
  <2>. QED
    BY <1>2, <1>c, <2>2, <2>3, <2>4, <2>7, DoneStep
<1>10. CASE DeleteCommit(c)
  <2>1. PICK u : u = req[c].user
    OBVIOUS
  <2>2. /\ req[c].at = "delete" /\ End(c) /\ UNCHANGED issued
        /\ call[c].op = "delete" /\ u = Self(c) /\ u \in Users
        /\ req[c].email \in Emails /\ req[c].name \in Names
    BY <1>1, <1>3, <1>10, <2>1, RequestFields DEF DeleteCommit, Handles
  <2>3. CASE status[u] = "active"
    <3>1. /\ Emit("deleted", u, req[c].email, req[c].name)
          /\ status' = [status EXCEPT ![u] = "deleted"]
      BY <1>10, <2>1, <2>3 DEF DeleteCommit
    <3>2. ~UNCHANGED <<ledger, issued>>
      BY <1>b, <2>2, <3>1
    <3>3. Outcome(c) = "204"
      BY <2>1, <2>2, <2>3 DEF Outcome
    <3>4. latest' = call[c] => LatestInv'
      BY <1>1, <2>2, <3>1 DEF LatestInv, Self, TypeOK
    <3>. QED
      BY <1>2, <1>c, <2>2, <3>2, <3>3, <3>4, DoneStep
  <2>4. CASE status[u] # "active"
    <3>1. UNCHANGED <<ledger, issued>>
      BY <1>10, <2>1, <2>2, <2>4 DEF DeleteCommit
    <3>2. Outcome(c) = "404"
      BY <2>1, <2>2, <2>4 DEF Outcome
    <3>. QED
      BY <1>2, <1>c, <2>2, <3>1, <3>2, DoneStep
  <2>. QED
    BY <2>3, <2>4
<1>. QED
  BY <1>1, <1>4, <1>5, <1>6, <1>7, <1>8, <1>9, <1>10 DEF Commit

(* Every step preserves the invariant.                                      *)
LEMMA NextGateway == GatewayInv /\ [GatewayNext]_gatewayVars => GatewayInv'
<1>. SUFFICES ASSUME GatewayInv, [GatewayNext]_gatewayVars PROVE GatewayInv'
  OBVIOUS
<1>1. [Next]_vars /\ TypeOK' /\ HashInv' /\ SessionInv'
  BY AccountStep, NextType, NextHash, NextSession DEF GatewayInv, GatewayTypeOK
<1>2. ASSUME NEW c \in Calls, GoodStep(c) PROVE GatewayInv'
  <2>1. ASSUME NEW d \in Calls PROVE CallInv(d)'
    <3>1. CASE d = c
      BY <1>2, <3>1 DEF GoodStep
    <3>2. CASE d # c
      <4>1. TypeOK /\ CallInv(d)
        BY DEF GatewayInv, GatewayTypeOK
      <4>. QED
        BY <1>1, <1>2, <3>2, <4>1, OtherCalls DEF GoodStep, Framed
    <3>. QED
      BY <3>1, <3>2
  <2>. QED
    BY <1>1, <1>2, <2>1 DEF GoodStep, GatewayInv
<1>3. CASE UNCHANGED gatewayVars
  <2>1. GatewayTypeOK' /\ LatestInv'
    BY <1>3 DEF gatewayVars, vars, accountVars, sessionVars, historyVars, GatewayInv,
       GatewayTypeOK, TypeOK, LatestInv
  <2>2. ASSUME NEW d \in Calls PROVE CallInv(d)'
    <3>1. TypeOK /\ CallInv(d)
      BY DEF GatewayInv, GatewayTypeOK
    <3>. QED
      BY <1>1, <1>3, <3>1, OtherCalls DEF gatewayVars, vars, historyVars
  <2>. QED
    BY <1>1, <2>1, <2>2 DEF GatewayInv
<1>4. ASSUME NEW c \in Calls,
             \/ EdgeRefuses(c) \/ (\E q \in Ask : Forwards(c, q))
             \/ TokenExpires(c) \/ Relay(c) \/ UpstreamFails(c) \/ Service(c)
      PROVE  GatewayInv'
  BY <1>1, <1>2, <1>4, EdgeStep, FailStep, TakeStep, WorkStep DEF Service
<1>. QED
  BY <1>3, <1>4 DEF GatewayNext

(* Initially the owner has an account and a session, and no call is made.   *)
LEMMA InitGateway == GatewayInit => GatewayInv
<1>. SUFFICES ASSUME GatewayInit PROVE GatewayInv
  OBVIOUS
<1>1. /\ (CHOOSE u \in Users : TRUE) \in Users
      /\ (CHOOSE e \in Emails : TRUE) \in Emails
      /\ (CHOOSE n \in Names : TRUE) \in Names
  BY UserAssumption
<1>2. MaxTokens \in Nat /\ MaxTokens >= 1 /\ MaxBegun \in Nat /\ MaxBegun >= 1 /\ Owner \in Users
  BY BoundAssumption, OwnerAssumption
<1>3. PICK expired \in BOOLEAN : token = [t \in Tokens |->
        IF t = 1 THEN [NewToken(Owner, NoToken, 1, 1) EXCEPT !.expired = expired] ELSE NoRow]
  BY DEF GatewayInit
<1>4. PICK row : row = [NewToken(Owner, NoToken, 1, 1) EXCEPT !.expired = expired]
  OBVIOUS
<1>5. /\ row \in TokenRow /\ row.state = "live" /\ row.user = Owner /\ row.from = 0
      /\ NoRow \in TokenRow /\ NoRow.state = "none"
  BY <1>1, <1>2, <1>4 DEF NewToken, NoRow, TokenRow, NoToken
<1>6. \A t \in Tokens : token[t] = IF t = 1 THEN row ELSE NoRow
  BY <1>3, <1>4
<1>7. token \in [Tokens -> TokenRow]
  BY <1>3, <1>4, <1>5
<1>8. /\ email \in [Users -> Emails] /\ name \in [Users -> Names]
      /\ email[Owner] \in Emails /\ name[Owner] \in Names
  BY <1>1, <1>2 DEF GatewayInit
<1>9. PICK event : event = [type |-> "registered", user |-> Owner, email |-> email[Owner],
                            name |-> name[Owner]]
  OBVIOUS
<1>10. ledger = <<event>> /\ event \in Event
  BY <1>2, <1>8, <1>9 DEF GatewayInit, Event
<1>11. ledger \in Seq(Event) /\ Len(ledger) = 1
  BY <1>10
<1>12. TypeOK
  <2>1. req \in [Requests -> Request]
    BY CallAssumption DEF GatewayInit, Request
  <2>2. issued \in 0..MaxTokens /\ begun \in 0..MaxBegun
    BY <1>2 DEF GatewayInit
  <2>3. /\ status \in [Users -> {"absent", "active", "deleted"}] /\ password \in [Users -> Nat]
        /\ ended \subseteq Nat
    BY DEF GatewayInit
  <2>. QED
    BY <1>7, <1>8, <1>11, <2>1, <2>2, <2>3 DEF TypeOK
<1>13. GatewayTypeOK
  BY <1>12 DEF GatewayInit, GatewayTypeOK
<1>14. HashInv
  BY <1>11 DEF GatewayInit, HashInv
<1>15. SessionInv
  <2>1. \A t \in Tokens : token[t].state # "none" => t = 1 /\ token[t].user = Owner /\ token[t].from = 0
    BY <1>5, <1>6
  <2>2. issued = 1 /\ 0 \notin Tokens /\ status[Owner] = "active"
    BY <1>2 DEF GatewayInit, Tokens
  <2>3. \A c \in Requests : req[c].at = "idle"
    BY CallAssumption DEF GatewayInit, Idle
  <2>4. IssuedInv
    BY <2>1, <2>2, <2>3 DEF IssuedInv
  <2>5. ConsumedIsRevoked
    BY <2>1, <2>2 DEF ConsumedIsRevoked
  <2>6. NoOrphanSessions
    BY <2>1, <2>2 DEF NoOrphanSessions
  <2>. QED
    BY <2>4, <2>5, <2>6 DEF SessionInv
<1>16. LatestInv
  BY DEF GatewayInit, LatestInv, NoCall
<1>17. ASSUME NEW c \in Calls PROVE CallInv(c)
  BY DEF GatewayInit, CallInv, Success, Refusals
<1>. QED
  BY <1>13, <1>14, <1>15, <1>16, <1>17 DEF GatewayInv

(* The invariant holds in every behaviour.                                  *)
LEMMA GatewayInvariant == GatewaySpec => []GatewayInv
<1>. QED
  BY InitGateway, NextGateway, PTL DEF GatewaySpec

-----------------------------------------------------------------------------
(* What follows.                                                            *)

(* Calls, answers and replies are well formed, and so are the accounts.     *)
THEOREM GatewayTypeCorrect == GatewaySpec => []GatewayTypeOK
<1>1. GatewayInv => GatewayTypeOK
  BY DEF GatewayInv
<1>. QED
  BY <1>1, GatewayInvariant, PTL

(* A client that is told of a refusal or a success is told what happened:   *)
(* no refused call took effect, and every call that succeeds at an          *)
(* operation that changes something did, however replies are lost,          *)
(* statements throw, services die and timeouts pass.  503 and 500 are       *)
(* neither.                                                                 *)
THEOREM ClientsAreToldTheTruth == GatewaySpec => []TruthfulAnswers
<1>1. GatewayInv => TruthfulAnswers
  <2>. SUFFICES ASSUME NEW c \in Calls, CallInv(c)
                PROVE  /\ edge[c] \in Refusals => c \notin effects
                       /\ edge[c] \in Success /\ call[c].op \in Changing => c \in effects
    BY DEF GatewayInv, TruthfulAnswers, Changing
  <2>1. ASSUME edge[c] \in Refusals PROVE c \notin effects
    BY <2>1, Codes DEF CallInv, Success, Replies
  <2>2. ASSUME edge[c] \in Success, call[c].op \in Changing PROVE c \in effects
    BY <2>2 DEF CallInv
  <2>. QED
    BY <2>1, <2>2
<1>. QED
  BY <1>1, GatewayInvariant, PTL

(* A call, a login excepted, that repeats the last one to take effect       *)
(* changes no account and opens no session.                                 *)
THEOREM RepeatsAreHarmless == GatewaySpec => []RepeatsChangeNothing
<1>1. GatewayInv => RepeatsChangeNothing
  <2>. SUFFICES ASSUME GatewayInv PROVE RepeatsChangeNothing
    OBVIOUS
  <2>1. \A c \in effects : c \in Calls
    BY DEF GatewayInv, GatewayTypeOK
  <2>. QED
    BY <2>1 DEF GatewayInv, CallInv, RepeatsChangeNothing
<1>. QED
  BY <1>1, GatewayInvariant, PTL

(* A call that begins in a service with an access token that has outlived   *)
(* its account changes nothing.                                             *)
THEOREM OutlivedTokensAreHarmless == GatewaySpec => []OutlivedTokensChangeNothing
<1>1. GatewayInv => OutlivedTokensChangeNothing
  <2>. SUFFICES ASSUME GatewayInv PROVE OutlivedTokensChangeNothing
    OBVIOUS
  <2>1. \A c \in outlived : c \in Calls
    BY DEF GatewayInv, GatewayTypeOK
  <2>. QED
    BY <2>1 DEF GatewayInv, CallInv, OutlivedTokensChangeNothing
<1>. QED
  BY <1>1, GatewayInvariant, PTL

(* Handlers run only for the callers that the catalogue names.              *)
THEOREM HandlersRunForTheirCallers == GatewaySpec => []CatalogueIsEnforced
<1>1. GatewayInv => CatalogueIsEnforced
  BY DEF GatewayInv, CallInv, CatalogueIsEnforced
<1>. QED
  BY <1>1, GatewayInvariant, PTL

(* The gateway, its timeouts and its lost replies included, makes the       *)
(* accounts take no step that is not one of theirs, and what holds of them  *)
(* for any requests in flight holds behind it.                              *)
THEOREM AccountsBehindGateway ==
  GatewaySpec => /\ [][Next]_vars
                 /\ [](UniqueEmails /\ LedgerMirrorsUsers /\ ConsumedIsRevoked /\ NoOrphanSessions)
<1>1. GatewayInit => UniqueEmails /\ LedgerMirrorsUsers
  <2>. SUFFICES ASSUME GatewayInit PROVE UniqueEmails /\ LedgerMirrorsUsers
    OBVIOUS
  <2>1. UniqueEmails
    BY DEF GatewayInit, UniqueEmails
  <2>2. PICK event : event = [type |-> "registered", user |-> Owner, email |-> email[Owner],
                              name |-> name[Owner]]
    OBVIOUS
  <2>3. ledger = <<event>> /\ event.type = "registered" /\ event.user = Owner
        /\ event.email = email[Owner] /\ event.name = name[Owner]
    BY <2>2 DEF GatewayInit
  <2>4. DOMAIN ledger = {1} /\ ledger[1] = event /\ 1 <= 1
    BY <2>3
  <2>5. ASSUME NEW u \in Users, NEW types
        PROVE  EventsOf(u, types) = IF u = Owner /\ "registered" \in types THEN {1} ELSE {}
    BY <2>3, <2>4 DEF EventsOf
  <2>6. Cardinality({1}) = 1 /\ Cardinality({}) = 0
    BY FS_Singleton, FS_EmptySet
  <2>7. \A u \in Users : status[u] = IF u = Owner THEN "active" ELSE "absent"
    BY DEF GatewayInit
  <2>8. ASSUME NEW u \in Users PROVE Mirrored(u)
    <3>1. CASE u = Owner
      <4>1. /\ EventsOf(u, {"registered"}) = {1} /\ EventsOf(u, {"deleted"}) = {}
            /\ EventsOf(u, {"registered", "updated"}) = {1}
        BY <2>5, <3>1
      <4>. QED
        BY <2>3, <2>4, <2>6, <2>7, <3>1, <4>1 DEF Mirrored
    <3>2. CASE u # Owner
      <4>1. EventsOf(u, {"registered"}) = {} /\ EventsOf(u, {"deleted"}) = {}
        BY <2>5, <3>2
      <4>. QED
        BY <2>6, <2>7, <3>2, <4>1 DEF Mirrored
    <3>. QED
      BY <3>1, <3>2
  <2>. QED
    BY <2>1, <2>8 DEF LedgerMirrorsUsers, Mirrored
<1>2. GatewayInv => TypeOK /\ GatewayTypeOK /\ ConsumedIsRevoked /\ NoOrphanSessions
  BY DEF GatewayInv, GatewayTypeOK, SessionInv
<1>. QED
  BY <1>1, <1>2, AccountStep, NextEmails, NextMirror, GatewayInvariant, PTL DEF GatewaySpec
=============================================================================
