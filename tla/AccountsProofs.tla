--------------------------- MODULE AccountsProofs ---------------------------
(* Proofs about Accounts, for any number of users, addresses, tokens and    *)
(* requests.                                                                *)
EXTENDS Accounts, TLAPS, FiniteSetTheorems, SequenceTheorems

-----------------------------------------------------------------------------
(* Type correctness.                                                        *)

(* The initial state is well typed.                                         *)
LEMMA InitType == Init => TypeOK
<1>. SUFFICES ASSUME Init PROVE TypeOK
  OBVIOUS
<1>1. /\ (CHOOSE u \in Users : TRUE) \in Users
      /\ (CHOOSE e \in Emails : TRUE) \in Emails
      /\ (CHOOSE n \in Names : TRUE) \in Names
  BY UserAssumption
<1>2. NoRow \in TokenRow
  BY <1>1 DEF NoRow, TokenRow, NoToken
<1>3. token \in [Tokens -> TokenRow]
  BY <1>2 DEF Init
<1>. QED
  BY <1>1, <1>3, BoundAssumption DEF Init, TypeOK, Request

(* A row issued next is a row, and its id is within the bound.              *)
LEMMA NewTokenType ==
  ASSUME TypeOK, NEW u \in Users, NEW from \in Nat, NEW family \in Nat, NEW pw \in Nat,
         issued < MaxTokens
  PROVE  /\ NewToken(u, from, family, pw) \in TokenRow
         /\ issued + 1 \in Tokens /\ issued + 1 \in 0..MaxTokens /\ issued + 1 \in Nat
  BY BoundAssumption DEF TypeOK, NewToken, TokenRow, NoToken, Tokens

(* Revoking keeps a row a row.                                              *)
LEMMA RevokedType ==
  ASSUME NEW row \in TokenRow, NEW by \in Nat
  PROVE  Revoked(row, by) \in TokenRow
  BY DEF Revoked, TokenRow

(* Ending all sessions keeps the rows and the families typed.               *)
LEMMA RevokeAllType ==
  ASSUME TypeOK, NEW u, RevokeAll(u)
  PROVE  token' \in [Tokens -> TokenRow] /\ ended' \subseteq Nat
<1>1. \A t \in Tokens : token[t] \in TokenRow /\ token[t].family \in Nat
  BY DEF TypeOK, TokenRow
<1>2. \A t \in Tokens : [token[t] EXCEPT !.state = "revoked"] \in TokenRow
  BY <1>1 DEF TokenRow
<1>. QED
  BY <1>1, <1>2 DEF RevokeAll, TypeOK

(* Appending an event keeps the ledger a sequence of events.                *)
LEMMA EmitType ==
  ASSUME TypeOK, NEW u \in Users, NEW e \in Emails, NEW n \in Names,
         NEW type \in {"registered", "updated", "password_changed", "deleted"},
         Emit(type, u, e, n)
  PROVE  ledger' \in Seq(Event) /\ Len(ledger) + 1 \in Nat
<1>1. [type |-> type, user |-> u, email |-> e, name |-> n] \in Event
  BY DEF Event
<1>. QED
  BY <1>1 DEF Emit, TypeOK

(* What a request in flight has read, by the step it is about to take.      *)
LEMMA RequestFields ==
  ASSUME TypeOK, NEW r \in Requests
  PROVE  /\ req[r].at = "issue" => req[r].user \in Users /\ req[r].password \in Nat
         /\ req[r].at \in {"findUser", "rotate", "revoke"} => req[r].token \in Tokens
         /\ req[r].at = "revokeAll" => req[r].user \in Users
         /\ req[r].at \in {"update", "password", "delete"} =>
              req[r].user \in Users /\ req[r].email \in Emails /\ req[r].name \in Names
  BY DEF TypeOK, Request, Idle

(* A request that begins with a well-typed record keeps everything typed.   *)
LEMMA BeginType ==
  ASSUME TypeOK, NEW r \in Requests, NEW what \in Request, Begin(r, what)
  PROVE  TypeOK'
  BY BoundAssumption DEF Begin, TypeOK, accountVars, sessionVars

(* A request that ends leaves the requests typed.                           *)
LEMMA EndType ==
  ASSUME TypeOK, NEW r \in Requests, End(r)
  PROVE  req' \in [Requests -> Request] /\ begun' \in 0..MaxBegun
  BY DEF End, TypeOK, Request

(* The first step of every request.                                         *)
LEMMA ReadType ==
  ASSUME TypeOK, NEW r \in Requests
  PROVE  /\ \A u \in Users, e \in Emails, n \in Names : Update(r, u, e, n) => TypeOK'
         /\ \A u \in Users : Login(r, u) \/ ChangePassword(r, u) \/ DeleteAccount(r, u) => TypeOK'
         /\ \A t \in Tokens : Refresh(r, t) \/ Logout(r, t) => TypeOK'
<1>1. ASSUME NEW u \in Users, NEW e \in Emails, NEW n \in Names, Update(r, u, e, n)
      PROVE  TypeOK'
  <2>1. [at |-> "update", user |-> u, email |-> e, name |-> n, changed |-> Changed(u, e, n)]
          \in Request
    BY DEF Request, Changed
  <2>. QED
    BY <1>1, <2>1, BeginType DEF Update
<1>2. ASSUME NEW u \in Users, Login(r, u) PROVE TypeOK'
  <2>1. [at |-> "issue", user |-> u, password |-> password[u]] \in Request
    BY DEF Request, TypeOK
  <2>. QED
    BY <1>2, <2>1, BeginType DEF Login
<1>3. ASSUME NEW u \in Users, ChangePassword(r, u) PROVE TypeOK'
  <2>1. [at |-> "password", user |-> u, email |-> email[u], name |-> name[u]] \in Request
    BY DEF Request, TypeOK
  <2>. QED
    BY <1>3, <2>1, BeginType DEF ChangePassword
<1>4. ASSUME NEW u \in Users, DeleteAccount(r, u) PROVE TypeOK'
  <2>1. [at |-> "delete", user |-> u, email |-> email[u], name |-> name[u]] \in Request
    BY DEF Request, TypeOK
  <2>. QED
    BY <1>4, <2>1, BeginType DEF DeleteAccount
<1>5. ASSUME NEW t \in Tokens PROVE token[t].user \in Users
  BY DEF TypeOK, TokenRow
<1>6. ASSUME NEW t \in Tokens, Refresh(r, t) PROVE TypeOK'
  <2>1. AfterLookup(t) \in Request
    BY <1>5 DEF AfterLookup, Request
  <2>. QED
    BY <1>6, <2>1, BeginType DEF Refresh
<1>7. ASSUME NEW t \in Tokens, Logout(r, t) PROVE TypeOK'
  <2>1. /\ [at |-> "revoke", token |-> t] \in Request
        /\ [at |-> "revokeAll", user |-> token[t].user] \in Request
    BY <1>5 DEF Request
  <2>. QED
    BY <1>7, <2>1, BeginType DEF Logout
<1>. QED
  BY <1>1, <1>2, <1>3, <1>4, <1>6, <1>7

(* The later steps of every request.                                        *)
LEMMA CommitType ==
  ASSUME TypeOK, NEW r \in Requests, Commit(r)
  PROVE  TypeOK'
<1>. USE DEF accountVars, sessionVars
<1>1. CASE LoginIssue(r)
  <2>1. req[r].user \in Users /\ req[r].password \in Nat /\ issued \in Nat
    BY <1>1, RequestFields DEF LoginIssue, TypeOK
  <2>. DEFINE new == NewToken(req[r].user, NoToken, issued + 1, req[r].password)
  <2>3. new \in TokenRow /\ issued + 1 \in Tokens /\ issued + 1 \in 0..MaxTokens
    BY <1>1, <2>1, NewTokenType DEF LoginIssue, NoToken
  <2>4. \/ token' = [token EXCEPT ![issued + 1] = new] /\ issued' = issued + 1
        \/ UNCHANGED <<token, issued>>
    BY <1>1 DEF LoginIssue
  <2>. HIDE DEF new
  <2>2. token' \in [Tokens -> TokenRow] /\ issued' \in 0..MaxTokens
    BY <2>3, <2>4 DEF TypeOK
  <2>. QED
    BY <1>1, <2>2, EndType DEF LoginIssue, TypeOK
<1>2. CASE FindUser(r)
  <2>1. req[r].token \in Tokens
    BY <1>2, RequestFields DEF FindUser
  <2>2. \A at \in {"rotate", "revoke"} : [at |-> at, token |-> req[r].token] \in Request
    BY <2>1 DEF Request
  <2>3. req' \in [Requests -> Request]
    BY <1>2, <2>2 DEF FindUser, TypeOK
  <2>. QED
    BY <1>2, <2>3 DEF FindUser, TypeOK
<1>3. CASE Rotate(r)
  <2>. DEFINE t == req[r].token
  <2>1. t \in Tokens /\ t \in Nat /\ issued \in Nat
    BY <1>3, RequestFields DEF Rotate, TypeOK, Tokens
  <2>2. /\ token[t] \in TokenRow /\ token[t].user \in Users
        /\ token[t].family \in Nat /\ token[t].password \in Nat
    BY <2>1 DEF TypeOK, TokenRow
  <2>3. PICK new \in TokenRow :
          \/ /\ token' = [token EXCEPT ![issued + 1] = new, ![t] = Revoked(token[t], issued + 1)]
             /\ issued' = issued + 1 /\ issued + 1 \in 0..MaxTokens
          \/ UNCHANGED <<token, issued>>
    BY <1>3, <2>1, <2>2, NewTokenType DEF Rotate
  <2>4. Revoked(token[t], issued + 1) \in TokenRow
    BY <2>1, <2>2, RevokedType
  <2>. HIDE DEF t
  <2>5. token' \in [Tokens -> TokenRow] /\ issued' \in 0..MaxTokens
    BY <2>1, <2>3, <2>4 DEF TypeOK
  <2>. QED
    BY <1>3, <2>5, EndType DEF Rotate, TypeOK
<1>4. CASE RevokeOne(r)
  <2>1. token' \in [Tokens -> TokenRow]
    BY <1>4, RevokedType DEF RevokeOne, TypeOK, NoToken
  <2>. QED
    BY <1>4, <2>1, EndType DEF RevokeOne, TypeOK
<1>5. CASE RevokeSessions(r)
  BY <1>5, RevokeAllType, EndType DEF RevokeSessions, TypeOK
<1>6. CASE UpdateCommit(r)
  <2>1. req[r].user \in Users /\ req[r].email \in Emails /\ req[r].name \in Names
    BY <1>6, RequestFields DEF UpdateCommit
  <2>2. /\ email' \in [Users -> Emails] /\ name' \in [Users -> Names]
        /\ ledger' \in Seq(Event)
    BY <1>6, <2>1, EmitType DEF UpdateCommit, TypeOK
  <2>. QED
    BY <1>6, <2>2, EndType DEF UpdateCommit, TypeOK
<1>7. CASE PasswordCommit(r)
  <2>1. req[r].user \in Users /\ req[r].email \in Emails /\ req[r].name \in Names
    BY <1>7, RequestFields DEF PasswordCommit
  <2>2. ledger' \in Seq(Event) /\ Len(ledger) + 1 \in Nat
    BY <1>7, <2>1, EmitType DEF PasswordCommit
  <2>3. password' \in [Users -> Nat]
    BY <1>7, <2>2 DEF PasswordCommit, TypeOK
  <2>. QED
    BY <1>7, <2>2, <2>3, RevokeAllType, EndType DEF PasswordCommit, TypeOK
<1>8. CASE DeleteCommit(r)
  <2>1. req[r].user \in Users /\ req[r].email \in Emails /\ req[r].name \in Names
    BY <1>8, RequestFields DEF DeleteCommit
  <2>2. \A t \in Tokens : [token[t] EXCEPT !.state = "none"] \in TokenRow
    BY DEF TypeOK, TokenRow
  <2>4. ledger' \in Seq(Event)
    BY <1>8, <2>1, EmitType DEF DeleteCommit, TypeOK
  <2>5. status' \in [Users -> {"absent", "active", "deleted"}]
    BY <1>8, <2>1 DEF DeleteCommit, TypeOK
  <2>6. token' \in [Tokens -> TokenRow]
    BY <1>8, <2>2 DEF DeleteCommit, TypeOK
  <2>3. ledger' \in Seq(Event) /\ token' \in [Tokens -> TokenRow]
    BY <2>4, <2>6
  <2>. QED
    BY <1>8, <2>3, <2>5, EndType DEF DeleteCommit, TypeOK
<1>. QED
  BY <1>1, <1>2, <1>3, <1>4, <1>5, <1>6, <1>7, <1>8 DEF Commit

(* A registration adds a typed row to each table.                           *)
LEMMA RegisterType ==
  ASSUME TypeOK, NEW u \in Users, NEW e \in Emails, NEW n \in Names, Register(u, e, n)
  PROVE  TypeOK'
<1>1. ledger' \in Seq(Event) /\ Len(ledger) + 1 \in Nat
  BY EmitType DEF Register
<1>2. issued \in Nat /\ NoToken \in Nat /\ issued + 1 \in Nat
  BY DEF TypeOK, NoToken
<1>3. /\ NewToken(u, NoToken, issued + 1, Len(ledger) + 1) \in TokenRow
      /\ issued + 1 \in Tokens /\ issued + 1 \in 0..MaxTokens
  BY <1>1, <1>2, NewTokenType DEF Register
<1>4. begun' \in 0..MaxBegun
  BY BoundAssumption DEF Register, TypeOK
<1>. QED
  BY <1>1, <1>3, <1>4 DEF Register, TypeOK

(* Every step preserves type correctness.                                   *)
LEMMA NextType == TypeOK /\ [Next]_vars => TypeOK'
<1>. SUFFICES ASSUME TypeOK, [Next]_vars PROVE TypeOK'
  OBVIOUS
<1>1. ASSUME NEW r \in Requests, Abort(r) PROVE TypeOK'
  BY <1>1, EndType DEF Abort, TypeOK, accountVars, sessionVars
<1>2. ASSUME NEW t \in Tokens, Expire(t) PROVE TypeOK'
  <2>1. [token[t] EXCEPT !.expired = TRUE] \in TokenRow
    BY DEF TypeOK, TokenRow
  <2>2. token' \in [Tokens -> TokenRow]
    BY <1>2, <2>1 DEF Expire, TypeOK
  <2>. QED
    BY <1>2, <2>2 DEF Expire, TypeOK, accountVars, sessionVars
<1>3. CASE UNCHANGED vars
  BY <1>3 DEF vars, accountVars, sessionVars, TypeOK
<1>. QED
  BY <1>1, <1>2, <1>3, RegisterType, ReadType, CommitType DEF Next

(* Rows, the ledger and what requests have in hand stay well formed.        *)
THEOREM TypeCorrect == Spec => []TypeOK
<1>. QED
  BY InitType, NextType, PTL DEF Spec

-----------------------------------------------------------------------------
(* Addresses.                                                               *)

(* The unique index carries over every step: an address is taken only by a  *)
(* registration and by the commit of an update, and both meet the index.    *)
LEMMA NextEmails == TypeOK /\ UniqueEmails /\ [Next]_vars => UniqueEmails'
<1>. SUFFICES ASSUME TypeOK, UniqueEmails, [Next]_vars PROVE UniqueEmails'
  OBVIOUS
<1>. USE DEF accountVars, sessionVars
<1>1. ASSUME NEW u \in Users, NEW e \in Emails, NEW n \in Names, Register(u, e, n)
      PROVE  UniqueEmails'
  BY <1>1 DEF Register, EmailFree, UniqueEmails, TypeOK
<1>2. ASSUME NEW r \in Requests, UpdateCommit(r) PROVE UniqueEmails'
  <2>1. req[r].user \in Users
    BY <1>2, RequestFields DEF UpdateCommit
  <2>2. UNCHANGED status
    BY <1>2 DEF UpdateCommit
  <2>3. PICK e \in Emails : \/ EmailFree(req[r].user, e) /\ email' = [email EXCEPT ![req[r].user] = e]
                            \/ UNCHANGED email
    BY <1>2, <2>1, RequestFields DEF UpdateCommit, TypeOK
  <2>. QED
    BY <2>1, <2>2, <2>3 DEF EmailFree, UniqueEmails, TypeOK
<1>3. ASSUME NEW r \in Requests, DeleteCommit(r) PROVE UniqueEmails'
  <2>1. UNCHANGED email /\ \A u \in Users : status'[u] = "active" => status[u] = "active"
    BY <1>3 DEF DeleteCommit, TypeOK
  <2>. QED
    BY <2>1 DEF UniqueEmails
<1>4. CASE UNCHANGED <<status, email>>
  BY <1>4 DEF UniqueEmails
<1>. QED
  BY <1>1, <1>2, <1>3, <1>4 DEF Next, Update, Login, ChangePassword, DeleteAccount, Refresh, Logout,
     Begin, Commit, LoginIssue, FindUser, Rotate, RevokeOne, RevokeSessions, PasswordCommit,
     Abort, Expire, vars

(* Two accounts never share an address, whatever their requests decided on  *)
(* rows read earlier.                                                       *)
THEOREM AddressesUnique == Spec => []UniqueEmails
<1>1. Init => UniqueEmails
  BY DEF Init, UniqueEmails
<1>. QED
  BY <1>1, NextEmails, TypeCorrect, PTL DEF Spec

-----------------------------------------------------------------------------
(* Sessions.                                                                *)

(* Tokens are issued in order, rotated from tokens issued before, and what  *)
(* a refresh carries across its awaits was issued too.                      *)
IssuedInv ==
  /\ \A t \in Tokens : token[t].state # "none" => t <= issued /\ token[t].from <= issued
  /\ \A r \in Requests : req[r].at \in {"findUser", "rotate"} => req[r].token <= issued

SessionInv == IssuedInv /\ ConsumedIsRevoked /\ NoOrphanSessions

(* No row comes (back) to life.                                             *)
Fading == \A t \in Tokens :
  /\ token'[t].user = token[t].user /\ token'[t].from = token[t].from
  /\ token'[t].state # "none" => token[t].state # "none"
  /\ token'[t].state = "live" => token[t].state = "live"

(* A step after which every row is at most what it was keeps the invariant, *)
(* if it deletes no account that has rows and no request learns of a token. *)
LEMMA FadingKeeps ==
  ASSUME TypeOK, SessionInv, Fading, UNCHANGED issued,
         \A t \in Tokens : token'[t].state # "none" /\ status[token[t].user] = "active"
            => status'[token[t].user] = "active",
         \A r \in Requests : req'[r].at \in {"findUser", "rotate"} => req'[r].token <= issued
  PROVE  SessionInv'
<1>1. IssuedInv'
  BY DEF SessionInv, IssuedInv, Fading
<1>2. ConsumedIsRevoked'
  BY DEF SessionInv, ConsumedIsRevoked, Fading, Live
<1>3. NoOrphanSessions'
  BY DEF SessionInv, NoOrphanSessions, Fading
<1>. QED
  BY <1>1, <1>2, <1>3 DEF SessionInv

(* A new token of an active account, rotated from one that is revoked with  *)
(* it or from none, keeps the invariant: nothing was rotated from it yet.   *)
LEMMA IssueKeeps ==
  ASSUME TypeOK, SessionInv, issued < MaxTokens, issued' = issued + 1,
         NEW u \in Users, status'[u] = "active", NEW from \in Nat,
         from = NoToken \/ from <= issued,
         token'[issued + 1].user = u, token'[issued + 1].from = from,
         \A t \in Tokens \ {issued + 1} :
           /\ token'[t].user = token[t].user /\ token'[t].from = token[t].from
           /\ token'[t].state # "none" => token[t].state # "none"
           /\ token'[t].state = "live" => token[t].state = "live" /\ t # from,
         \A v \in Users : status[v] = "active" => status'[v] = "active",
         \A r \in Requests : req'[r].at \in {"findUser", "rotate"} =>
           req'[r].token \in Nat /\ req'[r].token <= issued
  PROVE  SessionInv'
<1>. DEFINE n == issued + 1
<1>1. issued \in Nat /\ n \in Tokens /\ ~(n <= issued) /\ NoToken \notin Tokens /\ NoToken <= issued
  BY BoundAssumption DEF TypeOK, Tokens, NoToken
<1>2. /\ \A t \in Tokens : token[t].from \in Nat /\ token[t].user \in Users
      /\ \A r \in Requests : req'[r].at \in {"findUser", "rotate"} =>
           req'[r].token \in Nat /\ req'[r].token <= issued
  BY DEF TypeOK, TokenRow
<1>6. Tokens \subseteq Nat
  BY DEF Tokens
<1>3. IssuedInv'
  <2>1. ASSUME NEW t \in Tokens, token'[t].state # "none"
        PROVE  t <= issued + 1 /\ token'[t].from <= issued + 1
    <3>1. CASE t = n
      BY <1>1, <3>1
    <3>2. CASE t # n
      <4>1. t <= issued /\ token[t].from <= issued /\ token'[t].from = token[t].from
        BY <2>1, <3>2 DEF SessionInv, IssuedInv
      <4>. QED
        BY <1>1, <1>2, <1>6, <4>1
    <3>. QED
      BY <3>1, <3>2
  <2>2. ASSUME NEW r \in Requests, req'[r].at \in {"findUser", "rotate"}
        PROVE  req'[r].token <= issued + 1
    BY <1>1, <1>2, <2>2
  <2>. QED
    BY <2>1, <2>2 DEF IssuedInv
<1>4. ConsumedIsRevoked'
  <2>. SUFFICES ASSUME NEW s \in Tokens, token'[s].state # "none", token'[s].from \in Tokens
                PROVE  token'[token'[s].from].state # "live"
    BY DEF ConsumedIsRevoked, Live
  <2>1. CASE s = n
    BY <1>1, <2>1
  <2>2. CASE s # n
    <3>1. token[s].state # "none" /\ token[s].from = token'[s].from /\ token[s].from # n
      BY <1>1, <2>2 DEF SessionInv, IssuedInv
    <3>. QED
      BY <3>1 DEF SessionInv, ConsumedIsRevoked, Live
  <2>. QED
    BY <2>1, <2>2
<1>5. NoOrphanSessions'
  BY <1>1, <1>2 DEF SessionInv, NoOrphanSessions
<1>. QED
  BY <1>3, <1>4, <1>5 DEF SessionInv

(* The first step of a request, and the lookup of a token's user.           *)
LEMMA ReadSession ==
  ASSUME TypeOK, SessionInv, NEW r \in Requests,
         \/ \E u \in Users, e \in Emails, n \in Names : Update(r, u, e, n)
         \/ \E u \in Users : Login(r, u) \/ ChangePassword(r, u) \/ DeleteAccount(r, u)
         \/ \E t \in Tokens : Refresh(r, t) \/ Logout(r, t)
         \/ FindUser(r) \/ UpdateCommit(r) \/ Abort(r)
  PROVE  SessionInv'
<1>1. UNCHANGED <<status, token, issued>>
  BY DEF Update, Login, ChangePassword, DeleteAccount, Refresh, Logout, FindUser, UpdateCommit,
         Abort, Begin, accountVars, sessionVars
<1>2. Fading
  BY <1>1 DEF Fading
<1>3. PICK q : req' = [req EXCEPT ![r] = q]
  BY DEF Update, Login, ChangePassword, DeleteAccount, Refresh, Logout, FindUser, UpdateCommit,
         Abort, Begin, End
<1>4. req'[r].at \in {"findUser", "rotate"} => req'[r].token <= issued
  <2>1. ASSUME NEW t \in Tokens, Refresh(r, t)
        PROVE  req'[r].at \in {"findUser", "rotate"} => req'[r].token <= issued
    BY <2>1 DEF Refresh, AfterLookup, Begin, TypeOK, SessionInv, IssuedInv
  <2>2. CASE FindUser(r)
    BY <2>2 DEF FindUser, TypeOK, SessionInv, IssuedInv
  <2>3. CASE UpdateCommit(r) \/ Abort(r)
    BY <2>3 DEF UpdateCommit, Abort, End, Idle, TypeOK
  <2>. QED
    BY <2>1, <2>2, <2>3 DEF Update, Login, ChangePassword, DeleteAccount, Logout, Begin, TypeOK
<1>5. \A s \in Requests : req'[s].at \in {"findUser", "rotate"} => req'[s].token <= issued
  BY <1>3, <1>4 DEF TypeOK, SessionInv, IssuedInv
<1>. QED
  BY <1>1, <1>2, <1>5, FadingKeeps

(* A request that ends knows no token afterwards.                           *)
LEMMA EndForgets ==
  ASSUME TypeOK, SessionInv, NEW r \in Requests, End(r)
  PROVE  \A s \in Requests : req'[s].at \in {"findUser", "rotate"} =>
           req'[s].token \in Nat /\ req'[s].token <= issued
<1>1. \A s \in Requests : req'[s] = IF s = r THEN Idle ELSE req[s]
  BY DEF End, TypeOK
<1>2. \A s \in Requests : req[s].at \in {"findUser", "rotate"} =>
        req[s].token \in Nat /\ req[s].token <= issued
  BY RequestFields DEF SessionInv, IssuedInv, Tokens
<1>. QED
  BY <1>1, <1>2 DEF Idle

(* The steps that revoke or delete.                                         *)
LEMMA EndSession ==
  ASSUME TypeOK, SessionInv, NEW r \in Requests,
         RevokeOne(r) \/ RevokeSessions(r) \/ PasswordCommit(r) \/ DeleteCommit(r)
  PROVE  SessionInv'
<1>1. UNCHANGED issued /\ End(r)
  BY DEF RevokeOne, RevokeSessions, PasswordCommit, DeleteCommit
<1>2. \A t \in Tokens : token[t] \in TokenRow
  BY DEF TypeOK
<1>3. CASE RevokeOne(r)
  <2>1. \A t \in Tokens : token'[t] \in {token[t], Revoked(token[t], NoToken)}
    BY <1>3 DEF RevokeOne, TypeOK
  <2>2. \A t \in Tokens : LET row == Revoked(token[t], NoToken) IN
          /\ row.user = token[t].user /\ row.from = token[t].from /\ row.state # "live"
          /\ row.state # "none" => token[t].state # "none"
    BY <1>2 DEF Revoked, TokenRow
  <2>3. Fading
    BY <2>1, <2>2 DEF Fading
  <2>. QED
    BY <1>1, <1>3, <2>3, EndForgets, FadingKeeps DEF RevokeOne, accountVars
<1>4. CASE RevokeSessions(r) \/ PasswordCommit(r)
  <2>1. \A t \in Tokens : token'[t] = token[t] \/
          (token[t].state = "live" /\ token'[t] = [token[t] EXCEPT !.state = "revoked"])
    BY <1>4 DEF RevokeSessions, PasswordCommit, RevokeAll
  <2>2. Fading
    BY <1>2, <2>1 DEF Fading, TokenRow
  <2>. QED
    BY <1>1, <1>4, <2>2, EndForgets, FadingKeeps DEF RevokeSessions, PasswordCommit, accountVars
<1>5. CASE DeleteCommit(r)
  <2>. DEFINE u == req[r].user
  <2>1. CASE UNCHANGED <<status, token>>
    BY <1>1, <2>1, EndForgets, FadingKeeps DEF Fading
  <2>2. CASE ~UNCHANGED <<status, token>>
    <3>1. /\ status' = [status EXCEPT ![u] = "deleted"]
          /\ \A t \in Tokens : token'[t] = IF token[t].user = u
                                            THEN [token[t] EXCEPT !.state = "none"] ELSE token[t]
      BY <1>5, <2>2 DEF DeleteCommit
    <3>2. Fading
      BY <1>2, <3>1 DEF Fading, TokenRow
    <3>3. \A t \in Tokens : token'[t].state # "none" /\ status[token[t].user] = "active"
            => status'[token[t].user] = "active"
      BY <1>2, <3>1 DEF TokenRow, TypeOK
    <3>. QED
      BY <1>1, <3>2, <3>3, EndForgets, FadingKeeps
  <2>. QED
    BY <2>1, <2>2
<1>. QED
  BY <1>3, <1>4, <1>5

(* The steps that issue a token.                                            *)
LEMMA IssueSession ==
  ASSUME TypeOK, SessionInv,
         \/ \E u \in Users, e \in Emails, n \in Names : Register(u, e, n)
         \/ \E r \in Requests : LoginIssue(r) \/ Rotate(r)
  PROVE  SessionInv'
<1>. DEFINE n == issued + 1
<1>1. /\ \A t \in Tokens : token[t] \in TokenRow /\ token[t].user \in Users
      /\ issued \in Nat /\ NoToken \in Nat /\ n \in Nat
      /\ issued < MaxTokens => n \in Tokens
  BY BoundAssumption DEF TypeOK, TokenRow, NoToken, Tokens
<1>2. ASSUME NEW u, NEW from, NEW family, NEW pw
      PROVE  NewToken(u, from, family, pw).user = u /\ NewToken(u, from, family, pw).from = from
  BY DEF NewToken
<1>3. ASSUME NEW u \in Users, NEW e \in Emails, NEW m \in Names, Register(u, e, m)
      PROVE  SessionInv'
  <2>1. PICK row : token' = [token EXCEPT ![n] = row] /\ row.user = u /\ row.from = NoToken
    <3>. DEFINE new == NewToken(u, NoToken, n, Len(ledger) + 1)
    <3>1. token' = [token EXCEPT ![n] = new]
      BY <1>3 DEF Register
    <3>2. new.user = u /\ new.from = NoToken
      BY <1>2
    <3>. HIDE DEF new
    <3>. QED
      BY <3>1, <3>2
  <2>2. /\ issued < MaxTokens /\ issued' = n /\ UNCHANGED req
        /\ status' = [status EXCEPT ![u] = "active"]
    BY <1>3 DEF Register
  <2>3. \A s \in Requests : req'[s].at \in {"findUser", "rotate"} =>
           req'[s].token \in Nat /\ req'[s].token <= issued
    BY <2>2, RequestFields DEF SessionInv, IssuedInv, Tokens
  <2>4. \A t \in Tokens : t # NoToken
    BY DEF Tokens, NoToken
  <2>5. /\ token'[n].user = u /\ token'[n].from = NoToken
        /\ \A t \in Tokens \ {n} : token'[t] = token[t]
        /\ status'[u] = "active" /\ \A v \in Users : status[v] = "active" => status'[v] = "active"
    BY <1>1, <2>1, <2>2 DEF TypeOK
  <2>. QED
    BY <1>1, <2>2, <2>3, <2>4, <2>5, IssueKeeps
<1>4. ASSUME NEW r \in Requests, LoginIssue(r) PROVE SessionInv'
  <2>. DEFINE u == req[r].user
  <2>1. End(r) /\ UNCHANGED status /\ issued < MaxTokens /\ u \in Users
    BY <1>4, RequestFields DEF LoginIssue, accountVars
  <2>2. CASE ~KeyHolds(u)
    BY <1>4, <2>1, <2>2, EndForgets, FadingKeeps DEF LoginIssue, Fading
  <2>3. CASE KeyHolds(u)
    <3>1. PICK row : token' = [token EXCEPT ![n] = row] /\ row.user = u /\ row.from = NoToken
      <4>. DEFINE new == NewToken(u, NoToken, n, req[r].password)
      <4>1. token' = [token EXCEPT ![n] = new]
        BY <1>4, <2>3 DEF LoginIssue
      <4>2. new.user = u /\ new.from = NoToken
        BY <1>2
      <4>. HIDE DEF new
      <4>. QED
        BY <4>1, <4>2
    <3>2. issued' = n /\ status'[u] = "active"
      BY <1>4, <2>1, <2>3 DEF LoginIssue, KeyHolds
    <3>3. /\ token'[n].user = u /\ token'[n].from = NoToken
          /\ \A t \in Tokens \ {n} : token'[t] = token[t] /\ t # NoToken
      BY <1>1, <2>1, <3>1 DEF TypeOK, Tokens, NoToken
    <3>. QED
      BY <1>1, <2>1, <3>2, <3>3, EndForgets, IssueKeeps
  <2>. QED
    BY <2>2, <2>3
<1>5. ASSUME NEW r \in Requests, Rotate(r) PROVE SessionInv'
  <2>. DEFINE t == req[r].token
              u == token[t].user
  <2>1. /\ End(r) /\ UNCHANGED status /\ issued < MaxTokens
        /\ t \in Tokens /\ t \in Nat /\ t <= issued /\ u \in Users
    BY <1>1, <1>5, RequestFields DEF Rotate, accountVars, SessionInv, IssuedInv, Tokens
  <2>2. CASE ~KeyHolds(u)
    BY <1>5, <2>1, <2>2, EndForgets, FadingKeeps DEF Rotate, Fading
  <2>3. CASE KeyHolds(u)
    <3>1. PICK row : /\ row.user = u /\ row.from = t
                     /\ token' = [token EXCEPT ![n] = row, ![t] = Revoked(token[t], n)]
      <4>. DEFINE new == NewToken(u, t, token[t].family, token[t].password)
      <4>1. token' = [token EXCEPT ![n] = new, ![t] = Revoked(token[t], n)]
        BY <1>5, <2>3 DEF Rotate
      <4>2. new.user = u /\ new.from = t
        BY <1>2
      <4>. HIDE DEF new
      <4>. QED
        BY <4>1, <4>2
    <3>2. issued' = n /\ status'[u] = "active"
      BY <1>5, <2>1, <2>3 DEF Rotate, KeyHolds
    <3>3. LET old == Revoked(token[t], n) IN
            /\ old.user = token[t].user /\ old.from = token[t].from /\ old.state # "live"
            /\ old.state # "none" => token[t].state # "none"
      BY <1>1, <2>1 DEF Revoked, TokenRow
    <3>4. n \in Tokens /\ n # t
      BY <1>1, <2>1
    <3>5. /\ token'[n] = row /\ token'[t] = Revoked(token[t], n)
          /\ \A s \in Tokens \ {n, t} : token'[s] = token[s]
      BY <2>1, <3>1, <3>4 DEF TypeOK
    <3>6. \A s \in Tokens \ {n} :
            /\ token'[s].user = token[s].user /\ token'[s].from = token[s].from
            /\ token'[s].state # "none" => token[s].state # "none"
            /\ token'[s].state = "live" => token[s].state = "live" /\ s # t
      BY <3>3, <3>5
    <3>7. \A s \in Requests : req'[s].at \in {"findUser", "rotate"} =>
            req'[s].token \in Nat /\ req'[s].token <= issued
      BY <2>1, EndForgets
    <3>. HIDE DEF t, u
    <3>. QED
      BY <1>1, <2>1, <3>1, <3>2, <3>5, <3>6, <3>7, IssueKeeps
  <2>. QED
    BY <2>2, <2>3
<1>. QED
  BY <1>3, <1>4, <1>5

(* Every step preserves the invariant.                                      *)
LEMMA NextSession == TypeOK /\ SessionInv /\ [Next]_vars => SessionInv'
<1>. SUFFICES ASSUME TypeOK, SessionInv, [Next]_vars PROVE SessionInv'
  OBVIOUS
<1>1. ASSUME NEW t \in Tokens, Expire(t) PROVE SessionInv'
  <2>1. UNCHANGED <<status, issued, req>> /\ Fading
    BY <1>1 DEF Expire, accountVars, Fading, TypeOK, TokenRow
  <2>. QED
    BY <2>1, FadingKeeps DEF SessionInv, IssuedInv
<1>2. CASE UNCHANGED vars
  BY <1>2, FadingKeeps DEF vars, accountVars, sessionVars, Fading, SessionInv, IssuedInv
<1>. QED
  BY <1>1, <1>2, ReadSession, EndSession, IssueSession DEF Next, Commit

(* The invariant holds, for any number of requests in flight.               *)
LEMMA SessionInvariant == Spec => []SessionInv
<1>1. Init => SessionInv
  BY BoundAssumption DEF Init, SessionInv, IssuedInv, ConsumedIsRevoked, NoOrphanSessions, Live,
     NoRow, Idle, NoToken, Tokens
<1>. QED
  BY <1>1, NextSession, TypeCorrect, PTL DEF Spec

(* A rotated token stays consumed and no token outlives its account, for    *)
(* any number of requests in flight.                                        *)
THEOREM SessionsConsistent == Spec => [](ConsumedIsRevoked /\ NoOrphanSessions)
<1>1. SessionInv => ConsumedIsRevoked /\ NoOrphanSessions
  BY DEF SessionInv
<1>. QED
  BY <1>1, SessionInvariant, PTL

-----------------------------------------------------------------------------
(* The ledger.                                                              *)

(* An event enlarges the sets of events it belongs to, and no other.        *)
LEMMA EventsGrow ==
  ASSUME TypeOK, NEW v \in Users, NEW e \in Emails, NEW n \in Names,
         NEW type \in {"registered", "updated", "password_changed", "deleted"},
         Emit(type, v, e, n), NEW u \in Users, NEW types
  PROVE  /\ Len(ledger) \in Nat
         /\ \A i \in 1..Len(ledger) : ledger'[i] = ledger[i]
         /\ ledger'[Len(ledger) + 1].email = e /\ ledger'[Len(ledger) + 1].name = n
         /\ EventsOf(u, types) \in SUBSET (1..Len(ledger))
         /\ EventsOf(u, types)' = IF u = v /\ type \in types
                                  THEN EventsOf(u, types) \cup {Len(ledger) + 1}
                                  ELSE EventsOf(u, types)
<1>. DEFINE row == [type |-> type, user |-> v, email |-> e, name |-> n]
<1>1. row \in Event /\ row.user = v /\ row.type = type /\ row.email = e /\ row.name = n
  BY DEF Event
<1>2. ledger' = Append(ledger, row) /\ ledger \in Seq(Event)
  BY DEF Emit, TypeOK
<1>. HIDE DEF row
<1>3. /\ Len(ledger) \in Nat /\ Len(ledger') = Len(ledger) + 1
      /\ \A i \in 1..Len(ledger) : ledger'[i] = ledger[i]
      /\ ledger'[Len(ledger) + 1] = row
      /\ DOMAIN ledger = 1..Len(ledger) /\ DOMAIN ledger' = 1..(Len(ledger) + 1)
  BY <1>1, <1>2, AppendProperties
<1>4. \A i \in DOMAIN ledger' : i \in DOMAIN ledger \/ i = Len(ledger) + 1
  BY <1>3
<1>5. DOMAIN ledger \subseteq DOMAIN ledger' /\ Len(ledger) + 1 \in DOMAIN ledger'
  BY <1>3
<1>6. EventsOf(u, types)' = IF u = v /\ type \in types
                           THEN EventsOf(u, types) \cup {Len(ledger) + 1}
                           ELSE EventsOf(u, types)
  BY <1>1, <1>3, <1>4, <1>5 DEF EventsOf
<1>. QED
  BY <1>1, <1>3, <1>6 DEF EventsOf

(* The part of the property about one account.                              *)
Mirrored(u) ==
  /\ Cardinality(EventsOf(u, {"registered"})) = IF status[u] = "absent" THEN 0 ELSE 1
  /\ Cardinality(EventsOf(u, {"deleted"}))    = IF status[u] = "deleted" THEN 1 ELSE 0
  /\ status[u] # "absent" =>
       \E i \in EventsOf(u, {"registered", "updated"}) :
         /\ \A j \in EventsOf(u, {"registered", "updated"}) : j <= i
         /\ ledger[i].email = email[u] /\ ledger[i].name = name[u]

(* An account whose row does not change keeps its mirror, if no event of    *)
(* its profile and no deletion is added for it.                             *)
LEMMA MirrorStays ==
  ASSUME TypeOK, NEW u \in Users, Mirrored(u),
         status'[u] = status[u], email'[u] = email[u], name'[u] = name[u],
         \/ UNCHANGED ledger
         \/ \E v \in Users, e \in Emails, n \in Names,
               type \in {"registered", "updated", "password_changed", "deleted"} :
               /\ Emit(type, v, e, n)
               /\ v # u \/ type = "password_changed"
  PROVE  Mirrored(u)'
<1>1. CASE UNCHANGED ledger
  BY <1>1 DEF Mirrored, EventsOf
<1>2. CASE ~UNCHANGED ledger
  <2>1. PICK v \in Users, e \in Emails, n \in Names,
             type \in {"registered", "updated", "password_changed", "deleted"} :
               Emit(type, v, e, n) /\ (v # u \/ type = "password_changed")
    BY <1>2
  <2>0. ASSUME NEW types, "password_changed" \notin types
        PROVE  /\ EventsOf(u, types)' = EventsOf(u, types)
               /\ \A i \in EventsOf(u, types) : ledger'[i] = ledger[i]
    <3>1. /\ EventsOf(u, types)' = IF u = v /\ type \in types
                                   THEN EventsOf(u, types) \cup {Len(ledger) + 1}
                                   ELSE EventsOf(u, types)
          /\ EventsOf(u, types) \in SUBSET (1..Len(ledger))
          /\ \A i \in 1..Len(ledger) : ledger'[i] = ledger[i]
      BY <2>1, EventsGrow
    <3>. QED
      BY <2>0, <2>1, <3>1
  <2>2. /\ EventsOf(u, {"registered"})' = EventsOf(u, {"registered"})
        /\ EventsOf(u, {"deleted"})' = EventsOf(u, {"deleted"})
        /\ EventsOf(u, {"registered", "updated"})' = EventsOf(u, {"registered", "updated"})
    BY <2>0
  <2>3. \A i \in EventsOf(u, {"registered", "updated"}) : ledger'[i] = ledger[i]
    BY <2>0
  <2>. QED
    BY <2>2, <2>3 DEF Mirrored
<1>. QED
  BY <1>1, <1>2

(* The commit of a profile: its event is the latest of the account.         *)
LEMMA ProfileMirrors ==
  ASSUME TypeOK, NEW u \in Users, Mirrored(u), NEW e \in Emails, NEW n \in Names,
         NEW type \in {"registered", "updated"}, Emit(type, u, e, n),
         email'[u] = e, name'[u] = n, status'[u] = "active",
         status[u] = IF type = "registered" THEN "absent" ELSE "active"
  PROVE  Mirrored(u)'
<1>. DEFINE k == Len(ledger) + 1
            Profile == {"registered", "updated"}
<1>0. type \in {"registered", "updated", "password_changed", "deleted"}
  OBVIOUS
<1>a. ASSUME NEW types
      PROVE  /\ Len(ledger) \in Nat /\ ledger'[k].email = e /\ ledger'[k].name = n
             /\ EventsOf(u, types) \in SUBSET (1..Len(ledger))
             /\ EventsOf(u, types)' = IF type \in types THEN EventsOf(u, types) \cup {k}
                                                        ELSE EventsOf(u, types)
  <2>1. /\ Len(ledger) \in Nat /\ ledger'[k].email = e /\ ledger'[k].name = n
        /\ EventsOf(u, types) \in SUBSET (1..Len(ledger))
    BY <1>0, EventsGrow
  <2>2. EventsOf(u, types)' = IF u = u /\ type \in types THEN EventsOf(u, types) \cup {k}
                                                         ELSE EventsOf(u, types)
    BY <1>0, EventsGrow
  <2>. QED
    BY <2>1, <2>2
<1>1. /\ k \in Nat /\ ledger'[k].email = e /\ ledger'[k].name = n /\ k <= k
      /\ EventsOf(u, Profile)' = EventsOf(u, Profile) \cup {k}
      /\ EventsOf(u, {"deleted"})' = EventsOf(u, {"deleted"})
      /\ \A i \in EventsOf(u, Profile) : i <= k
  <2>1. /\ EventsOf(u, Profile)' = EventsOf(u, Profile) \cup {k}
        /\ EventsOf(u, {"deleted"})' = EventsOf(u, {"deleted"})
    BY <1>a
  <2>2. \A i \in EventsOf(u, Profile) : i \in 1..Len(ledger)
    BY <1>a
  <2>. QED
    BY <1>a, <2>1, <2>2
<1>2. Cardinality(EventsOf(u, {"registered"})') = 1
  <2>1. CASE type = "registered"
    <3>1. IsFiniteSet(EventsOf(u, {"registered"}))
      <4>1. Len(ledger) \in Nat /\ EventsOf(u, {"registered"}) \in SUBSET (1..Len(ledger))
        BY <1>a
      <4>2. IsFiniteSet(1..Len(ledger))
        BY <4>1, FS_Interval
      <4>. QED
        BY <4>1, <4>2, FS_Subset
    <3>2. EventsOf(u, {"registered"}) = {}
      BY <2>1, <3>1, FS_EmptySet DEF Mirrored
    <3>3. EventsOf(u, {"registered"})' = {k}
      BY <1>a, <2>1, <3>2
    <3>. QED
      BY <3>3, FS_Singleton
  <2>2. CASE type = "updated"
    BY <1>a, <2>2 DEF Mirrored
  <2>. QED
    BY <2>1, <2>2
<1>3. Cardinality(EventsOf(u, {"deleted"})') = 0
  BY <1>1 DEF Mirrored
<1>. HIDE DEF k
<1>. QED
  BY <1>1, <1>2, <1>3 DEF Mirrored

(* Every step keeps the ledger and the table in agreement.                  *)
LEMMA NextMirror == TypeOK /\ LedgerMirrorsUsers /\ [Next]_vars => LedgerMirrorsUsers'
<1>1. LedgerMirrorsUsers <=> \A u \in Users : Mirrored(u)
  BY DEF LedgerMirrorsUsers, Mirrored
<1>2. LedgerMirrorsUsers' <=> \A u \in Users : Mirrored(u)'
  BY DEF LedgerMirrorsUsers, Mirrored
<1>. SUFFICES ASSUME TypeOK, [Next]_vars, NEW u \in Users, Mirrored(u) PROVE Mirrored(u)'
  BY <1>1, <1>2
<1>. USE DEF accountVars, sessionVars
<1>3. ASSUME NEW v \in Users, NEW e \in Emails, NEW n \in Names, Register(v, e, n)
      PROVE  Mirrored(u)'
  <2>1. CASE u = v
    BY <1>3, <2>1, ProfileMirrors DEF Register, TypeOK
  <2>2. CASE u # v
    BY <1>3, <2>2, MirrorStays DEF Register, TypeOK
  <2>. QED
    BY <2>1, <2>2
<1>4. ASSUME NEW r \in Requests, UpdateCommit(r) PROVE Mirrored(u)'
  <2>1. PICK v : v = req[r].user
    OBVIOUS
  <2>2. /\ v \in Users /\ req[r].email \in Emails /\ req[r].name \in Names /\ UNCHANGED status
        /\ email[v] \in Emails /\ name[v] \in Names
    BY <1>4, <2>1, RequestFields DEF UpdateCommit, TypeOK
  <2>3. \/ UNCHANGED <<email, name, ledger>>
        \/ \E e \in Emails, n \in Names :
             /\ status[v] = "active" /\ Emit("updated", v, e, n)
             /\ email' = [email EXCEPT ![v] = e] /\ name' = [name EXCEPT ![v] = n]
    BY <1>4, <2>1, <2>2 DEF UpdateCommit
  <2>4. CASE UNCHANGED <<email, name, ledger>>
    BY <2>2, <2>4, MirrorStays
  <2>5. ASSUME NEW e \in Emails, NEW n \in Names, status[v] = "active", Emit("updated", v, e, n),
               email' = [email EXCEPT ![v] = e], name' = [name EXCEPT ![v] = n]
        PROVE  Mirrored(u)'
    <3>1. CASE u = v
      BY <2>2, <2>5, <3>1, ProfileMirrors DEF TypeOK
    <3>2. CASE u # v
      BY <2>2, <2>5, <3>2, MirrorStays DEF TypeOK
    <3>. QED
      BY <3>1, <3>2
  <2>. QED
    BY <2>3, <2>4, <2>5
<1>5. ASSUME NEW r \in Requests, PasswordCommit(r) PROVE Mirrored(u)'
  BY <1>5, RequestFields, MirrorStays DEF PasswordCommit
<1>6. ASSUME NEW r \in Requests, DeleteCommit(r) PROVE Mirrored(u)'
  <2>1. PICK v : v = req[r].user
    OBVIOUS
  <2>2. /\ v \in Users /\ req[r].email \in Emails /\ req[r].name \in Names
        /\ UNCHANGED <<email, name>>
    BY <1>6, <2>1, RequestFields DEF DeleteCommit
  <2>3. CASE status[v] = "active"
    <3>1. /\ Emit("deleted", v, req[r].email, req[r].name)
          /\ status' = [status EXCEPT ![v] = "deleted"]
      BY <1>6, <2>1, <2>3 DEF DeleteCommit
    <3>2. CASE u # v
      BY <2>2, <3>1, <3>2, MirrorStays DEF TypeOK
    <3>3. CASE u = v
      <4>1. /\ status[u] = "active" /\ status'[u] = "deleted"
        BY <2>2, <2>3, <3>1, <3>3 DEF TypeOK
      <4>a. ASSUME NEW types
            PROVE  /\ Len(ledger) \in Nat /\ \A i \in 1..Len(ledger) : ledger'[i] = ledger[i]
                   /\ EventsOf(u, types) \in SUBSET (1..Len(ledger))
                   /\ EventsOf(u, types)' = IF "deleted" \in types
                                            THEN EventsOf(u, types) \cup {Len(ledger) + 1}
                                            ELSE EventsOf(u, types)
        <5>1. EventsOf(u, types)' = IF u = v /\ "deleted" \in types
                                    THEN EventsOf(u, types) \cup {Len(ledger) + 1}
                                    ELSE EventsOf(u, types)
          BY <2>2, <3>1, EventsGrow
        <5>2. /\ Len(ledger) \in Nat /\ \A i \in 1..Len(ledger) : ledger'[i] = ledger[i]
              /\ EventsOf(u, types) \in SUBSET (1..Len(ledger))
          BY <2>2, <3>1, EventsGrow
        <5>. QED
          BY <3>3, <5>1, <5>2
      <4>2. /\ EventsOf(u, {"deleted"})' = EventsOf(u, {"deleted"}) \cup {Len(ledger) + 1}
            /\ EventsOf(u, {"deleted"}) \in SUBSET (1..Len(ledger)) /\ Len(ledger) \in Nat
        BY <4>a
      <4>3. IsFiniteSet(EventsOf(u, {"deleted"})) /\ Len(ledger) + 1 \notin EventsOf(u, {"deleted"})
        <5>1. Len(ledger) + 1 \notin 1..Len(ledger)
          BY <4>2
        <5>. QED
          <6>1. IsFiniteSet(1..Len(ledger))
            BY <4>2, FS_Interval
          <6>2. IsFiniteSet(EventsOf(u, {"deleted"}))
            BY <4>2, <6>1, FS_Subset
          <6>. QED
            BY <4>2, <5>1, <6>2
      <4>4. Cardinality(EventsOf(u, {"deleted"})') = 1
        BY <4>1, <4>2, <4>3, FS_AddElement DEF Mirrored
      <4>5. /\ EventsOf(u, {"registered"})' = EventsOf(u, {"registered"})
            /\ EventsOf(u, {"registered", "updated"})' = EventsOf(u, {"registered", "updated"})
            /\ \A i \in EventsOf(u, {"registered", "updated"}) : ledger'[i] = ledger[i]
        <5>1. \A i \in EventsOf(u, {"registered", "updated"}) : i \in 1..Len(ledger)
          BY <4>a
        <5>. QED
          BY <4>a, <5>1
      <4>. QED
        BY <2>2, <4>1, <4>4, <4>5 DEF Mirrored
    <3>. QED
      BY <3>2, <3>3
  <2>4. CASE status[v] # "active"
    BY <1>6, <2>1, <2>2, <2>4, MirrorStays DEF DeleteCommit
  <2>. QED
    BY <2>3, <2>4
<1>7. CASE UNCHANGED <<status, email, name, ledger>>
  BY <1>7, MirrorStays
<1>. QED
  BY <1>3, <1>4, <1>5, <1>6, <1>7 DEF Next, Update, Login, ChangePassword, DeleteAccount, Refresh,
     Logout, Begin, Commit, LoginIssue, FindUser, Rotate, RevokeOne, RevokeSessions, Abort, Expire,
     vars

(* The outbox alone tells what is in the users table, whichever requests    *)
(* interleaved.                                                             *)
THEOREM LedgerTellsUsers == Spec => []LedgerMirrorsUsers
<1>1. Init => LedgerMirrorsUsers
  <2>. SUFFICES ASSUME Init, NEW u \in Users
                PROVE  /\ status[u] = "absent"
                       /\ \A types : Cardinality(EventsOf(u, types)) = 0
    BY DEF LedgerMirrorsUsers
  <2>1. DOMAIN ledger = {}
    BY DEF Init
  <2>. QED
    BY <2>1, FS_EmptySet DEF Init, EventsOf
<1>. QED
  BY <1>1, NextMirror, TypeCorrect, PTL DEF Spec

-----------------------------------------------------------------------------
(* Requests about different accounts.                                       *)
(* What overlapping requests of one account break (the run                  *)
(* MCAccountsDoubleRefresh shows one case) holds as long as the requests of *)
(* each account come one after the other, whatever the requests of other    *)
(* accounts do at the same time.                                            *)

(* The account a request in flight is about.                                *)
Subject(r) ==
  IF req[r].at \in {"findUser", "rotate", "revoke"} THEN token[req[r].token].user ELSE req[r].user

OneRequestPerUser ==
  \A r, s \in Requests : req[r] # Idle /\ req[s] # Idle /\ Subject(r) = Subject(s) => r = s

(* Families are numbered by the tokens they begin with, and each belongs to *)
(* one account.                                                             *)
FamilyInv ==
  /\ \A t \in Tokens : token[t].state # "none" => token[t].family <= issued
  /\ \A f \in ended : f <= issued
  /\ \A s, t \in Tokens :
       /\ token[s].state # "none" /\ token[t].state # "none"
       /\ token[s].family = token[t].family
       => token[s].user = token[t].user

(* What a request has read is still so.                                     *)
FreshRead(r) ==
  /\ req[r].at \in {"findUser", "rotate"} => Live(req[r].token)
  /\ req[r].at = "issue" =>
       status[req[r].user] # "absent" /\ req[r].password = password[req[r].user]
  /\ req[r].at = "update" =>
       /\ status[req[r].user] # "absent"
       /\ req[r].changed # {}
       /\ req[r].changed = Changed(req[r].user, req[r].email, req[r].name)
  /\ req[r].at = "password" => status[req[r].user] = "active"

TokenInv == FamilyInv /\ OneLivePerFamily /\ EndedStaysEnded /\ SessionsMatchPassword

SerialInv ==
  /\ TokenInv
  /\ \A u \in Users : password[u] <= Len(ledger)
  /\ \A r \in Requests : FreshRead(r)

(* The fields of a row.                                                     *)
LEMMA RowFields ==
  ASSUME TypeOK, NEW t \in Tokens
  PROVE  /\ token[t] \in TokenRow /\ token[t].user \in Users /\ token[t].family \in Nat
         /\ token[t].password \in Nat /\ t \in Nat /\ issued \in Nat
<1>1. token[t] \in TokenRow /\ issued \in 0..MaxTokens
  BY DEF TypeOK
<1>2. t \in Nat /\ issued \in Nat
  BY <1>1 DEF Tokens
<1>. QED
  BY <1>1, <1>2 DEF TokenRow

(* A request in flight is about an account.                                 *)
LEMMA SubjectType ==
  ASSUME TypeOK, NEW r \in Requests, req[r] # Idle
  PROVE  Subject(r) \in Users
<1>1. req[r].at \in {"findUser", "rotate", "revoke"} => req[r].token \in Tokens
  BY RequestFields
<1>2. req[r].at \notin {"findUser", "rotate", "revoke"} => req[r].user \in Users
  BY DEF TypeOK, Request, Idle
<1>. QED
  BY <1>1, <1>2, RowFields DEF Subject

(* An account a step leaves alone: neither its row nor a live session of it *)
(* changes.                                                                 *)
Untouched(v) ==
  /\ status'[v] = status[v] /\ email'[v] = email[v]
  /\ name'[v] = name[v] /\ password'[v] = password[v]
  /\ \A t \in Tokens : token[t].state = "live" /\ token[t].user = v
       => token'[t].state = "live" /\ token'[t].user = v

(* What a request has read about an account left alone is still so.         *)
LEMMA FreshKept ==
  ASSUME TypeOK, NEW s \in Requests, FreshRead(s), req'[s] = req[s],
         req[s].at \in {"findUser", "rotate", "issue", "update", "password"} =>
           Untouched(Subject(s))
  PROVE  FreshRead(s)'
<1>1. CASE req[s].at \in {"findUser", "rotate"}
  <2>1. req[s].token \in Tokens /\ Subject(s) = token[req[s].token].user
    BY <1>1, RequestFields DEF Subject
  <2>2. token[req[s].token].state = "live"
    BY <1>1 DEF FreshRead, Live
  <2>3. token'[req[s].token].state = "live"
    BY <1>1, <2>1, <2>2 DEF Untouched
  <2>. QED
    BY <1>1, <2>3 DEF FreshRead, Live
<1>2. CASE req[s].at \in {"issue", "update", "password"}
  <2>1. Subject(s) = req[s].user
    BY <1>2 DEF Subject
  <2>2. CASE req[s].at = "issue"
    BY <2>1, <2>2 DEF FreshRead, Untouched
  <2>3. CASE req[s].at = "update"
    BY <2>1, <2>3 DEF FreshRead, Untouched, Changed
  <2>4. CASE req[s].at = "password"
    BY <2>1, <2>4 DEF FreshRead, Untouched
  <2>. QED
    BY <1>2, <2>2, <2>3, <2>4
<1>3. CASE req[s].at \notin {"findUser", "rotate", "issue", "update", "password"}
  BY <1>3 DEF FreshRead
<1>. QED
  BY <1>1, <1>2, <1>3

(* A step of a request touches no account but its own, so what the others   *)
(* have read stays so.                                                      *)
LEMMA OthersFresh ==
  ASSUME TypeOK, OneRequestPerUser, \A s \in Requests : FreshRead(s),
         NEW r \in Requests, req[r] # Idle, \E q : req' = [req EXCEPT ![r] = q],
         \A v \in Users \ {Subject(r)} : Untouched(v)
  PROVE  \A s \in Requests \ {r} : FreshRead(s)'
<1>. SUFFICES ASSUME NEW s \in Requests \ {r} PROVE FreshRead(s)'
  OBVIOUS
<1>1. req'[s] = req[s]
  BY DEF TypeOK
<1>2. ASSUME req[s].at \in {"findUser", "rotate", "issue", "update", "password"}
      PROVE  Untouched(Subject(s))
  <2>1. req[s] # Idle
    BY <1>2 DEF Idle
  <2>2. Subject(s) \in Users /\ Subject(s) # Subject(r)
    BY <2>1, SubjectType DEF OneRequestPerUser
  <2>. QED
    BY <2>2
<1>. QED
  BY <1>1, <1>2, FreshKept

(* A request that ends has read nothing.                                    *)
LEMMA EndFresh ==
  ASSUME TypeOK, OneRequestPerUser, \A s \in Requests : FreshRead(s),
         NEW r \in Requests, req[r] # Idle, End(r),
         \A v \in Users \ {Subject(r)} : Untouched(v)
  PROVE  \A s \in Requests : FreshRead(s)'
<1>1. \A s \in Requests \ {r} : FreshRead(s)'
  BY OthersFresh DEF End
<1>2. req'[r] = Idle
  BY DEF End, TypeOK
<1>3. FreshRead(r)'
  BY <1>2 DEF FreshRead, Idle
<1>. QED
  BY <1>1, <1>3

(* Rows that only fade, and families that end with all of their account's   *)
(* sessions.                                                                *)
LEMMA FadingTokens ==
  ASSUME TypeOK, TokenInv, issued' = issued,
         \A t \in Tokens :
           /\ token'[t].user = token[t].user /\ token'[t].family = token[t].family
           /\ token'[t].password = token[t].password
           /\ token'[t].state # "none" => token[t].state # "none"
           /\ token'[t].state = "live" =>
                /\ token[t].state = "live"
                /\ password'[token[t].user] = password[token[t].user],
         \A f \in ended' : f \in ended \/ \E s \in Tokens :
           /\ token[s].state # "none" /\ token[s].family = f
           /\ \A t \in Tokens : token[t].user = token[s].user => token'[t].state # "live"
  PROVE  TokenInv'
<1>1. FamilyInv'
  BY DEF TokenInv, FamilyInv
<1>2. OneLivePerFamily'
  BY DEF TokenInv, OneLivePerFamily, Live
<1>3. EndedStaysEnded'
  <2>. SUFFICES ASSUME NEW t \in Tokens, token'[t].state = "live", token[t].family \in ended'
                PROVE  FALSE
    BY DEF EndedStaysEnded, Live
  <2>1. token[t].state = "live" /\ token[t].state # "none" /\ token[t].family \notin ended
    BY DEF TokenInv, EndedStaysEnded, Live
  <2>2. PICK s \in Tokens :
          /\ token[s].state # "none" /\ token[s].family = token[t].family
          /\ \A x \in Tokens : token[x].user = token[s].user => token'[x].state # "live"
    BY <2>1
  <2>3. token[s].user = token[t].user
    BY <2>1, <2>2 DEF TokenInv, FamilyInv
  <2>. QED
    BY <2>2, <2>3
<1>4. SessionsMatchPassword'
  BY DEF TokenInv, SessionsMatchPassword, Live
<1>. QED
  BY <1>1, <1>2, <1>3, <1>4 DEF TokenInv

(* A new token with the present password of its account, the first of its   *)
(* family or the successor of the live one.                                 *)
LEMMA IssuedTokens ==
  ASSUME TypeOK, TokenInv, issued < MaxTokens, issued' = issued + 1, ended' = ended,
         NEW u \in Users, token'[issued + 1].user = u,
         token'[issued + 1].password = password'[u],
         \A t \in Tokens \ {issued + 1} :
           /\ token'[t].user = token[t].user /\ token'[t].family = token[t].family
           /\ token'[t].password = token[t].password
           /\ token'[t].state # "none" => token[t].state # "none"
           /\ token'[t].state = "live" =>
                /\ token[t].state = "live"
                /\ password'[token[t].user] = password[token[t].user],
         \/ token'[issued + 1].family = issued + 1
         \/ \E t \in Tokens \ {issued + 1} :
              /\ token[t].state = "live" /\ token'[t].state # "live"
              /\ token[t].user = u /\ token'[issued + 1].family = token[t].family
  PROVE  TokenInv'
<1>. DEFINE n == issued + 1
<1>1. /\ issued \in Nat /\ n \in Tokens /\ n \in Nat /\ ~(n <= issued) /\ n <= n
      /\ \A i \in Nat : i <= issued => i <= n
      /\ ended \subseteq Nat
      /\ \A t \in Tokens : token[t].family \in Nat
  <2>1. issued \in Nat /\ ended \subseteq Nat /\ MaxTokens \in Nat
    BY BoundAssumption DEF TypeOK
  <2>2. n \in Tokens
    BY <2>1 DEF Tokens
  <2>. QED
    BY <2>1, <2>2, RowFields
<1>. HIDE DEF n
<1>2. ASSUME NEW t \in Tokens \ {n}, token'[t].state # "none"
      PROVE  /\ token[t].state # "none" /\ token[t].family <= issued
             /\ token'[t].family = token[t].family /\ token'[t].user = token[t].user
  BY <1>2 DEF TokenInv, FamilyInv, n
<1>3. CASE token'[n].family = n
  <2>1. FamilyInv'
    <3>1. \A t \in Tokens : token'[t].state # "none" => token'[t].family <= issued'
      BY <1>1, <1>2, <1>3 DEF n
    <3>2. \A f \in ended' : f <= issued'
      BY <1>1 DEF TokenInv, FamilyInv, n
    <3>3. ASSUME NEW s \in Tokens, NEW t \in Tokens, token'[s].state # "none",
                 token'[t].state # "none", token'[s].family = token'[t].family
          PROVE  token'[s].user = token'[t].user
      BY <1>1, <1>2, <1>3, <3>3 DEF TokenInv, FamilyInv
    <3>. QED
      BY <3>1, <3>2, <3>3 DEF FamilyInv
  <2>2. OneLivePerFamily'
    <3>. SUFFICES ASSUME NEW s \in Tokens, NEW t \in Tokens, token'[s].state = "live",
                         token'[t].state = "live", token'[s].family = token'[t].family
                  PROVE  s = t
      BY DEF OneLivePerFamily, Live
    <3>. QED
      BY <1>1, <1>2, <1>3 DEF TokenInv, OneLivePerFamily, Live, n
  <2>3. EndedStaysEnded'
    BY <1>1, <1>2, <1>3 DEF TokenInv, FamilyInv, EndedStaysEnded, Live, n
  <2>. QED
    BY <2>1, <2>2, <2>3, <1>1 DEF TokenInv, SessionsMatchPassword, Live, n
<1>4. ASSUME NEW p \in Tokens \ {n}, token[p].state = "live", token'[p].state # "live",
             token[p].user = u, token'[n].family = token[p].family
      PROVE  TokenInv'
  <2>0. token[p].state # "none" /\ token[p].family <= issued
    BY <1>4 DEF TokenInv, FamilyInv
  <2>1. FamilyInv'
    <3>1. \A t \in Tokens : token'[t].state # "none" => token'[t].family <= issued'
      BY <1>1, <1>2, <1>4, <2>0 DEF n
    <3>2. \A f \in ended' : f <= issued'
      BY <1>1 DEF TokenInv, FamilyInv, n
    <3>3. ASSUME NEW s \in Tokens, NEW t \in Tokens, token'[s].state # "none",
                 token'[t].state # "none", token'[s].family = token'[t].family
          PROVE  token'[s].user = token'[t].user
      BY <1>1, <1>2, <1>4, <2>0, <3>3 DEF TokenInv, FamilyInv, n
    <3>. QED
      BY <3>1, <3>2, <3>3 DEF FamilyInv
  <2>2. OneLivePerFamily'
    <3>. SUFFICES ASSUME NEW s \in Tokens, NEW t \in Tokens, token'[s].state = "live",
                         token'[t].state = "live", token'[s].family = token'[t].family
                  PROVE  s = t
      BY DEF OneLivePerFamily, Live
    <3>1. \A x \in Tokens \ {n} : token'[x].state = "live" =>
            /\ token[x].state = "live" /\ token'[x].family = token[x].family
            /\ token[x].family # token[p].family
      BY <1>4 DEF TokenInv, OneLivePerFamily, Live, n
    <3>. QED
      BY <1>4, <3>1 DEF TokenInv, OneLivePerFamily, Live
  <2>3. EndedStaysEnded'
    BY <1>1, <1>2, <1>4 DEF TokenInv, EndedStaysEnded, Live, n
  <2>. QED
    BY <2>1, <2>2, <2>3, <1>1 DEF TokenInv, SessionsMatchPassword, Live, n
<1>. QED
  BY <1>3, <1>4 DEF n

(* Hashes are numbered by the events they were committed with.              *)
HashInv == \A u \in Users : password[u] <= Len(ledger)

(* A new hash comes with an event.                                          *)
LEMMA HashKept ==
  ASSUME TypeOK, HashInv,
         \/ UNCHANGED <<password, ledger>>
         \/ \E v \in Users, e \in Emails, n \in Names,
               type \in {"registered", "updated", "password_changed", "deleted"} :
               /\ Emit(type, v, e, n)
               /\ \A u \in Users : password'[u] \in {password[u], Len(ledger) + 1}
  PROVE  HashInv'
<1>1. CASE UNCHANGED <<password, ledger>>
  BY <1>1 DEF HashInv
<1>2. ASSUME NEW v \in Users, NEW e \in Emails, NEW n \in Names,
             NEW type \in {"registered", "updated", "password_changed", "deleted"},
             Emit(type, v, e, n),
             \A u \in Users : password'[u] \in {password[u], Len(ledger) + 1}
      PROVE  HashInv'
  <2>1. [type |-> type, user |-> v, email |-> e, name |-> n] \in Event /\ ledger \in Seq(Event)
    BY DEF Event, TypeOK
  <2>2. Len(ledger') = Len(ledger) + 1 /\ Len(ledger) \in Nat
    BY <1>2, <2>1, AppendProperties DEF Emit
  <2>3. \A u \in Users : password[u] \in Nat /\ password[u] <= Len(ledger)
    BY DEF HashInv, TypeOK
  <2>. QED
    BY <1>2, <2>2, <2>3 DEF HashInv
<1>. QED
  BY <1>1, <1>2

(* A step that only moves a request on.                                     *)
LEMMA ReadSerial ==
  ASSUME TypeOK, SerialInv, UNCHANGED <<accountVars, sessionVars, ledger>>,
         NEW r \in Requests, \E q : req' = [req EXCEPT ![r] = q], FreshRead(r)'
  PROVE  SerialInv'
<1>. USE DEF accountVars, sessionVars
<1>1. TokenInv'
  BY FadingTokens DEF SerialInv
<1>2. HashInv'
  BY HashKept DEF SerialInv, HashInv
<1>3. ASSUME NEW s \in Requests \ {r} PROVE FreshRead(s)'
  BY <1>3, FreshKept DEF SerialInv, Untouched, TypeOK
<1>. QED
  BY <1>1, <1>2, <1>3 DEF SerialInv, HashInv

(* The first step of every request, and the lookup of a token's user.       *)
LEMMA BeginSerial ==
  ASSUME TypeOK, SessionInv, SerialInv, NEW r \in Requests,
         \/ \E u \in Users, e \in Emails, n \in Names : Update(r, u, e, n)
         \/ \E u \in Users : Login(r, u) \/ ChangePassword(r, u) \/ DeleteAccount(r, u)
         \/ \E t \in Tokens : Refresh(r, t) \/ Logout(r, t)
         \/ FindUser(r) \/ Abort(r)
  PROVE  SerialInv'
<1>. USE DEF accountVars, sessionVars
<1>1. ASSUME NEW what, Begin(r, what)
      PROVE  /\ UNCHANGED <<accountVars, sessionVars, ledger>> /\ req'[r] = what
             /\ req' = [req EXCEPT ![r] = what]
  BY <1>1 DEF Begin, TypeOK
<1>2. ASSUME NEW u \in Users, NEW e \in Emails, NEW n \in Names, Update(r, u, e, n)
      PROVE  SerialInv'
  <2>1. PICK ch : ch = Changed(u, e, n)
    OBVIOUS
  <2>2. PICK what : what = [at |-> "update", user |-> u, email |-> e, name |-> n, changed |-> ch]
    OBVIOUS
  <2>3. Begin(r, what) /\ status[u] = "active" /\ ch # {}
    BY <1>2, <2>1, <2>2 DEF Update
  <2>4. FreshRead(r)'
    BY <1>1, <2>1, <2>2, <2>3 DEF FreshRead, Changed
  <2>. QED
    BY <1>1, <2>3, <2>4, ReadSerial
<1>3. ASSUME NEW u \in Users, Login(r, u) PROVE SerialInv'
  <2>1. PICK what : what = [at |-> "issue", user |-> u, password |-> password[u]]
    OBVIOUS
  <2>2. Begin(r, what) /\ status[u] = "active"
    BY <1>3, <2>1 DEF Login
  <2>3. FreshRead(r)'
    BY <1>1, <2>1, <2>2 DEF FreshRead
  <2>. QED
    BY <1>1, <2>2, <2>3, ReadSerial
<1>4. ASSUME NEW u \in Users, ChangePassword(r, u) \/ DeleteAccount(r, u) PROVE SerialInv'
  <2>1. PICK what : /\ Begin(r, what) /\ status[u] = "active"
                    /\ what.at \in {"password", "delete"} /\ what.user = u
    BY <1>4 DEF ChangePassword, DeleteAccount
  <2>2. FreshRead(r)'
    BY <1>1, <2>1 DEF FreshRead
  <2>. QED
    BY <1>1, <2>1, <2>2, ReadSerial
<1>5. ASSUME NEW t \in Tokens, Refresh(r, t) PROVE SerialInv'
  <2>1. PICK what : what = AfterLookup(t)
    OBVIOUS
  <2>2. Begin(r, what) /\ token[t].state # "none" /\ token[t] \in TokenRow
    BY <1>5, <2>1, RowFields DEF Refresh
  <2>3. \/ what.at = "revokeAll"
        \/ what.at = "findUser" /\ what.token = t /\ token[t].state = "live"
    BY <2>1, <2>2 DEF AfterLookup, TokenRow
  <2>4. FreshRead(r)'
    BY <1>1, <2>2, <2>3 DEF FreshRead, Live
  <2>. QED
    BY <1>1, <2>2, <2>4, ReadSerial
<1>6. ASSUME NEW t \in Tokens, Logout(r, t) PROVE SerialInv'
  <2>1. PICK what : Begin(r, what) /\ what.at \in {"revoke", "revokeAll"}
    BY <1>6 DEF Logout
  <2>2. FreshRead(r)'
    BY <1>1, <2>1 DEF FreshRead
  <2>. QED
    BY <1>1, <2>1, <2>2, ReadSerial
<1>7. CASE FindUser(r)
  <2>1. /\ UNCHANGED <<accountVars, sessionVars, ledger>>
        /\ \E q : req' = [req EXCEPT ![r] = q]
        /\ req'[r].at \in {"rotate", "revoke"} /\ req'[r].token = req[r].token
    BY <1>7 DEF FindUser, TypeOK
  <2>2. token[req[r].token].state = "live"
    BY <1>7 DEF FindUser, SerialInv, FreshRead, Live
  <2>3. FreshRead(r)'
    BY <2>1, <2>2 DEF FreshRead, Live
  <2>. QED
    BY <2>1, <2>3, ReadSerial
<1>8. CASE Abort(r)
  <2>1. /\ UNCHANGED <<accountVars, sessionVars, ledger>>
        /\ req' = [req EXCEPT ![r] = Idle] /\ req'[r] = Idle
    BY <1>8 DEF Abort, End, TypeOK
  <2>2. FreshRead(r)'
    BY <2>1 DEF FreshRead, Idle
  <2>. QED
    BY <2>1, <2>2, ReadSerial
<1>. QED
  BY <1>2, <1>3, <1>4, <1>5, <1>6, <1>7, <1>8

(* The steps that issue a token.                                            *)
LEMMA IssueSerial ==
  ASSUME TypeOK, SessionInv, SerialInv, OneRequestPerUser, NEW r \in Requests,
         LoginIssue(r) \/ Rotate(r)
  PROVE  SerialInv'
<1>. USE DEF accountVars, sessionVars
<1>1. /\ UNCHANGED <<accountVars, ended, ledger>> /\ End(r) /\ req[r] # Idle
      /\ issued < MaxTokens /\ \A s \in Requests : FreshRead(s)
  BY DEF LoginIssue, Rotate, Idle, SerialInv
<1>2. HashInv'
  BY <1>1, HashKept DEF SerialInv, HashInv
<1>3. /\ issued \in Nat /\ issued + 1 \in Tokens /\ issued + 1 \in Nat
      /\ \A t \in Tokens : token[t].state # "none" => t # issued + 1
  <2>1. issued \in Nat /\ MaxTokens \in Nat /\ issued + 1 \in 1..MaxTokens
    BY <1>1, BoundAssumption DEF TypeOK
  <2>. QED
    BY <2>1 DEF Tokens, SessionInv, IssuedInv
<1>4. ASSUME UNCHANGED <<token, issued>> PROVE SerialInv'
  <2>1. TokenInv'
    BY <1>1, <1>4, FadingTokens DEF SerialInv
  <2>2. \A v \in Users : Untouched(v)
    BY <1>1, <1>4 DEF Untouched
  <2>. QED
    BY <1>1, <1>2, <2>1, <2>2, EndFresh DEF SerialInv, HashInv
<1>5. CASE LoginIssue(r)
  <2>1. PICK u : u = req[r].user
    OBVIOUS
  <2>2. /\ u \in Users /\ Subject(r) = u /\ req[r].password = password[u]
    BY <1>1, <1>5, <2>1, RequestFields DEF LoginIssue, Subject, FreshRead
  <2>3. CASE ~KeyHolds(u)
    BY <1>4, <1>5, <2>1, <2>3 DEF LoginIssue
  <2>4. CASE KeyHolds(u)
    <3>1. PICK row : row = NewToken(u, NoToken, issued + 1, password[u])
      OBVIOUS
    <3>2. issued' = issued + 1 /\ token' = [token EXCEPT ![issued + 1] = row]
      BY <1>5, <2>1, <2>2, <2>4, <3>1 DEF LoginIssue
    <3>3. row.user = u /\ row.family = issued + 1 /\ row.password = password[u]
      BY <3>1 DEF NewToken
    <3>4. token'[issued + 1] = row /\ \A t \in Tokens \ {issued + 1} : token'[t] = token[t]
      BY <1>3, <3>2 DEF TypeOK
    <3>5. TokenInv'
      BY <1>1, <1>3, <2>2, <3>2, <3>3, <3>4, IssuedTokens DEF SerialInv
    <3>6. \A v \in Users : Untouched(v)
      BY <1>1, <1>3, <3>4 DEF Untouched
    <3>. QED
      BY <1>1, <1>2, <3>5, <3>6, EndFresh DEF SerialInv, HashInv
  <2>. QED
    BY <2>3, <2>4
<1>6. CASE Rotate(r)
  <2>1. PICK t : t = req[r].token
    OBVIOUS
  <2>2. /\ t \in Tokens /\ token[t].state = "live" /\ Subject(r) = token[t].user
    BY <1>1, <1>6, <2>1, RequestFields DEF Rotate, Subject, FreshRead, Live
  <2>a. PICK u : u = token[t].user
    OBVIOUS
  <2>b. /\ u \in Users /\ token[t].password = password[u] /\ t # issued + 1
        /\ token[t] \in TokenRow
    BY <1>3, <2>2, <2>a, RowFields DEF SerialInv, TokenInv, SessionsMatchPassword, Live
  <2>3. CASE ~KeyHolds(u)
    BY <1>4, <1>6, <2>1, <2>a, <2>3 DEF Rotate
  <2>4. CASE KeyHolds(u)
    <3>1. PICK row : row = NewToken(u, t, token[t].family, token[t].password)
      OBVIOUS
    <3>0. PICK old : old = Revoked(token[t], issued + 1)
      OBVIOUS
    <3>2. /\ issued' = issued + 1
          /\ token' = [token EXCEPT ![issued + 1] = row, ![t] = old]
      BY <1>6, <2>1, <2>a, <2>4, <3>0, <3>1 DEF Rotate
    <3>3. /\ row.user = u /\ row.family = token[t].family /\ row.password = password[u]
      BY <2>b, <3>1 DEF NewToken
    <3>4. /\ old.user = token[t].user /\ old.family = token[t].family
          /\ old.password = token[t].password /\ old.state # "live"
      BY <2>b, <3>0 DEF Revoked, TokenRow
    <3>5. /\ token'[issued + 1] = row /\ token'[t] = old
          /\ \A x \in Tokens \ {issued + 1, t} : token'[x] = token[x]
      BY <1>3, <2>2, <2>b, <3>2 DEF TypeOK
    <3>6. TokenInv'
      <4>1. \A x \in Tokens \ {issued + 1} :
              /\ token'[x].user = token[x].user /\ token'[x].family = token[x].family
              /\ token'[x].password = token[x].password
              /\ token'[x].state # "none" => token[x].state # "none"
              /\ token'[x].state = "live" => token[x].state = "live"
        BY <2>2, <3>4, <3>5
      <4>2. \E x \in Tokens \ {issued + 1} :
              /\ token[x].state = "live" /\ token'[x].state # "live"
              /\ token[x].user = u /\ token'[issued + 1].family = token[x].family
        BY <2>2, <2>a, <2>b, <3>3, <3>4, <3>5
      <4>3. password' = password
        BY <1>1
      <4>. QED
        BY <1>1, <2>b, <3>2, <3>3, <3>5, <4>1, <4>2, <4>3, IssuedTokens DEF SerialInv
    <3>7. \A v \in Users \ {u} : Untouched(v)
      BY <1>1, <1>3, <2>a, <3>5 DEF Untouched
    <3>. QED
      BY <1>1, <1>2, <2>2, <2>a, <3>6, <3>7, EndFresh DEF SerialInv, HashInv
  <2>. QED
    BY <2>3, <2>4
<1>. QED
  BY <1>5, <1>6

(* The steps that end sessions, and the deletion.                           *)
LEMMA EndSerial ==
  ASSUME TypeOK, SessionInv, SerialInv, OneRequestPerUser, NEW r \in Requests,
         RevokeOne(r) \/ RevokeSessions(r) \/ PasswordCommit(r) \/ DeleteCommit(r)
  PROVE  SerialInv'
<1>. USE DEF accountVars, sessionVars
<1>1. /\ issued' = issued /\ End(r) /\ req[r] # Idle
      /\ \A s \in Requests : FreshRead(s)
      /\ \A t \in Tokens : token[t] \in TokenRow
      /\ UNCHANGED <<email, name>>
  BY RowFields DEF RevokeOne, RevokeSessions, PasswordCommit, DeleteCommit, Idle, SerialInv
<1>2. ASSUME NEW u, RevokeAll(u)
      PROVE  /\ \A t \in Tokens :
                  /\ token'[t].user = token[t].user /\ token'[t].family = token[t].family
                  /\ token'[t].password = token[t].password
                  /\ token'[t].state # "none" => token[t].state # "none"
                  /\ token'[t].state = "live" => token[t].state = "live" /\ token[t].user # u
                  /\ token[t].user # u => token'[t] = token[t]
             /\ \A f \in ended' : f \in ended \/ \E s \in Tokens :
                  token[s].state # "none" /\ token[s].family = f /\ token[s].user = u
  <2>1. ASSUME NEW t \in Tokens
        PROVE  /\ token'[t].user = token[t].user /\ token'[t].family = token[t].family
               /\ token'[t].password = token[t].password
               /\ token'[t].state # "none" => token[t].state # "none"
               /\ token'[t].state = "live" => token[t].state = "live" /\ token[t].user # u
               /\ token[t].user # u => token'[t] = token[t]
    <3>1. \/ token'[t] = token[t] /\ (token[t].user # u \/ token[t].state # "live")
          \/ /\ token[t].user = u /\ token[t].state = "live"
             /\ token'[t] = [token[t] EXCEPT !.state = "revoked"]
      BY <1>2 DEF RevokeAll
    <3>. QED
      BY <1>1, <3>1 DEF TokenRow
  <2>2. \A f \in ended' : f \in ended \/ \E s \in Tokens :
          token[s].state # "none" /\ token[s].family = f /\ token[s].user = u
    BY <1>2 DEF RevokeAll
  <2>. QED
    BY <2>1, <2>2
<1>3. CASE RevokeOne(r)
  <2>1. PICK t : t = req[r].token
    OBVIOUS
  <2>2. t \in Tokens /\ Subject(r) = token[t].user /\ UNCHANGED <<accountVars, ended, ledger>>
    BY <1>3, <2>1, RequestFields DEF RevokeOne, Subject
  <2>3. PICK old : old = Revoked(token[t], NoToken)
    OBVIOUS
  <2>4. /\ old.user = token[t].user /\ old.family = token[t].family
        /\ old.password = token[t].password /\ old.state # "live"
        /\ old.state # "none" => token[t].state # "none"
    BY <1>1, <2>2, <2>3 DEF Revoked, TokenRow
  <2>5. token'[t] = old /\ \A x \in Tokens \ {t} : token'[x] = token[x]
    BY <1>3, <2>1, <2>2, <2>3 DEF RevokeOne, TypeOK
  <2>6. TokenInv'
    BY <1>1, <2>2, <2>4, <2>5, FadingTokens DEF SerialInv
  <2>7. HashInv'
    BY <2>2, HashKept DEF SerialInv, HashInv
  <2>8. \A v \in Users \ {Subject(r)} : Untouched(v)
    BY <2>2, <2>5 DEF Untouched
  <2>. QED
    BY <1>1, <2>6, <2>7, <2>8, EndFresh DEF SerialInv, HashInv
<1>4. CASE RevokeSessions(r)
  <2>1. PICK u : u = req[r].user
    OBVIOUS
  <2>2. RevokeAll(u) /\ Subject(r) = u /\ UNCHANGED <<accountVars, ledger>>
    BY <1>4, <2>1 DEF RevokeSessions, Subject
  <2>3. TokenInv'
    <3>1. \A t \in Tokens :
            /\ token'[t].user = token[t].user /\ token'[t].family = token[t].family
            /\ token'[t].password = token[t].password
            /\ token'[t].state # "none" => token[t].state # "none"
            /\ token'[t].state = "live" => token[t].state = "live" /\ token[t].user # u
      BY <1>2, <2>2
    <3>2. \A f \in ended' : f \in ended \/ \E s \in Tokens :
            /\ token[s].state # "none" /\ token[s].family = f
            /\ \A t \in Tokens : token[t].user = token[s].user => token'[t].state # "live"
      BY <1>2, <2>2, <3>1
    <3>. QED
      BY <1>1, <2>2, <3>1, <3>2, FadingTokens DEF SerialInv
  <2>4. HashInv'
    BY <2>2, HashKept DEF SerialInv, HashInv
  <2>5. \A v \in Users \ {Subject(r)} : Untouched(v)
    BY <1>2, <2>2 DEF Untouched
  <2>. QED
    BY <1>1, <2>3, <2>4, <2>5, EndFresh DEF SerialInv, HashInv
<1>5. CASE PasswordCommit(r)
  <2>1. PICK u : u = req[r].user
    OBVIOUS
  <2>2. /\ RevokeAll(u) /\ Subject(r) = u /\ UNCHANGED <<status, email, name>>
        /\ u \in Users /\ req[r].email \in Emails /\ req[r].name \in Names
        /\ Emit("password_changed", u, req[r].email, req[r].name)
    BY <1>5, <2>1, RequestFields DEF PasswordCommit, Subject
  <2>6. \/ UNCHANGED password
        \/ password' = [password EXCEPT ![u] = Len(ledger) + 1]
    BY <1>5, <2>1 DEF PasswordCommit
  <2>7. \A v \in Users : /\ v # u => password'[v] = password[v]
                         /\ password'[v] \in {password[v], Len(ledger) + 1}
    BY <2>2, <2>6 DEF TypeOK
  <2>3. TokenInv'
    <3>1. \A t \in Tokens :
            /\ token'[t].user = token[t].user /\ token'[t].family = token[t].family
            /\ token'[t].password = token[t].password
            /\ token'[t].state # "none" => token[t].state # "none"
            /\ token'[t].state = "live" => token[t].state = "live" /\ token[t].user # u
            /\ token[t].user \in Users
      BY <1>2, <2>2, RowFields
    <3>2. \A f \in ended' : f \in ended \/ \E s \in Tokens :
            /\ token[s].state # "none" /\ token[s].family = f
            /\ \A t \in Tokens : token[t].user = token[s].user => token'[t].state # "live"
      BY <1>2, <2>2, <3>1
    <3>. QED
      BY <1>1, <2>2, <2>7, <3>1, <3>2, FadingTokens DEF SerialInv
  <2>4. HashInv'
    BY <2>2, <2>7, HashKept DEF SerialInv, HashInv
  <2>5. \A v \in Users \ {Subject(r)} : Untouched(v)
    BY <1>2, <2>2, <2>7 DEF Untouched
  <2>. QED
    BY <1>1, <2>3, <2>4, <2>5, EndFresh DEF SerialInv, HashInv
<1>6. CASE DeleteCommit(r)
  <2>1. PICK u : u = req[r].user
    OBVIOUS
  <2>2. /\ Subject(r) = u /\ UNCHANGED <<password, ended>>
        /\ u \in Users /\ req[r].email \in Emails /\ req[r].name \in Names
    BY <1>6, <2>1, RequestFields DEF DeleteCommit, Subject
  <2>3. CASE status[u] # "active"
    <3>1. UNCHANGED <<status, token, ledger>>
      BY <1>6, <2>1, <2>3 DEF DeleteCommit
    <3>2. TokenInv'
      BY <1>1, <2>2, <3>1, FadingTokens DEF SerialInv
    <3>3. HashInv'
      BY <2>2, <3>1, HashKept DEF SerialInv, HashInv
    <3>4. \A v \in Users : Untouched(v)
      BY <1>1, <2>2, <3>1 DEF Untouched
    <3>. QED
      BY <1>1, <3>2, <3>3, <3>4, EndFresh DEF SerialInv, HashInv
  <2>4. CASE status[u] = "active"
    <3>1. /\ Emit("deleted", u, req[r].email, req[r].name)
          /\ status' = [status EXCEPT ![u] = "deleted"]
          /\ \A t \in Tokens : token'[t] = IF token[t].user = u
                                            THEN [token[t] EXCEPT !.state = "none"] ELSE token[t]
      BY <1>6, <2>1, <2>4 DEF DeleteCommit
    <3>5. \A t \in Tokens :
            /\ token'[t].user = token[t].user /\ token'[t].family = token[t].family
            /\ token'[t].password = token[t].password
            /\ token'[t].state # "none" => token[t].state # "none"
            /\ token'[t].state = "live" => token[t].state = "live"
            /\ token[t].user # u => token'[t] = token[t]
      BY <1>1, <3>1 DEF TokenRow
    <3>2. TokenInv'
      BY <1>1, <2>2, <3>5, FadingTokens DEF SerialInv
    <3>3. HashInv'
      BY <2>2, <3>1, HashKept DEF SerialInv, HashInv
    <3>4. \A v \in Users \ {Subject(r)} : Untouched(v)
      BY <1>1, <2>2, <3>1, <3>5 DEF Untouched, TypeOK
    <3>. QED
      BY <1>1, <3>2, <3>3, <3>4, EndFresh DEF SerialInv, HashInv
  <2>. QED
    BY <2>3, <2>4
<1>. QED
  BY <1>3, <1>4, <1>5, <1>6

(* The commit of an update writes the row of its own account only.          *)
LEMMA UpdateSerial ==
  ASSUME TypeOK, SerialInv, OneRequestPerUser, NEW r \in Requests, UpdateCommit(r)
  PROVE  SerialInv'
<1>. USE DEF accountVars, sessionVars
<1>1. /\ UNCHANGED <<status, password, token, issued, ended>> /\ End(r) /\ req[r] # Idle
      /\ \A s \in Requests : FreshRead(s)
  BY DEF UpdateCommit, Idle, SerialInv
<1>2. PICK u : u = req[r].user
  OBVIOUS
<1>3. u \in Users /\ Subject(r) = u /\ req[r].email \in Emails /\ req[r].name \in Names
  BY <1>2, RequestFields DEF UpdateCommit, Subject
<1>4. \/ UNCHANGED <<email, name, ledger>>
      \/ \E e \in Emails, n \in Names :
           /\ email' = [email EXCEPT ![u] = e] /\ name' = [name EXCEPT ![u] = n]
           /\ Emit("updated", u, e, n)
  <2>1. email[u] \in Emails /\ name[u] \in Names
    BY <1>3 DEF TypeOK
  <2>. QED
    BY <1>2, <1>3, <2>1 DEF UpdateCommit
<1>5. TokenInv'
  BY <1>1, FadingTokens DEF SerialInv
<1>6. HashInv'
  BY <1>1, <1>3, <1>4, HashKept DEF SerialInv, HashInv
<1>7. \A v \in Users \ {Subject(r)} : Untouched(v)
  BY <1>1, <1>3, <1>4 DEF Untouched, TypeOK
<1>. QED
  BY <1>1, <1>5, <1>6, <1>7, EndFresh DEF SerialInv, HashInv

(* A registration: nothing is known yet of the account it creates.          *)
LEMMA RegisterSerial ==
  ASSUME TypeOK, SessionInv, SerialInv,
         NEW u \in Users, NEW e \in Emails, NEW n \in Names, Register(u, e, n)
  PROVE  SerialInv'
<1>1. PICK row : row = NewToken(u, NoToken, issued + 1, Len(ledger) + 1)
  OBVIOUS
<1>2. /\ status[u] = "absent" /\ UNCHANGED <<req, ended>> /\ Emit("registered", u, e, n)
      /\ issued < MaxTokens /\ issued' = issued + 1 /\ token' = [token EXCEPT ![issued + 1] = row]
      /\ status' = [status EXCEPT ![u] = "active"] /\ email' = [email EXCEPT ![u] = e]
      /\ name' = [name EXCEPT ![u] = n] /\ password' = [password EXCEPT ![u] = Len(ledger) + 1]
  BY <1>1 DEF Register
<1>3. row.user = u /\ row.family = issued + 1 /\ row.password = Len(ledger) + 1
  BY <1>1 DEF NewToken
<1>4. /\ issued \in Nat /\ issued + 1 \in Tokens /\ issued + 1 \in Nat
      /\ \A t \in Tokens : token[t].state # "none" => t # issued + 1
  <2>1. issued \in Nat /\ MaxTokens \in Nat /\ issued + 1 \in 1..MaxTokens
    BY <1>2, BoundAssumption DEF TypeOK
  <2>. QED
    BY <2>1 DEF Tokens, SessionInv, IssuedInv
<1>5. token'[issued + 1] = row /\ \A t \in Tokens \ {issued + 1} : token'[t] = token[t]
  BY <1>2, <1>4 DEF TypeOK
<1>6. \A t \in Tokens : token[t].state = "live" => token[t].user \in Users \ {u}
  BY <1>2, RowFields DEF SessionInv, NoOrphanSessions
<1>7. /\ password'[u] = Len(ledger) + 1
      /\ \A v \in Users \ {u} : /\ status'[v] = status[v] /\ email'[v] = email[v]
                                /\ name'[v] = name[v] /\ password'[v] = password[v]
  BY <1>2 DEF TypeOK
<1>8. TokenInv'
  BY <1>2, <1>3, <1>4, <1>5, <1>6, <1>7, IssuedTokens DEF SerialInv
<1>9. HashInv'
  <2>1. \A v \in Users : password'[v] \in {password[v], Len(ledger) + 1}
    BY <1>7
  <2>. QED
    BY <1>2, <2>1, HashKept DEF SerialInv, HashInv
<1>10. ASSUME NEW s \in Requests PROVE FreshRead(s)'
  <2>1. FreshRead(s)
    BY DEF SerialInv
  <2>2. ASSUME req[s].at \in {"findUser", "rotate", "issue", "update", "password"}
        PROVE  Untouched(Subject(s))
    <3>1. req[s] # Idle /\ Subject(s) \in Users
      BY <2>2, SubjectType DEF Idle
    <3>2. Subject(s) # u
      <4>1. CASE req[s].at \in {"findUser", "rotate"}
        BY <1>6, <2>1, <4>1, RequestFields DEF Subject, FreshRead, Live
      <4>2. CASE req[s].at \in {"issue", "update", "password"}
        BY <1>2, <2>1, <4>2 DEF Subject, FreshRead
      <4>. QED
        BY <2>2, <4>1, <4>2
    <3>3. \A t \in Tokens : token[t].state = "live" => token'[t] = token[t]
      BY <1>4, <1>5
    <3>. QED
      BY <1>7, <3>1, <3>2, <3>3 DEF Untouched
  <2>. QED
    BY <1>2, <2>1, <2>2, FreshKept
<1>. QED
  BY <1>8, <1>9, <1>10 DEF SerialInv, HashInv

(* Every step preserves the invariant, unless requests of one account       *)
(* overlap.                                                                 *)
LEMMA NextSerial ==
  TypeOK /\ SessionInv /\ SerialInv /\ OneRequestPerUser /\ [Next]_vars => SerialInv'
<1>. SUFFICES ASSUME TypeOK, SessionInv, SerialInv, OneRequestPerUser, [Next]_vars
              PROVE  SerialInv'
  OBVIOUS
<1>1. ASSUME UNCHANGED <<accountVars, issued, ended, ledger, req>>,
             \A t \in Tokens : /\ token'[t].user = token[t].user
                               /\ token'[t].family = token[t].family
                               /\ token'[t].password = token[t].password
                               /\ token'[t].state = token[t].state
      PROVE  SerialInv'
  <2>. USE DEF accountVars
  <2>1. TokenInv'
    BY <1>1, FadingTokens DEF SerialInv
  <2>2. HashInv'
    BY <1>1, HashKept DEF SerialInv, HashInv
  <2>3. ASSUME NEW s \in Requests PROVE FreshRead(s)'
    BY <1>1, FreshKept DEF SerialInv, Untouched
  <2>. QED
    BY <2>1, <2>2, <2>3 DEF SerialInv, HashInv
<1>2. ASSUME NEW t \in Tokens, Expire(t) PROVE SerialInv'
  <2>1. \A x \in Tokens : token[x] \in TokenRow
    BY RowFields
  <2>2. \A x \in Tokens : token'[x] \in {token[x], [token[x] EXCEPT !.expired = TRUE]}
    BY <1>2 DEF Expire, TypeOK
  <2>3. \A x \in Tokens : /\ token'[x].user = token[x].user
                          /\ token'[x].family = token[x].family
                          /\ token'[x].password = token[x].password
                          /\ token'[x].state = token[x].state
    BY <2>1, <2>2 DEF TokenRow
  <2>. QED
    BY <1>1, <1>2, <2>3 DEF Expire
<1>3. CASE UNCHANGED vars
  BY <1>1, <1>3 DEF vars, sessionVars
<1>. QED
  BY <1>2, <1>3, BeginSerial, IssueSerial, EndSerial, UpdateSerial, RegisterSerial DEF Next, Commit

(* Initially nothing is issued, emitted or read.                            *)
LEMMA InitSerial == Init => SerialInv
<1>. SUFFICES ASSUME Init PROVE SerialInv
  OBVIOUS
<1>1. /\ \A t \in Tokens : token[t].state = "none"
      /\ \A r \in Requests : req[r].at = "idle"
      /\ ended = {} /\ \A u \in Users : password[u] = 0
      /\ Len(ledger) = 0
  BY DEF Init, NoRow, Idle
<1>2. TokenInv
  BY <1>1 DEF TokenInv, FamilyInv, OneLivePerFamily, EndedStaysEnded, SessionsMatchPassword, Live
<1>3. \A r \in Requests : FreshRead(r)
  BY <1>1 DEF FreshRead
<1>. QED
  BY <1>1, <1>2, <1>3 DEF SerialInv

(* It holds in every behaviour in which the requests of one account never  *)
(* overlap.                                                                 *)
LEMMA SerialInvariant == Spec /\ []OneRequestPerUser => []SerialInv
<1>. QED
  BY InitSerial, NextSerial, TypeCorrect, SessionInvariant, PTL DEF Spec

(* Where the requests of each account come one after the other, rotation    *)
(* never leaves two live tokens of one session, no ended session comes back *)
(* to life, and every live session was signed in with the present password. *)
THEOREM SessionsSerial ==
  Spec /\ []OneRequestPerUser => [](OneLivePerFamily /\ EndedStaysEnded /\ SessionsMatchPassword)
<1>1. SerialInv => OneLivePerFamily /\ EndedStaysEnded /\ SessionsMatchPassword
  BY DEF SerialInv, TokenInv
<1>. QED
  BY <1>1, SerialInvariant, PTL

(* An event that was emitted is of the type it was emitted with.            *)
LEMMA EmittedType ==
  ASSUME TypeOK, NEW u \in Users, NEW e \in Emails, NEW n \in Names,
         NEW type \in {"registered", "updated", "password_changed", "deleted"},
         Emit(type, u, e, n), NEW x, Emitted(x)
  PROVE  type = x
<1>. DEFINE row == [type |-> type, user |-> u, email |-> e, name |-> n]
<1>1. row \in Event /\ row.type = type
  BY DEF Event
<1>2. ledger' = Append(ledger, row) /\ ledger \in Seq(Event)
  BY DEF Emit, TypeOK
<1>. HIDE DEF row
<1>3. Len(ledger') = Len(ledger) + 1 /\ ledger'[Len(ledger) + 1] = row
  BY <1>1, <1>2, AppendProperties
<1>. QED
  BY <1>1, <1>3 DEF Emitted

(* The event of an update stands for a change of the row.                   *)
LEMMA UpdateChanges ==
  TypeOK /\ SerialInv /\ [Next]_vars /\ Emitted("updated") => <<email, name>>' # <<email, name>>
<1>. SUFFICES ASSUME TypeOK, SerialInv, [Next]_vars, Emitted("updated")
              PROVE  email' # email \/ name' # name
  OBVIOUS
<1>. USE DEF accountVars, sessionVars
<1>1. CASE UNCHANGED ledger
  <2>1. Len(ledger) \in Nat
    BY DEF TypeOK
  <2>. QED
    BY <1>1, <2>1 DEF Emitted
<1>2. ASSUME NEW u \in Users, NEW e \in Emails, NEW n \in Names, Register(u, e, n) PROVE FALSE
  BY <1>2, EmittedType DEF Register
<1>3. ASSUME NEW r \in Requests, PasswordCommit(r) PROVE FALSE
  BY <1>3, RequestFields, EmittedType DEF PasswordCommit
<1>4. ASSUME NEW r \in Requests, DeleteCommit(r), ~UNCHANGED ledger PROVE FALSE
  BY <1>4, RequestFields, EmittedType DEF DeleteCommit
<1>5. ASSUME NEW r \in Requests, UpdateCommit(r), ~UNCHANGED ledger
      PROVE  email' # email \/ name' # name
  <2>1. PICK u : u = req[r].user
    OBVIOUS
  <2>2. PICK ch : ch = req[r].changed
    OBVIOUS
  <2>3. /\ u \in Users /\ ch # {} /\ ch = Changed(u, req[r].email, req[r].name)
    BY <1>5, <2>1, <2>2, RequestFields DEF UpdateCommit, SerialInv, FreshRead
  <2>4. /\ email' = [email EXCEPT ![u] = IF "email" \in ch THEN req[r].email ELSE email[u]]
        /\ name' = [name EXCEPT ![u] = IF "name" \in ch THEN req[r].name ELSE name[u]]
    BY <1>5, <2>1, <2>2 DEF UpdateCommit
  <2>5. \/ "email" \in ch /\ req[r].email # email[u]
        \/ "name" \in ch /\ req[r].name # name[u]
    BY <2>3 DEF Changed
  <2>6. \/ email'[u] # email[u] \/ name'[u] # name[u]
    BY <2>3, <2>4, <2>5 DEF TypeOK
  <2>. QED
    BY <2>6
<1>. QED
  BY <1>1, <1>2, <1>3, <1>4, <1>5 DEF Next, Update, Login, ChangePassword, DeleteAccount, Refresh,
     Logout, Begin, Commit, LoginIssue, FindUser, Rotate, RevokeOne, RevokeSessions, Abort, Expire,
     vars

(* The event of a password change comes with a new password.                *)
LEMMA PasswordChanges ==
  TypeOK /\ SerialInv /\ [Next]_vars /\ Emitted("password_changed") => password' # password
<1>. SUFFICES ASSUME TypeOK, SerialInv, [Next]_vars, Emitted("password_changed")
              PROVE  password' # password
  OBVIOUS
<1>. USE DEF accountVars, sessionVars
<1>1. CASE UNCHANGED ledger
  <2>1. Len(ledger) \in Nat
    BY DEF TypeOK
  <2>. QED
    BY <1>1, <2>1 DEF Emitted
<1>2. ASSUME NEW u \in Users, NEW e \in Emails, NEW n \in Names, Register(u, e, n) PROVE FALSE
  BY <1>2, EmittedType DEF Register
<1>3. ASSUME NEW r \in Requests, PasswordCommit(r) PROVE password' # password
  <2>1. PICK u : u = req[r].user
    OBVIOUS
  <2>2. u \in Users /\ status[u] = "active"
    BY <1>3, <2>1, RequestFields DEF PasswordCommit, SerialInv, FreshRead
  <2>3. password'[u] = Len(ledger) + 1
    BY <1>3, <2>1, <2>2 DEF PasswordCommit, TypeOK
  <2>4. password[u] <= Len(ledger) /\ password[u] \in Nat /\ Len(ledger) \in Nat
    BY <2>2 DEF SerialInv, TypeOK
  <2>. QED
    BY <2>3, <2>4
<1>4. ASSUME NEW r \in Requests, DeleteCommit(r), ~UNCHANGED ledger PROVE FALSE
  BY <1>4, RequestFields, EmittedType DEF DeleteCommit
<1>5. ASSUME NEW r \in Requests, UpdateCommit(r), ~UNCHANGED ledger PROVE FALSE
  <2>1. PICK u : u = req[r].user
    OBVIOUS
  <2>2. u \in Users /\ req[r].email \in Emails /\ req[r].name \in Names
    BY <1>5, <2>1, RequestFields DEF UpdateCommit
  <2>3. email[u] \in Emails /\ name[u] \in Names
    BY <2>2 DEF TypeOK
  <2>4. \E e \in Emails, n \in Names : Emit("updated", u, e, n)
    BY <1>5, <2>1, <2>2, <2>3 DEF UpdateCommit
  <2>. QED
    BY <2>2, <2>4, EmittedType
<1>. QED
  BY <1>1, <1>2, <1>3, <1>4, <1>5 DEF Next, Update, Login, ChangePassword, DeleteAccount, Refresh,
     Logout, Begin, Commit, LoginIssue, FindUser, Rotate, RevokeOne, RevokeSessions, Abort, Expire,
     vars

(* Where the requests of each account come one after the other, no event is *)
(* emitted for an update or a password change that changed nothing.         *)
THEOREM EventsStandForChanges ==
  Spec /\ []OneRequestPerUser => UpdatesChange /\ PasswordEventsChange
<1>. QED
  BY UpdateChanges, PasswordChanges, SerialInvariant, TypeCorrect, PTL
  DEF Spec, UpdatesChange, PasswordEventsChange

(* The service has one request in flight at a time.                         *)
OneRequestAssumption == \A r, s \in Requests : r = s

(* In particular all this holds where the service has one request at a time.*)
THEOREM OneRequestIsSerial ==
  ASSUME OneRequestAssumption
  PROVE  Spec => /\ [](OneLivePerFamily /\ EndedStaysEnded /\ SessionsMatchPassword)
                 /\ UpdatesChange /\ PasswordEventsChange
<1>1. OneRequestPerUser
  BY OneRequestAssumption DEF OneRequestPerUser, OneRequestAssumption
<1>. QED
  BY <1>1, SessionsSerial, EventsStandForChanges, PTL
=============================================================================
