------------------------------ MODULE Gateway -------------------------------
(***************************************************************************)
(* The API Gateway between a client and the services: its guards and rate  *)
(* limits, the proxy with its timeout, the guards and handlers of the      *)
(* service behind it, and the accounts those handlers work on: the module  *)
(* Accounts, whose requests are the calls here.                            *)
(*                                                                         *)
(* A call that the gateway gives up on goes on in the service.  A client   *)
(* that repeats a request makes another call with the same content.        *)
(***************************************************************************)
EXTENDS Accounts

CONSTANTS
  Owner,         \* the user who has an account at the beginning
  Passwords,     \* the passwords clients try, numbered as in Accounts
  LastCall       \* bound: HTTP requests in one behaviour, repeated ones included

Calls == 1..LastCall   \* in the order they are made

ASSUME OwnerAssumption    == Owner \in Users /\ MaxTokens >= 1 /\ MaxBegun >= 1
ASSUME PasswordAssumption == Passwords \subseteq Nat
ASSUME CallAssumption     == LastCall \in Nat /\ Requests = Calls

VARIABLES
  \* the calls
  call,      \* what each call asks
  valid,     \* calls whose access token has not expired
  edge,      \* [Calls -> {"unsent", "forwarded"} or the answer]
  back,      \* [Calls -> {"none", "arrived", "working", "lost"} or the reply]
  \* history
  actor,     \* [Calls -> Level]: as whom a handler has run, or "unhandled"
  effects,   \* calls that have changed an account or opened a session
  latest,    \* the last of them
  seen,      \* [Calls -> ...]: `latest` when the service took the call
  outlived   \* calls taken when the account of their access token was gone

historyVars == <<actor, effects, latest, seen, outlived>>
gatewayVars == <<vars, call, valid, edge, back, historyVars>>

-----------------------------------------------------------------------------
(* The public endpoints, by the name of their last path segment.            *)
Sessions == {"register", "login", "refresh", "logout"}
AccountViews == {"me", "user", "users"}
HistoryViews == {"notifications", "byEvent", "deadLetters", "stats"}
Admin == {"users", "deadLetters", "stats"}

Level == {"public", "user", "admin"}

(* API_CATALOGUE, what the discovery document advertises.                   *)
Catalogue(op) == IF op \in Sessions THEN "public"
                 ELSE IF op \in Admin THEN "admin" ELSE "user"

(* The guards of the gateway's routes, and of the routes behind them.       *)
EdgeGuard(op) ==
  CASE op \in {"users", "deadLetters", "stats"} -> "admin"
    [] op \in {"me", "update", "password", "delete", "user", "notifications", "byEvent"} -> "user"
    [] OTHER -> "public"

UserServiceGuard(op) ==
  CASE op = "users" -> "admin"
    [] op \in {"me", "update", "password", "delete", "user"} -> "user"
    [] OTHER -> "public"
NotificationServiceGuard(op) == IF op \in {"deadLetters", "stats"} THEN "admin" ELSE "user"
BackendGuardTrustsEdge(op) == "public"
BackendGuard(op) ==
  IF op \in HistoryViews THEN NotificationServiceGuard(op) ELSE UserServiceGuard(op)

NoCall == [op |-> "none"]
Bearer(role) == [user : Users, role : {role}]
Anonymous == [user |-> Owner, role |-> "none"]

(* What a client can ask: with the tokens, addresses and passwords it has.  *)
Ask == [op : {"register"}, bearer : {Anonymous}, email : Emails]
  \cup [op : {"login"}, bearer : {Anonymous}, email : Emails, password : Passwords]
  \cup [op : {"refresh"}, bearer : {Anonymous}, token : Tokens]
  \cup [op : {"logout"}, bearer : {Anonymous}, token : Tokens, all : BOOLEAN]
  \cup [op : {"update"}, bearer : Bearer("user"), email : Emails]
  \cup [op : {"password"}, bearer : Bearer("user"), password : Passwords]
  \cup [op : {"delete"}, bearer : Bearer("user")]
  \cup [op : {"me", "notifications"}, bearer : Bearer("user")]
  \cup [op : {"user", "byEvent"}, bearer : Bearer("user") \cup Bearer("admin"), own : BOOLEAN]
  \cup [op : Admin, bearer : Bearer("user") \cup Bearer("admin") \cup {Anonymous}]

Refusals == {"400", "401", "403", "404", "409", "429"}
Success  == {"200", "201", "204"}
Replies  == Refusals \cup Success \cup {"500"}
Answers  == Replies \cup {"503"}

GatewayTypeOK ==
  /\ TypeOK
  /\ call     \in [Calls -> Ask \cup {NoCall}]
  /\ valid    \subseteq Calls
  /\ edge     \in [Calls -> {"unsent", "forwarded"} \cup Answers]
  /\ back     \in [Calls -> {"none", "arrived", "working", "lost"} \cup Replies]
  /\ actor    \in [Calls -> Level \cup {"unhandled"}]
  /\ effects  \subseteq Calls
  /\ latest   \in Ask \cup {NoCall}
  /\ seen     \in [Calls -> Ask \cup {NoCall}]
  /\ outlived \subseteq Calls

(* The owner has registered and holds access tokens and a session, which    *)
(* may have ended with its refresh token's expiry.                          *)
GatewayInit ==
  /\ email    = [u \in Users |-> CHOOSE e \in Emails : TRUE]
  /\ name     = [u \in Users |-> CHOOSE n \in Names : TRUE]
  /\ status   = [u \in Users |-> IF u = Owner THEN "active" ELSE "absent"]
  /\ password = [u \in Users |-> IF u = Owner THEN 1 ELSE 0]
  /\ issued = 1 /\ begun = 1 /\ ended = {}
  /\ \E expired \in BOOLEAN : token = [t \in Tokens |->
       IF t = 1 THEN [NewToken(Owner, NoToken, 1, 1) EXCEPT !.expired = expired] ELSE NoRow]
  /\ ledger = <<[type |-> "registered", user |-> Owner, email |-> email[Owner], name |-> name[Owner]]>>
  /\ req    = [c \in Calls |-> Idle]
  /\ call   = [c \in Calls |-> NoCall]
  /\ edge   = [c \in Calls |-> "unsent"]
  /\ back   = [c \in Calls |-> "none"]
  /\ actor  = [c \in Calls |-> "unhandled"]
  /\ seen   = [c \in Calls |-> NoCall]
  /\ latest = NoCall
  /\ valid = {} /\ effects = {} /\ outlived = {}

-----------------------------------------------------------------------------
(* The client and the gateway.                                              *)

(* requireAuth and requireAdmin, at the edge and again in the service.      *)
Denial(level, bearer, live) ==
  IF level = "public" THEN {}
  ELSE IF bearer = Anonymous \/ ~live THEN {"401"}
  ELSE IF level = "admin" /\ bearer.role # "admin" THEN {"403"} ELSE {}

(* An access token names a user who has signed in, whatever became of the   *)
(* account since; a refresh token has been issued.                          *)
CanAsk(q) ==
  /\ q.bearer # Anonymous => status[q.bearer.user] # "absent"
  /\ q.op \in {"refresh", "logout"} => q.token <= issued

NextUnsent(c) == edge[c] = "unsent" /\ \A d \in 1..(c - 1) : edge[d] # "unsent"

(* A call the gateway answers itself: the origin is not allowed, the limit  *)
(* of the route is spent (the limiter's counters are left open: any call    *)
(* may find its limit spent), the guard denies it, or its body is no JSON.  *)
EdgeRefuses(c) ==
  /\ NextUnsent(c)
  /\ \E q \in Ask, live \in BOOLEAN :
       /\ CanAsk(q)
       /\ \E code \in {"400", "403", "429"} \cup Denial(EdgeGuard(q.op), q.bearer, live) :
            edge' = [edge EXCEPT ![c] = code]
  /\ UNCHANGED <<vars, call, valid, back, historyVars>>

Forwards(c, q) ==
  /\ NextUnsent(c) /\ CanAsk(q) /\ Denial(EdgeGuard(q.op), q.bearer, TRUE) = {}
  /\ call'  = [call EXCEPT ![c] = q]
  /\ edge'  = [edge EXCEPT ![c] = "forwarded"]
  /\ back'  = [back EXCEPT ![c] = "arrived"]
  /\ valid' = IF q.bearer = Anonymous THEN valid ELSE valid \cup {c}
  /\ UNCHANGED <<vars, historyVars>>

(* JWT_ACCESS_TTL ends between the two guards.                              *)
TokenExpires(c) ==
  /\ c \in valid /\ back[c] = "arrived"
  /\ valid' = valid \ {c}
  /\ UNCHANGED <<vars, call, edge, back, historyVars>>

(* The reply of the service goes to the client as it is.                    *)
RelayAnything(c) ==
  /\ edge[c] = "forwarded" /\ back[c] \in Replies \cup {"lost"}
  /\ edge' = [edge EXCEPT ![c] = back[c]]
  /\ UNCHANGED <<vars, call, valid, back, historyVars>>
Relay(c) ==
  /\ edge[c] = "forwarded" /\ back[c] \in Replies
  /\ edge' = [edge EXCEPT ![c] = back[c]]
  /\ UNCHANGED <<vars, call, valid, back, historyVars>>

(* The request or its reply was lost, or the timeout passed: one attempt,   *)
(* then 503, and the service is not told.  A gateway that dies with the     *)
(* connection leaves the client where a 503 does.                           *)
UpstreamRetries(c) ==
  /\ edge[c] = "forwarded"
  /\ \/ back[c] # "lost" /\ edge' = [edge EXCEPT ![c] = "503"] /\ UNCHANGED back
     \/ back[c] = "lost" /\ back' = [back EXCEPT ![c] = "arrived"] /\ UNCHANGED edge
  /\ UNCHANGED <<vars, call, valid, historyVars>>
UpstreamFails(c) ==
  /\ edge[c] = "forwarded"
  /\ edge' = [edge EXCEPT ![c] = "503"]
  /\ UNCHANGED <<vars, call, valid, back, historyVars>>

-----------------------------------------------------------------------------
(* The service behind it.                                                   *)

Denied(c) == Denial(BackendGuard(call[c].op), call[c].bearer, c \in valid)

Reply(c, code) == back' = [back EXCEPT ![c] = code]

(* The guard of its own route, then the schema of the body or the query.    *)
Rejects(c) ==
  /\ back[c] = "arrived"
  /\ \E code \in IF Denied(c) = {} THEN {"400"} ELSE Denied(c) : Reply(c, code)
  /\ UNCHANGED <<vars, call, valid, edge, historyVars>>

(* A handler begins.                                                        *)
Takes(c) ==
  /\ back[c] = "arrived" /\ Denied(c) = {}
  /\ actor' = [actor EXCEPT ![c] =
       IF c \in valid THEN call[c].bearer.role ELSE "public"]
  /\ seen'  = [seen EXCEPT ![c] = latest]
  /\ outlived' = IF BackendGuard(call[c].op) = "public" \/ status[call[c].bearer.user] = "active"
                 THEN outlived ELSE outlived \cup {c}
  /\ UNCHANGED <<call, valid, edge>>

(* The change is committed.                                                 *)
TakesEffect(c) == effects' = effects \cup {c} /\ latest' = call[c]
NoEffect == UNCHANGED <<effects, latest>>

(* The handler is done without a change, or goes on to its first commit.    *)
RepliesAtOnce(c, code) == Reply(c, code) /\ NoEffect /\ UNCHANGED vars
GoesOn(c) == Reply(c, "working") /\ NoEffect

TakeRegister(c) ==
  /\ call[c].op = "register" /\ Takes(c)
  /\ \/ \E u \in Users, n \in Names :
          /\ Register(u, call[c].email, n) /\ TakesEffect(c)
          /\ Reply(c, "201") \/ Reply(c, "500")
     \/ \E u \in Users : status[u] = "active" /\ email[u] = call[c].email /\ RepliesAtOnce(c, "409")

TakeLogin(c) ==
  /\ call[c].op = "login" /\ Takes(c)
  /\ LET found == {u \in Users : /\ status[u] = "active" /\ email[u] = call[c].email
                                 /\ password[u] = call[c].password}
     IN \/ \E u \in found : Login(c, u) /\ GoesOn(c)
        \/ found = {} /\ RepliesAtOnce(c, "401")

TakeRefresh(c) ==
  /\ call[c].op = "refresh" /\ Takes(c)
  /\ LET row == token[call[c].token] IN
     \/ Refresh(c, call[c].token) /\ GoesOn(c)
     \/ /\ row.state = "none" \/ (row.state = "live" /\ row.expired)
        /\ RepliesAtOnce(c, "401")

TakeLogout(c) ==
  /\ call[c].op = "logout" /\ Takes(c)
  /\ \/ /\ Logout(c, call[c].token) /\ GoesOn(c)
        /\ req'[c].at = IF call[c].all THEN "revokeAll" ELSE "revoke"
     \/ token[call[c].token].state = "none" /\ RepliesAtOnce(c, "204")

Self(c) == call[c].bearer.user
Found(c) == status[Self(c)] = "active"

TakeUpdate(c) ==
  /\ call[c].op = "update" /\ Takes(c)
  /\ \/ Update(c, Self(c), call[c].email, name[Self(c)]) /\ GoesOn(c)
     \/ Found(c) /\ email[Self(c)] = call[c].email /\ RepliesAtOnce(c, "200")
     \/ ~Found(c) /\ RepliesAtOnce(c, "404")

TakePassword(c) ==
  /\ call[c].op = "password" /\ Takes(c)
  /\ \/ password[Self(c)] = call[c].password /\ ChangePassword(c, Self(c)) /\ GoesOn(c)
     \/ Found(c) /\ password[Self(c)] # call[c].password /\ RepliesAtOnce(c, "403")
     \/ ~Found(c) /\ RepliesAtOnce(c, "404")

TakeDelete(c) ==
  /\ call[c].op = "delete" /\ Takes(c)
  /\ \/ DeleteAccount(c, Self(c)) /\ GoesOn(c)
     \/ ~Found(c) /\ RepliesAtOnce(c, "404")

(* authoriseUserAccess(): the account of someone else is an account that is *)
(* not there, to anyone but an admin.                                       *)
MayAccess(c) == call[c].own \/ call[c].bearer.role = "admin"

TakeReadAccounts(c) ==
  /\ call[c].op \in AccountViews /\ Takes(c)
  /\ \/ /\ call[c].op = "users" \/ (call[c].op = "me" /\ Found(c))
        /\ RepliesAtOnce(c, "200")
     \/ /\ call[c].op = "user" /\ MayAccess(c)
        /\ \E u \in IF call[c].own THEN {Self(c)} ELSE Users \ {Self(c)} :
             RepliesAtOnce(c, IF status[u] = "active" THEN "200" ELSE "404")
     \/ /\ (call[c].op = "me" /\ ~Found(c)) \/ (call[c].op = "user" /\ ~MayAccess(c))
        /\ RepliesAtOnce(c, "404")

(* The Notification Service keeps a history of its own: it is read whatever *)
(* became of the account, and the row of an event may not be there yet.     *)
TakeReadHistory(c) ==
  /\ call[c].op \in HistoryViews /\ Takes(c)
  /\ \/ call[c].op = "byEvent" /\ RepliesAtOnce(c, "404")
     \/ (call[c].op = "byEvent" => MayAccess(c)) /\ RepliesAtOnce(c, "200")

(* The first statement of the handler throws, before anything is changed.   *)
TakeFails(c) == Takes(c) /\ RepliesAtOnce(c, "500")

(* What the handler replies once its last statement is committed and says   *)
(* so; a COMMIT, or an INSERT on its own, may throw after it took effect.   *)
Outcome(c) ==
  LET q == req[c] IN
  CASE q.at = "issue"  -> IF KeyHolds(q.user) THEN "200" ELSE "500"
    [] q.at = "rotate" -> IF KeyHolds(token[q.token].user) THEN "200" ELSE "500"
    [] q.at \in {"revoke", "revokeAll"} -> IF call[c].op = "refresh" THEN "401" ELSE "204"
    [] q.at = "update" ->
         IF status[q.user] # "active" THEN "404"
         ELSE IF "email" \in q.changed /\ ~EmailFree(q.user, q.email) THEN "409" ELSE "200"
    [] q.at = "delete" -> IF status[q.user] = "active" THEN "204" ELSE "404"
    [] OTHER -> "204"

Works(c) ==
  /\ Commit(c)
  /\ IF req'[c] = Idle THEN Reply(c, Outcome(c)) \/ Reply(c, "500") ELSE UNCHANGED back
  /\ IF ledger' # ledger \/ issued' # issued THEN TakesEffect(c) ELSE NoEffect
  /\ UNCHANGED <<call, valid, edge, actor, seen, outlived>>

(* A statement throws, and its transaction is rolled back.                  *)
Throws(c) ==
  /\ Abort(c)
  /\ Reply(c, "500")
  /\ UNCHANGED <<call, valid, edge, historyVars>>

(* The service dies, or the connection, before the reply is through.        *)
Loses(c) ==
  /\ back[c] \in {"arrived", "working"} \/ (edge[c] = "forwarded" /\ back[c] \in Replies)
  /\ Reply(c, "lost")
  /\ Abort(c) \/ (req[c] = Idle /\ UNCHANGED vars)
  /\ UNCHANGED <<call, valid, edge, historyVars>>

Take(c) == \/ TakeRegister(c) \/ TakeLogin(c) \/ TakeRefresh(c) \/ TakeLogout(c)
           \/ TakeUpdate(c) \/ TakePassword(c) \/ TakeDelete(c)
           \/ TakeReadAccounts(c) \/ TakeReadHistory(c)

Service(c) == Rejects(c) \/ Take(c) \/ TakeFails(c) \/ Works(c) \/ Throws(c) \/ Loses(c)

GatewayNext ==
  \/ \E c \in Calls, q \in Ask : Forwards(c, q)
  \/ \E c \in Calls : \/ EdgeRefuses(c) \/ Relay(c) \/ UpstreamFails(c)
                      \/ TokenExpires(c) \/ Service(c)

GatewaySpec == GatewayInit /\ [][GatewayNext]_gatewayVars

-----------------------------------------------------------------------------
(* Properties.                                                              *)

(* What a client is told is what happened: a refusal of the gateway or of   *)
(* the service means that this call has changed no account and opened no    *)
(* session (it may have ended some), and a success that it has              *)
(* (proxy.ts:123-143 relays one attempt and repeats none).  Two answers     *)
(* leave it open: 503, when the gateway gave up waiting, and 500, when a    *)
(* statement threw that may have taken effect.                              *)
TruthfulAnswers ==
  \A c \in Calls :
    /\ edge[c] \in Refusals => c \notin effects
    /\ edge[c] \in Success /\ call[c].op \in {"register", "login", "refresh", "password", "delete"}
         => c \in effects

(* A request repeated after one that had taken effect, whatever the client  *)
(* was told (503 and 500 leave it in doubt), with nothing else changed      *)
(* since, changes no account, emits no event and opens no session: a second *)
(* registration finds the address in use, an update nothing to change, a    *)
(* password change the old password wrong, a rotation its token consumed    *)
(* (that repeat ends the user's sessions).  A login opens a session each    *)
(* time.  Repeats in the service at the same time are not covered.          *)
RepeatsChangeNothing ==
  \A c \in effects : call[c].op # "login" => seen[c] # call[c]

(* An access token outlives its account by up to JWT_ACCESS_TTL; a call     *)
(* that begins in the service in that time changes nothing and emits no     *)
(* event (user-service.ts:75-76, 145-146, 197-198).                         *)
OutlivedTokensChangeNothing == outlived \cap effects = {}

(* A handler runs only for a caller of the level the discovery document     *)
(* advertises for its endpoint, whose token is valid at that moment, not    *)
(* only when the gateway looked (discovery.ts:50-53, bearer-auth.ts:19-23). *)
CatalogueIsEnforced ==
  \A c \in Calls : actor[c] # "unhandled" =>
    CASE Catalogue(call[c].op) = "admin" -> actor[c] = "admin"
      [] Catalogue(call[c].op) = "user"  -> actor[c] \in {"user", "admin"}
      [] OTHER -> TRUE
=============================================================================
