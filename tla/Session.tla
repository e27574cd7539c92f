------------------------------ MODULE Session ------------------------------
(***************************************************************************)
(* One signed-in browser: tabs that share the refresh-token cookie, each   *)
(* with an access token of its own in memory, and the token endpoints of   *)
(* apps.accounts.views.  The tab is frontend/src/api/client.ts with        *)
(* auth/store.ts, auth/logout.ts, auth/useAuthBootstrap.ts and the pages   *)
(* that use them.                                                          *)
(*                                                                         *)
(* JavaScript runs to the next await; requests are answered in any order.  *)
(* The i-th refresh token issued is the number i, 0 is none.  Of an access *)
(* token the model knows whether there is one: it may have expired at any  *)
(* time the server looks at it.  A reload aborts the requests of its tab:  *)
(* their answers set no cookie.                                            *)
(***************************************************************************)
EXTENDS Naturals

CONSTANTS
  Tabs,
  Calls,      \* by tab, the requests of apiClient it may have in flight
  MaxPairs    \* bound: pairs of tokens the server issues

ASSUME SessionAssumption ==
  /\ DOMAIN Calls = Tabs
  /\ MaxPairs \in Nat

VARIABLES
  cookie,      \* the refresh token of the browser
  issued,      \* pairs issued so far
  over,        \* refresh tokens past REFRESH_TOKEN_LIFETIME
  tab,         \* what each tab shows and holds
  refresh,     \* the refreshPromise of each tab
  call,        \* the requests of each tab
  loggedOut,   \* history: a logout was the last to touch the session
  stragglers   \* history: tabs whose refresh was in flight at that logout

vars == <<cookie, issued, over, tab, refresh, call, loggedOut, stragglers>>

Pairs == 0..MaxPairs

\* ready is the state of useAuthBootstrap.
TabState ==
  [page : {"protected", "login"}, ready : BOOLEAN, accessToken : BOOLEAN]

LoginPage == [page |-> "login", ready |-> FALSE, accessToken |-> FALSE]

\* token is the cookie the request carried, then the pair in the answer.
RefreshState ==
  [pc : {"none", "sent", "ok", "refused", "unavailable"}, token : Pairs]

NoRefresh == [pc |-> "none", token |-> 0]

\* fetch('/api/v1/auth/token/refresh', { credentials: 'include' })
Refreshing == [pc |-> "sent", token |-> cookie]

\* bearer: the request has an Authorization header; token is the refresh
\* token that comes with the answer to a login.
CallState ==
  [pc : {"idle", "sent", "ok", "401", "waiting"},
   op : {"none", "get", "login", "logout"}, bearer : BOOLEAN, token : Pairs,
   isRetry : BOOLEAN]

Settled ==
  [pc |-> "idle", op |-> "none", bearer |-> FALSE, token |-> 0,
   isRetry |-> FALSE]

Waiting(t) == {k \in Calls[t] : call[t][k].pc = "waiting"}

\* Every tab shows the login page, whatever cookie an earlier visit left.
Init ==
  /\ cookie \in {0, 1} \cap Pairs
  /\ issued = cookie
  /\ over = {}
  /\ tab = [t \in Tabs |-> LoginPage]
  /\ refresh = [t \in Tabs |-> NoRefresh]
  /\ call = [t \in Tabs |-> [k \in Calls[t] |-> Settled]]
  /\ loggedOut = FALSE
  /\ stragglers = {}

-----------------------------------------------------------------------------
(* The server                                                              *)

RefreshExpires(i) ==
  /\ i \in (1..issued) \ over
  /\ over' = over \cup {i}
  /\ UNCHANGED <<cookie, issued, tab, refresh, call, loggedOut, stragglers>>

\* JWTAuthentication refuses a header with an expired token everywhere it is
\* looked at, logout included, which otherwise allows anyone.
MayPass(c) == c.bearer \/ c.op = "logout"

Served(t, k, c) == call' = [call EXCEPT ![t][k] = c]

\* Any view behind the API, and LogoutView.  The data of a "get" changes
\* nothing here: the request is settled when it is served.
Serve(t, k) ==
  LET c == [call[t][k] EXCEPT !.bearer = FALSE]
  IN  /\ call[t][k].pc = "sent"
      /\ c.op # "login"
      /\ \/ /\ MayPass(call[t][k])
            /\ Served(t, k, IF c.op = "get" THEN Settled
                            ELSE [c EXCEPT !.pc = "ok"])
         \/ /\ call[t][k].bearer \/ c.op = "get"
            /\ Served(t, k, [c EXCEPT !.pc = "401"])
      /\ UNCHANGED <<cookie, issued, over, tab, refresh, loggedOut,
                     stragglers>>

\* CookieTokenObtainPairView: a wrong password is a 401.
ServeLogin(t, k) ==
  /\ call[t][k].pc = "sent"
  /\ call[t][k].op = "login"
  /\ \/ /\ Served(t, k, [call[t][k] EXCEPT !.pc = "401", !.bearer = FALSE])
        /\ UNCHANGED issued
     \/ /\ issued < MaxPairs
        /\ issued' = issued + 1
        /\ Served(t, k, [call[t][k] EXCEPT !.pc = "ok", !.bearer = FALSE,
                                           !.token = issued + 1])
  /\ UNCHANGED <<cookie, over, tab, refresh, loggedOut, stragglers>>

\* Fault: a refresh token is good for one rotation.
LatestOnly(token) == token = issued /\ token \notin over

\* BLACKLIST_AFTER_ROTATION is off: a rotated token stays good.
Accepts(token) == token # 0 /\ token \notin over

\* CookieTokenRefreshView answers with a new pair.
RotateRefresh(t) ==
  LET token == refresh[t].token
  IN  /\ refresh[t].pc = "sent"
      /\ Accepts(token)
      /\ issued < MaxPairs
      /\ issued' = issued + 1
      /\ refresh' = [refresh EXCEPT ![t] =
                       [pc |-> "ok", token |-> issued + 1]]
      /\ UNCHANGED <<cookie, over, tab, call, loggedOut, stragglers>>

\* A missing or expired cookie is a 401.
RefuseRefresh(t) ==
  /\ refresh[t].pc = "sent"
  /\ ~Accepts(refresh[t].token)
  /\ refresh' = [refresh EXCEPT ![t].pc = "refused"]
  /\ UNCHANGED <<cookie, issued, over, tab, call, loggedOut,
                 stragglers>>

\* The anonymous rate limit or a failure of the server: 429 or 5xx.
RefreshUnavailable(t) ==
  /\ refresh[t].pc = "sent"
  /\ refresh' = [refresh EXCEPT ![t].pc = "unavailable"]
  /\ UNCHANGED <<cookie, issued, over, tab, call, loggedOut,
                 stragglers>>

-----------------------------------------------------------------------------
(* A tab                                                                   *)

\* The page is loaded again, on a protected route: useAuthBootstrap calls
\* refreshAccessToken.
Load(t) ==
  /\ tab' = [tab EXCEPT ![t] = [LoginPage EXCEPT !.page = "protected"]]
  /\ refresh' = [refresh EXCEPT ![t] = Refreshing]
  /\ call' = [call EXCEPT ![t] = [k \in Calls[t] |-> Settled]]
  /\ stragglers' = stragglers \ {t}
  /\ UNCHANGED <<cookie, issued, over, loggedOut>>

\* A page queries the API, the user logs in or logs out.
Send(t, k, op) ==
  /\ call[t][k].pc = "idle"
  /\ op = "login" <=> tab[t].page = "login"
  /\ tab[t].page = "protected" => tab[t].ready
  /\ call' = [call EXCEPT ![t][k] =
       [Settled EXCEPT !.pc = "sent", !.op = op,
                       !.bearer = tab[t].accessToken]]
  /\ UNCHANGED <<cookie, issued, over, tab, refresh, loggedOut,
                 stragglers>>

\* logout()'s finally; ProtectedRoute then shows the login page.
AfterLogout(t) == [tab EXCEPT ![t] = LoginPage]

\* The Set-Cookie of the answer, setAccessToken and the way to the dashboard.
ReceiveLogin(t, k) ==
  /\ call[t][k].pc = "ok"
  /\ call[t][k].op = "login"
  /\ cookie' = call[t][k].token
  /\ tab' = [tab EXCEPT ![t] =
       [page |-> "protected", ready |-> TRUE, accessToken |-> TRUE]]
  /\ call' = [call EXCEPT ![t][k] = Settled]
  /\ loggedOut' = FALSE
  /\ stragglers' = {}
  /\ UNCHANGED <<issued, over, refresh>>

\* Fault: delete_cookie is not given the path the cookie was set with.
CookieOfAnotherPath == cookie

\* delete_cookie(JWT_REFRESH_COOKIE_NAME, path="/api/v1/auth/")
CookieDeleted == 0

ReceiveLogout(t, k) ==
  /\ call[t][k].pc = "ok"
  /\ call[t][k].op = "logout"
  /\ cookie' = CookieDeleted
  /\ tab' = AfterLogout(t)
  /\ call' = [call EXCEPT ![t][k] = Settled]
  /\ loggedOut' = TRUE
  /\ stragglers' = {s \in Tabs : refresh[s].pc \in {"sent", "ok"}}
  /\ UNCHANGED <<issued, over, refresh>>

\* A 401 of the login, or of a request that was retried, is an ApiError.
ReceiveRefusal(t, k) ==
  LET c == call[t][k]
  IN  /\ c.pc = "401"
      /\ c.op = "login" \/ c.isRetry
      /\ call' = [call EXCEPT ![t][k] = Settled]
      /\ tab' = IF c.op = "logout" THEN AfterLogout(t) ELSE tab
      /\ UNCHANGED <<cookie, issued, over, refresh, loggedOut,
                     stragglers>>

\* Any other 401 waits for the refresh in flight, or starts one.
AwaitRefresh(t, k) ==
  LET c == call[t][k]
  IN  /\ c.pc = "401"
      /\ c.op # "login" /\ ~c.isRetry
      /\ call' = [call EXCEPT ![t][k].pc = "waiting"]
      /\ refresh' = IF refresh[t].pc = "none"
                    THEN [refresh EXCEPT ![t] = Refreshing]
                    ELSE refresh
      /\ UNCHANGED <<cookie, issued, over, tab, loggedOut, stragglers>>

\* fetch rejects: offline, CORS, a reset connection.  An answer lost on its
\* way is, to the browser, a request that was never served.
CallFails(t, k) ==
  /\ call[t][k].pc = "sent"
  /\ call' = [call EXCEPT ![t][k] = Settled]
  /\ tab' = IF call[t][k].op = "logout" THEN AfterLogout(t) ELSE tab
  /\ UNCHANGED <<cookie, issued, over, refresh, loggedOut, stragglers>>

\* Fault: only the request that started the refresh goes on.
WokenFirst(t) ==
  IF Waiting(t) = {} THEN {} ELSE {CHOOSE k \in Waiting(t) : TRUE}

\* Every caller shares the promise.
Woken(t) == Waiting(t)

\* request(path, options, true)
Retried(t) ==
  [call EXCEPT ![t] = [k \in Calls[t] |->
     IF k \in Woken(t)
     THEN [call[t][k] EXCEPT !.pc = "sent", !.bearer = TRUE, !.isRetry = TRUE]
     ELSE call[t][k]]]

\* The Set-Cookie of the answer, setAccessToken, and the waiting requests.
ReceiveRefresh(t) ==
  /\ refresh[t].pc = "ok"
  /\ cookie' = refresh[t].token
  /\ tab' = [tab EXCEPT ![t].accessToken = TRUE,
                        ![t].ready = tab[t].page = "protected"]
  /\ call' = Retried(t)
  /\ refresh' = [refresh EXCEPT ![t] = NoRefresh]
  /\ loggedOut' = (loggedOut /\ t \notin stragglers)
  /\ stragglers' = IF t \in stragglers THEN {} ELSE stragglers
  /\ UNCHANGED <<issued, over>>

\* clearAccessToken, and window.location.assign('/login') for the requests
\* that waited; without one the route navigates there.
ReceiveNoSession(t) ==
  /\ refresh[t].pc \in {"refused", "unavailable"}
  /\ tab' = [tab EXCEPT ![t] = LoginPage]
  /\ refresh' = [refresh EXCEPT ![t] = NoRefresh]
  /\ call' = IF Waiting(t) = {} THEN call
             ELSE [call EXCEPT ![t] = [k \in Calls[t] |-> Settled]]
  /\ stragglers' = stragglers \ {t}
  /\ UNCHANGED <<cookie, issued, over, loggedOut>>

\* fetch rejects: the waiting requests fail, a logout among them clears the
\* store, and a page that was starting goes to the login page.
RefreshFails(t) ==
  /\ refresh[t].pc = "sent"
  /\ refresh' = [refresh EXCEPT ![t] = NoRefresh]
  /\ call' = [call EXCEPT ![t] = [k \in Calls[t] |->
                IF k \in Waiting(t) THEN Settled ELSE call[t][k]]]
  /\ tab' = IF \/ tab[t].page = "protected" /\ ~tab[t].ready
               \/ \E k \in Waiting(t) : call[t][k].op = "logout"
            THEN AfterLogout(t) ELSE tab
  /\ stragglers' = stragglers \ {t}
  /\ UNCHANGED <<cookie, issued, over, loggedOut>>

ServerNext ==
  \/ \E i \in 1..MaxPairs : RefreshExpires(i)
  \/ \E t \in Tabs :
       \/ RotateRefresh(t) \/ RefuseRefresh(t) \/ RefreshUnavailable(t)
       \/ \E k \in Calls[t] : Serve(t, k) \/ ServeLogin(t, k)

TabNext ==
  \E t \in Tabs :
    \/ Load(t) \/ ReceiveRefresh(t) \/ ReceiveNoSession(t) \/ RefreshFails(t)
    \/ \E k \in Calls[t] :
         \/ \E op \in {"get", "login", "logout"} : Send(t, k, op)
         \/ ReceiveLogin(t, k) \/ ReceiveLogout(t, k)
         \/ ReceiveRefusal(t, k) \/ AwaitRefresh(t, k) \/ CallFails(t, k)

Next == ServerNext \/ TabNext

Spec == Init /\ [][Next]_vars

-----------------------------------------------------------------------------
(* Properties                                                              *)

\* Every variable keeps to its kind of value, and a request that waits has a
\* refresh of its tab to wait for: nobody waits for a promise that is gone.
TypeOK ==
  /\ cookie \in Pairs
  /\ issued \in Pairs
  /\ over \subseteq 1..issued
  /\ tab \in [Tabs -> TabState]
  /\ refresh \in [Tabs -> RefreshState]
  /\ DOMAIN call = Tabs
  /\ \A t \in Tabs : call[t] \in [Calls[t] -> CallState]
  /\ loggedOut \in BOOLEAN
  /\ stragglers \subseteq Tabs
  /\ \A t \in Tabs : Waiting(t) # {} => refresh[t].pc # "none"

\* A logout ends the session of the browser: until the next login there is no
\* cookie, and no refresh carries one but those already on their way, which
\* can bring the session back.
LoggedOutStaysOut ==
  loggedOut =>
    /\ cookie = 0
    /\ \A t \in Tabs \ stragglers :
         refresh[t].pc = "sent" => refresh[t].token = 0
    /\ \A t \in Tabs \ stragglers : refresh[t].pc # "ok"

\* The user of a tab asked for a logout that is being concluded.
LogsOut(t) == \E k \in Calls[t] : call[t][k].op = "logout"

\* A tab that shows a protected page goes to the login page only when its
\* user logs out, when the refresh token it sent was missing or had expired,
\* when the server would not answer, or when it could not be reached while
\* the page was loading; never because another tab rotated the cookie first.
NoNeedlessLogin ==
  [][\A t \in Tabs :
       tab[t].page = "protected" /\ tab'[t].page = "login" =>
         \/ LogsOut(t)
         \/ refresh[t].pc = "unavailable"
         \/ ~tab[t].ready /\ refresh[t].pc # "refused"
         \/ /\ refresh[t].pc = "refused"
            /\ refresh[t].token = 0 \/ refresh[t].token \in over]_vars
=============================================================================
