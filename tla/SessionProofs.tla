---------------------------- MODULE SessionProofs ----------------------------
(***************************************************************************)
(* Theorems about Session for every number of tabs, requests and tokens.   *)
(***************************************************************************)
EXTENDS Session, TLAPS

\* What a tab, its refresh and a request are reset to has its type.
LEMMA ResetTypes ==
  /\ LoginPage \in TabState
  /\ NoRefresh \in RefreshState
  /\ Settled \in CallState
  /\ cookie \in Pairs => Refreshing \in RefreshState
<1>1. 0 \in Pairs
  BY SessionAssumption DEF SessionAssumption, Pairs
<1> QED BY <1>1 DEF LoginPage, TabState, NoRefresh, RefreshState, Settled,
                    CallState, Refreshing

\* One request of one tab changes.
LEMMA OneCall ==
  ASSUME TypeOK, NEW t \in Tabs, NEW k \in Calls[t], NEW c \in CallState,
         call' = [call EXCEPT ![t][k] = c]
  PROVE  /\ DOMAIN call' = Tabs
         /\ \A s \in Tabs : call'[s] \in [Calls[s] -> CallState]
         /\ call'[t][k] = c
         /\ \A s \in Tabs : \A l \in Calls[s] :
              <<s, l>> # <<t, k>> => call'[s][l] = call[s][l]
  BY DEF TypeOK

\* The requests of one tab change.
LEMMA CallsOfTab ==
  ASSUME TypeOK, NEW t \in Tabs, NEW f \in [Calls[t] -> CallState],
         call' = [call EXCEPT ![t] = f]
  PROVE  /\ DOMAIN call' = Tabs
         /\ \A s \in Tabs : call'[s] \in [Calls[s] -> CallState]
         /\ call'[t] = f
         /\ \A s \in Tabs \ {t} : call'[s] = call[s]
  BY DEF TypeOK

\* A request that is not left waiting adds nobody who waits.
LEMMA NoMoreWaiting ==
  ASSUME TypeOK, NEW t \in Tabs, NEW k \in Calls[t], NEW c \in CallState,
         call' = [call EXCEPT ![t][k] = c], c.pc # "waiting", NEW s \in Tabs
  PROVE  Waiting(s)' \subseteq Waiting(s)
  BY OneCall DEF Waiting

-----------------------------------------------------------------------------
(* Types                                                                   *)

\* The tabs begin with their types.
LEMMA TypeInit == Init => TypeOK
<1> SUFFICES ASSUME Init PROVE TypeOK
  OBVIOUS
<1>1. cookie \in Pairs /\ issued \in Pairs
  BY DEF Init
<1>2. tab \in [Tabs -> TabState] /\ refresh \in [Tabs -> RefreshState]
  BY ResetTypes DEF Init
<1>3. DOMAIN call = Tabs /\ \A t \in Tabs : call[t] \in [Calls[t] -> CallState]
  BY ResetTypes DEF Init
<1>4. \A t \in Tabs : Waiting(t) = {}
  BY DEF Init, Waiting, Settled
<1> QED BY <1>1, <1>2, <1>3, <1>4 DEF Init, TypeOK

\* A token more, or one that expired, is still among the pairs.
LEMMA NewPair ==
  ASSUME TypeOK, issued < MaxPairs
  PROVE  issued + 1 \in Pairs /\ over \subseteq 1..(issued + 1)
<1>1. issued \in Nat /\ MaxPairs \in Nat
  BY SessionAssumption DEF SessionAssumption, TypeOK, Pairs
<1>2. 1..issued \subseteq 1..(issued + 1)
  BY <1>1
<1> QED BY <1>1, <1>2 DEF TypeOK, Pairs

\* The answers of the server keep the types.
LEMMA TypeServer == TypeOK /\ ServerNext => TypeOK'
<1> SUFFICES ASSUME TypeOK, ServerNext PROVE TypeOK'
  OBVIOUS
<1>1. CASE \E i \in 1..MaxPairs : RefreshExpires(i)
  BY <1>1 DEF RefreshExpires, TypeOK, Waiting
<1>2. ASSUME NEW t \in Tabs, RotateRefresh(t)
      PROVE  TypeOK'
  <2>1. [pc |-> "ok", token |-> issued + 1] \in RefreshState
    BY <1>2, NewPair DEF RotateRefresh, RefreshState
  <2>2. refresh' \in [Tabs -> RefreshState]
    BY <1>2, <2>1 DEF RotateRefresh, TypeOK
  <2>3. \A s \in Tabs : Waiting(s)' # {} => refresh'[s].pc # "none"
    BY <1>2 DEF RotateRefresh, TypeOK, Waiting
  <2> QED BY <1>2, <2>2, <2>3, NewPair DEF RotateRefresh, TypeOK
<1>3. ASSUME NEW t \in Tabs, RefuseRefresh(t) \/ RefreshUnavailable(t)
      PROVE  TypeOK'
  <2>1. PICK pc \in {"refused", "unavailable"} :
          refresh' = [refresh EXCEPT ![t] = [refresh[t] EXCEPT !.pc = pc]]
    BY <1>3 DEF RefuseRefresh, RefreshUnavailable
  <2>2. [refresh[t] EXCEPT !.pc = pc] \in RefreshState
    BY DEF TypeOK, RefreshState
  <2>3. refresh' \in [Tabs -> RefreshState]
    BY <2>1, <2>2 DEF TypeOK
  <2>4. [refresh[t] EXCEPT !.pc = pc].pc = pc
    BY DEF TypeOK, RefreshState
  <2>5. \A s \in Tabs : Waiting(s)' # {} => refresh'[s].pc # "none"
    BY <1>3, <2>1, <2>4 DEF RefuseRefresh, RefreshUnavailable, TypeOK, Waiting
  <2> QED BY <1>3, <2>3, <2>5 DEF RefuseRefresh, RefreshUnavailable, TypeOK
<1>4. ASSUME NEW t \in Tabs, NEW k \in Calls[t], Serve(t, k)
      PROVE  TypeOK'
  <2> DEFINE c == [call[t][k] EXCEPT !.bearer = FALSE]
  <2>1. call[t][k] \in CallState
    BY DEF TypeOK
  <2>2. /\ Settled \in CallState /\ Settled.pc # "waiting"
        /\ [c EXCEPT !.pc = "ok"] \in CallState
        /\ [c EXCEPT !.pc = "ok"].pc # "waiting"
        /\ [c EXCEPT !.pc = "401"] \in CallState
        /\ [c EXCEPT !.pc = "401"].pc # "waiting"
    BY <2>1, ResetTypes DEF CallState, Settled
  <2>3. PICK d \in CallState : Served(t, k, d) /\ d.pc # "waiting"
    BY <1>4, <2>2 DEF Serve
  <2>4. call' = [call EXCEPT ![t][k] = d]
    BY <2>3 DEF Served
  <2>5. \A s \in Tabs : Waiting(s)' \subseteq Waiting(s)
    BY <2>3, <2>4, NoMoreWaiting
  <2> QED BY <1>4, <2>4, <2>5, OneCall DEF Serve, TypeOK
<1>5. ASSUME NEW t \in Tabs, NEW k \in Calls[t], ServeLogin(t, k)
      PROVE  TypeOK'
  <2>1. call[t][k] \in CallState
    BY DEF TypeOK
  <2>2. CASE /\ Served(t, k, [call[t][k] EXCEPT !.pc = "401", !.bearer = FALSE])
             /\ UNCHANGED issued
    <3> DEFINE d == [call[t][k] EXCEPT !.pc = "401", !.bearer = FALSE]
    <3>1. d \in CallState /\ d.pc # "waiting"
      BY <2>1 DEF CallState
    <3>2. call' = [call EXCEPT ![t][k] = d]
      BY <2>2 DEF Served
    <3> HIDE DEF d
    <3>3. \A s \in Tabs : Waiting(s)' \subseteq Waiting(s)
      BY <3>1, <3>2, NoMoreWaiting
    <3> QED BY <1>5, <2>2, <3>1, <3>2, <3>3, OneCall DEF ServeLogin, TypeOK
  <2>3. CASE /\ issued < MaxPairs
             /\ issued' = issued + 1
             /\ Served(t, k, [call[t][k] EXCEPT !.pc = "ok", !.bearer = FALSE,
                                                !.token = issued + 1])
    <3> DEFINE d == [call[t][k] EXCEPT !.pc = "ok", !.bearer = FALSE,
                                       !.token = issued + 1]
    <3>1. d \in CallState /\ d.pc # "waiting"
      BY <2>1, <2>3, NewPair DEF CallState
    <3>2. call' = [call EXCEPT ![t][k] = d]
      BY <2>3 DEF Served
    <3> HIDE DEF d
    <3>3. \A s \in Tabs : Waiting(s)' \subseteq Waiting(s)
      BY <3>1, <3>2, NoMoreWaiting
    <3> QED BY <1>5, <2>3, <3>1, <3>2, <3>3, OneCall, NewPair
            DEF ServeLogin, TypeOK
  <2> QED BY <1>5, <2>2, <2>3 DEF ServeLogin
<1> QED BY <1>1, <1>2, <1>3, <1>4, <1>5 DEF ServerNext

\* A page that is loaded keeps the types.
LEMMA TypeLoad == ASSUME TypeOK, NEW t \in Tabs, Load(t) PROVE TypeOK'
<1>1. [LoginPage EXCEPT !.page = "protected"] \in TabState
  BY DEF LoginPage, TabState
<1>2. tab' \in [Tabs -> TabState]
  BY <1>1 DEF Load, TypeOK
<1>3. refresh' \in [Tabs -> RefreshState]
  BY ResetTypes DEF Load, TypeOK
<1> DEFINE f == [k \in Calls[t] |-> Settled]
<1>4. f \in [Calls[t] -> CallState] /\ call' = [call EXCEPT ![t] = f]
  BY ResetTypes DEF Load
<1>5. \A s \in Tabs : Waiting(s)' # {} => refresh'[s].pc # "none"
  <2> SUFFICES ASSUME NEW s \in Tabs, Waiting(s)' # {}
               PROVE  refresh'[s].pc # "none"
    OBVIOUS
  <2>1. CASE s = t
    <3>1. call'[t] = f
      BY <1>4, CallsOfTab
    <3> QED BY <2>1, <3>1 DEF Waiting, Settled
  <2>2. CASE s # t
    <3>1. call'[s] = call[s] /\ refresh'[s] = refresh[s]
      BY <1>4, <2>2, CallsOfTab DEF Load, TypeOK
    <3> QED BY <3>1 DEF Waiting, TypeOK
  <2> QED BY <2>1, <2>2
<1> HIDE DEF f
<1> QED BY <1>2, <1>3, <1>4, <1>5, CallsOfTab DEF Load, TypeOK

\* A step of one request that leaves its refresh alone keeps the types.
LEMMA TypeCall ==
  ASSUME TypeOK, NEW t \in Tabs, NEW k \in Calls[t],
         \/ \E op \in {"get", "login", "logout"} : Send(t, k, op)
         \/ ReceiveLogin(t, k) \/ ReceiveLogout(t, k)
         \/ ReceiveRefusal(t, k) \/ CallFails(t, k)
  PROVE  TypeOK'
<1>1. call[t][k] \in CallState
  BY DEF TypeOK
<1>2. tab[t] \in TabState
  BY DEF TypeOK
<1>3. PICK d \in CallState :
        call' = [call EXCEPT ![t][k] = d] /\ d.pc # "waiting"
  <2>1. ASSUME NEW op \in {"get", "login", "logout"}, Send(t, k, op)
        PROVE  \E d \in CallState :
                 call' = [call EXCEPT ![t][k] = d] /\ d.pc # "waiting"
    <3> DEFINE d == [Settled EXCEPT !.pc = "sent", !.op = op,
                                    !.bearer = tab[t].accessToken]
    <3>1. d \in CallState /\ d.pc # "waiting"
      BY <1>2, ResetTypes DEF Settled, CallState, TabState
    <3>2. call' = [call EXCEPT ![t][k] = d]
      BY <2>1 DEF Send
    <3> QED BY <3>1, <3>2
  <2>2. Settled \in CallState /\ Settled.pc # "waiting"
    BY ResetTypes DEF Settled
  <2> QED BY <2>1, <2>2 DEF ReceiveLogin, ReceiveLogout, ReceiveRefusal,
                            CallFails
<1>4. /\ DOMAIN call' = Tabs
      /\ \A s \in Tabs : call'[s] \in [Calls[s] -> CallState]
  BY <1>3, OneCall
<1>5. \A s \in Tabs : Waiting(s)' \subseteq Waiting(s)
  BY <1>3, NoMoreWaiting
<1>6. tab' \in [Tabs -> TabState]
  <2>1. [page |-> "protected", ready |-> TRUE, accessToken |-> TRUE]
          \in TabState
    BY DEF TabState
  <2> QED BY <2>1, ResetTypes DEF Send, ReceiveLogin, ReceiveLogout,
             ReceiveRefusal, CallFails, AfterLogout, TypeOK
<1>7. cookie' \in Pairs
  BY <1>1, ResetTypes, SessionAssumption
     DEF Send, ReceiveLogin, ReceiveLogout, ReceiveRefusal, CallFails,
         CookieDeleted, TypeOK, CallState, Pairs, SessionAssumption
<1>8. loggedOut' \in BOOLEAN /\ stragglers' \subseteq Tabs
  BY DEF Send, ReceiveLogin, ReceiveLogout, ReceiveRefusal, CallFails, TypeOK
<1>9. UNCHANGED <<issued, over, refresh>>
  BY DEF Send, ReceiveLogin, ReceiveLogout, ReceiveRefusal, CallFails
<1> QED BY <1>4, <1>5, <1>6, <1>7, <1>8, <1>9 DEF TypeOK

\* A request that begins to wait has a refresh to wait for.
LEMMA TypeAwait ==
  ASSUME TypeOK, NEW t \in Tabs, NEW k \in Calls[t], AwaitRefresh(t, k)
  PROVE  TypeOK'
<1> DEFINE d == [call[t][k] EXCEPT !.pc = "waiting"]
<1>1. d \in CallState
  <2>1. call[t][k] \in CallState
    BY DEF TypeOK
  <2> QED BY <2>1 DEF CallState
<1>2. call' = [call EXCEPT ![t][k] = d]
  BY DEF AwaitRefresh
<1> HIDE DEF d
<1>3. /\ DOMAIN call' = Tabs
      /\ \A s \in Tabs : call'[s] \in [Calls[s] -> CallState]
      /\ \A s \in Tabs \ {t} : Waiting(s)' = Waiting(s)
  BY <1>1, <1>2, OneCall DEF Waiting
<1>4. refresh' \in [Tabs -> RefreshState]
  BY ResetTypes DEF AwaitRefresh, TypeOK
<1>5. refresh'[t].pc # "none"
  BY DEF AwaitRefresh, TypeOK, Refreshing
<1>6. \A s \in Tabs \ {t} : refresh'[s] = refresh[s]
  BY DEF AwaitRefresh, TypeOK
<1>7. \A s \in Tabs : Waiting(s)' # {} => refresh'[s].pc # "none"
  BY <1>3, <1>5, <1>6 DEF TypeOK
<1> QED BY <1>3, <1>4, <1>7 DEF AwaitRefresh, TypeOK

\* The end of a refresh, whatever it was, leaves nobody waiting.
LEMMA TypeRefreshOver ==
  ASSUME TypeOK, NEW t \in Tabs,
         ReceiveRefresh(t) \/ ReceiveNoSession(t) \/ RefreshFails(t)
  PROVE  TypeOK'
<1>1. \A k \in Calls[t] : call[t][k] \in CallState
  BY DEF TypeOK
<1>2. PICK f \in [Calls[t] -> CallState] :
        /\ call' = [call EXCEPT ![t] = f] \/ (call' = call /\ f = call[t])
        /\ \A k \in Calls[t] : f[k].pc # "waiting"
  <2>1. CASE ReceiveRefresh(t)
    <3> DEFINE f == [k \in Calls[t] |->
          IF k \in Woken(t)
          THEN [call[t][k] EXCEPT !.pc = "sent", !.bearer = TRUE,
                                  !.isRetry = TRUE]
          ELSE call[t][k]]
    <3>1. \A k \in Calls[t] : f[k] \in CallState /\ f[k].pc # "waiting"
      BY <1>1 DEF CallState, Woken, Waiting
    <3>2. call' = [call EXCEPT ![t] = f]
      BY <2>1 DEF ReceiveRefresh, Retried
    <3> QED BY <3>1, <3>2
  <2>2. CASE ReceiveNoSession(t) /\ Waiting(t) = {}
    <3>1. call[t] \in [Calls[t] -> CallState]
      BY DEF TypeOK
    <3>2. call' = call
      BY <2>2 DEF ReceiveNoSession
    <3>3. \A k \in Calls[t] : call[t][k].pc # "waiting"
      BY <2>2 DEF Waiting
    <3> QED BY <3>1, <3>2, <3>3
  <2>3. CASE ReceiveNoSession(t) /\ Waiting(t) # {}
    <3> DEFINE f == [k \in Calls[t] |-> Settled]
    <3>1. \A k \in Calls[t] : f[k] \in CallState /\ f[k].pc # "waiting"
      BY ResetTypes DEF Settled
    <3>2. call' = [call EXCEPT ![t] = f]
      BY <2>3 DEF ReceiveNoSession
    <3>3. f \in [Calls[t] -> CallState] /\ \A k \in Calls[t] : f[k].pc # "waiting"
      BY <3>1
    <3> HIDE DEF f
    <3> QED BY <3>2, <3>3
  <2>4. CASE RefreshFails(t)
    <3> DEFINE f == [k \in Calls[t] |->
                       IF k \in Waiting(t) THEN Settled ELSE call[t][k]]
    <3>1. \A k \in Calls[t] : f[k] \in CallState /\ f[k].pc # "waiting"
      BY <1>1, ResetTypes DEF Waiting, Settled
    <3>2. call' = [call EXCEPT ![t] = f]
      BY <2>4 DEF RefreshFails
    <3> QED BY <3>1, <3>2
  <2> QED BY <2>1, <2>2, <2>3, <2>4
<1>3. /\ DOMAIN call' = Tabs
      /\ \A s \in Tabs : call'[s] \in [Calls[s] -> CallState]
      /\ call'[t] = f
      /\ \A s \in Tabs \ {t} : call'[s] = call[s]
  BY <1>2, CallsOfTab DEF TypeOK
<1>4. refresh' = [refresh EXCEPT ![t] = NoRefresh]
  BY DEF ReceiveRefresh, ReceiveNoSession, RefreshFails
<1>5. \A s \in Tabs : Waiting(s)' # {} => refresh'[s].pc # "none"
  <2>1. Waiting(t)' = {}
    BY <1>2, <1>3 DEF Waiting
  <2>2. \A s \in Tabs \ {t} : Waiting(s)' = Waiting(s) /\ refresh'[s] = refresh[s]
    BY <1>3, <1>4 DEF Waiting, TypeOK
  <2> QED BY <2>1, <2>2 DEF TypeOK
<1>6. refresh' \in [Tabs -> RefreshState]
  BY <1>4, ResetTypes DEF TypeOK
<1>7. tab' \in [Tabs -> TabState]
  <2>1. [tab[t] EXCEPT !.accessToken = TRUE, !.ready = tab[t].page = "protected"]
          \in TabState
    BY DEF TypeOK, TabState
  <2>2. ReceiveRefresh(t) =>
          tab' = [tab EXCEPT ![t] =
            [tab[t] EXCEPT !.accessToken = TRUE,
                           !.ready = tab[t].page = "protected"]]
    BY DEF ReceiveRefresh, TypeOK
  <2> QED BY <2>1, <2>2, ResetTypes DEF ReceiveNoSession, RefreshFails,
                                         AfterLogout, TypeOK
<1>8. cookie' \in Pairs
  BY DEF ReceiveRefresh, ReceiveNoSession, RefreshFails, TypeOK, RefreshState
<1>9. loggedOut' \in BOOLEAN /\ stragglers' \subseteq Tabs
  BY DEF ReceiveRefresh, ReceiveNoSession, RefreshFails, TypeOK
<1>10. UNCHANGED <<issued, over>>
  BY DEF ReceiveRefresh, ReceiveNoSession, RefreshFails
<1> QED BY <1>3, <1>5, <1>6, <1>7, <1>8, <1>9, <1>10 DEF TypeOK

\* Type correctness is inductive.
LEMMA TypeNext == TypeOK /\ [Next]_vars => TypeOK'
<1> SUFFICES ASSUME TypeOK, [Next]_vars PROVE TypeOK'
  OBVIOUS
<1>1. CASE ServerNext
  BY <1>1, TypeServer
<1>2. CASE TabNext
  BY <1>2, TypeLoad, TypeCall, TypeAwait, TypeRefreshOver DEF TabNext
<1>3. CASE UNCHANGED vars
  BY <1>3 DEF vars, TypeOK, Waiting
<1> QED BY <1>1, <1>2, <1>3 DEF Next

\* Every variable keeps its type, and every request that waits for a refresh
\* has one to wait for, for any number of tabs and requests.
THEOREM SessionTypeCorrect == Spec => []TypeOK
  BY TypeInit, TypeNext, PTL DEF Spec

-----------------------------------------------------------------------------
(* The end of a session                                                    *)

\* A new pair is not none: the number of pairs issued does not shrink to it.
LEMMA IssuedIsNatural == TypeOK => issued \in Nat /\ issued + 1 # 0
<1>1. TypeOK => issued \in Nat
  BY SessionAssumption DEF SessionAssumption, TypeOK, Pairs
<1> QED BY <1>1

\* What the server answers does not undo a logout: it accepts no refresh that
\* carries no cookie.
LEMMA LogoutServer ==
  TypeOK /\ LoggedOutStaysOut /\ ServerNext => LoggedOutStaysOut'
<1> SUFFICES ASSUME TypeOK, LoggedOutStaysOut, ServerNext, loggedOut'
             PROVE  /\ cookie' = 0
                    /\ \A t \in Tabs \ stragglers' :
                         /\ refresh'[t].pc = "sent" => refresh'[t].token = 0
                         /\ refresh'[t].pc # "ok"
  BY DEF LoggedOutStaysOut
<1>1. UNCHANGED <<cookie, tab, loggedOut, stragglers>>
  BY DEF ServerNext, RefreshExpires, RotateRefresh, RefuseRefresh,
         RefreshUnavailable, Serve, ServeLogin
<1>2. /\ cookie = 0
      /\ \A t \in Tabs \ stragglers :
           /\ refresh[t].pc = "sent" => refresh[t].token = 0
           /\ refresh[t].pc # "ok"
  BY <1>1 DEF LoggedOutStaysOut
<1>3. CASE UNCHANGED refresh
  BY <1>1, <1>2, <1>3
<1>4. ASSUME NEW t \in Tabs, RotateRefresh(t)
      PROVE  t \in stragglers /\ \A s \in Tabs \ {t} : refresh'[s] = refresh[s]
  BY <1>2, <1>4 DEF RotateRefresh, Accepts, TypeOK
<1>5. ASSUME NEW t \in Tabs, RefuseRefresh(t) \/ RefreshUnavailable(t)
      PROVE  /\ refresh'[t].pc \in {"refused", "unavailable"}
             /\ \A s \in Tabs \ {t} : refresh'[s] = refresh[s]
  <2>1. refresh[t] \in RefreshState
    BY DEF TypeOK
  <2> QED BY <1>5, <2>1
          DEF RefuseRefresh, RefreshUnavailable, TypeOK, RefreshState
<1>6. CASE \E t \in Tabs : RotateRefresh(t)
  BY <1>1, <1>2, <1>4, <1>6
<1>7. CASE \E t \in Tabs : RefuseRefresh(t) \/ RefreshUnavailable(t)
  <2> PICK t \in Tabs : RefuseRefresh(t) \/ RefreshUnavailable(t)
    BY <1>7
  <2>1. /\ refresh'[t].pc \in {"refused", "unavailable"}
        /\ \A s \in Tabs \ {t} : refresh'[s] = refresh[s]
    BY <1>5
  <2>2. refresh'[t].pc # "sent" /\ refresh'[t].pc # "ok"
    BY <2>1
  <2> QED BY <1>1, <1>2, <2>1, <2>2
<1>8. \/ UNCHANGED refresh
      \/ \E t \in Tabs : RotateRefresh(t)
      \/ \E t \in Tabs : RefuseRefresh(t) \/ RefreshUnavailable(t)
  BY DEF ServerNext, RefreshExpires, Serve, ServeLogin
<1> QED BY <1>3, <1>6, <1>7, <1>8

\* A request of a tab undoes a logout only as a login.
LEMMA LogoutCall ==
  ASSUME TypeOK, LoggedOutStaysOut, NEW t \in Tabs, NEW k \in Calls[t],
         \/ \E op \in {"get", "login", "logout"} : Send(t, k, op)
         \/ ReceiveLogin(t, k) \/ ReceiveLogout(t, k)
         \/ ReceiveRefusal(t, k) \/ AwaitRefresh(t, k) \/ CallFails(t, k)
  PROVE  LoggedOutStaysOut'
<1>1. CASE UNCHANGED <<cookie, refresh, loggedOut, stragglers>>
  BY <1>1 DEF LoggedOutStaysOut
<1>2. CASE ReceiveLogin(t, k)
  BY <1>2 DEF ReceiveLogin, LoggedOutStaysOut
<1>3. CASE ReceiveLogout(t, k)
  BY <1>3 DEF ReceiveLogout, CookieDeleted, LoggedOutStaysOut
<1>4. CASE AwaitRefresh(t, k)
  <2>1. /\ \A s \in Tabs \ {t} : refresh'[s] = refresh[s]
        /\ \/ refresh'[t] = refresh[t]
           \/ refresh'[t] = [pc |-> "sent", token |-> cookie]
    BY <1>4 DEF AwaitRefresh, Refreshing, TypeOK
  <2>2. UNCHANGED <<cookie, loggedOut, stragglers>>
    BY <1>4 DEF AwaitRefresh
  <2> QED BY <2>1, <2>2 DEF LoggedOutStaysOut
<1> QED BY <1>1, <1>2, <1>3, <1>4 DEF Send, ReceiveRefusal, CallFails

\* A page that loads sends the cookie there is, which is none.
LEMMA LogoutLoad ==
  ASSUME TypeOK, LoggedOutStaysOut, NEW t \in Tabs, Load(t)
  PROVE  LoggedOutStaysOut'
<1>1. /\ refresh'[t] = [pc |-> "sent", token |-> cookie]
      /\ \A s \in Tabs \ {t} : refresh'[s] = refresh[s]
  BY DEF Load, Refreshing, TypeOK
<1>2. UNCHANGED <<cookie, loggedOut>> /\ stragglers' = stragglers \ {t}
  BY DEF Load
<1> QED BY <1>1, <1>2 DEF LoggedOutStaysOut

\* A refresh that ends undoes a logout only if it was on its way by then.
LEMMA LogoutRefreshOver ==
  ASSUME TypeOK, LoggedOutStaysOut, NEW t \in Tabs,
         ReceiveRefresh(t) \/ ReceiveNoSession(t) \/ RefreshFails(t)
  PROVE  LoggedOutStaysOut'
<1>1. refresh' = [refresh EXCEPT ![t] = NoRefresh]
  BY DEF ReceiveRefresh, ReceiveNoSession, RefreshFails
<1>2. /\ refresh'[t].pc # "sent" /\ refresh'[t].pc # "ok"
      /\ \A s \in Tabs \ {t} : refresh'[s] = refresh[s]
  BY <1>1 DEF NoRefresh, TypeOK
<1>3. CASE ReceiveRefresh(t)
  <2>1. loggedOut' => t \notin stragglers /\ loggedOut
    BY <1>3 DEF ReceiveRefresh
  <2>2. refresh[t].pc = "ok"
    BY <1>3 DEF ReceiveRefresh
  <2>3. ~loggedOut'
    BY <2>1, <2>2 DEF LoggedOutStaysOut
  <2> QED BY <2>3 DEF LoggedOutStaysOut
<1>4. CASE ReceiveNoSession(t) \/ RefreshFails(t)
  <2>1. UNCHANGED <<cookie, loggedOut>> /\ stragglers' = stragglers \ {t}
    BY <1>4 DEF ReceiveNoSession, RefreshFails
  <2> QED BY <1>2, <2>1 DEF LoggedOutStaysOut
<1> QED BY <1>3, <1>4

\* After a logout the browser has no cookie, and no refresh brings one but
\* those on their way, for any number of tabs: the logout deletes the cookie
\* at its path, every refresh carries the cookie of its moment, and the
\* server accepts no refresh without one.
THEOREM LogoutsHold == Spec => []LoggedOutStaysOut
<1>1. Init => LoggedOutStaysOut
  BY DEF Init, LoggedOutStaysOut
<1>2. TypeOK /\ LoggedOutStaysOut /\ [Next]_vars => LoggedOutStaysOut'
  <2> SUFFICES ASSUME TypeOK, LoggedOutStaysOut, [Next]_vars
               PROVE  LoggedOutStaysOut'
    OBVIOUS
  <2>1. CASE ServerNext
    BY <2>1, LogoutServer
  <2>2. CASE TabNext
    BY <2>2, LogoutCall, LogoutLoad, LogoutRefreshOver DEF TabNext
  <2>3. CASE UNCHANGED vars
    BY <2>3 DEF vars, LoggedOutStaysOut
  <2> QED BY <2>1, <2>2, <2>3 DEF Next
<1> QED BY <1>1, <1>2, SessionTypeCorrect, PTL DEF Spec

-----------------------------------------------------------------------------
(* Needless logins                                                         *)

\* A refresh the server refused carried no token, or one that had expired.
RefusedRightly ==
  \A t \in Tabs :
    refresh[t].pc = "refused" => refresh[t].token = 0 \/ refresh[t].token \in over

\* The server refuses only those: an expired token stays expired.
LEMMA RefusalsRight == TypeOK /\ RefusedRightly /\ [Next]_vars => RefusedRightly'
<1> SUFFICES ASSUME TypeOK, RefusedRightly, [Next]_vars PROVE RefusedRightly'
  OBVIOUS
<1>1. CASE ServerNext
  <2>1. over \subseteq over'
    BY <1>1 DEF ServerNext, RefreshExpires, RotateRefresh, RefuseRefresh,
                RefreshUnavailable, Serve, ServeLogin
  <2>2. CASE UNCHANGED refresh
    BY <2>1, <2>2 DEF RefusedRightly
  <2>3. ASSUME NEW t \in Tabs, RotateRefresh(t)
        PROVE  RefusedRightly'
    <3>1. refresh'[t].pc = "ok" /\ \A s \in Tabs \ {t} : refresh'[s] = refresh[s]
      BY <2>3 DEF RotateRefresh, TypeOK
    <3> QED BY <2>1, <3>1 DEF RefusedRightly
  <2>4. ASSUME NEW t \in Tabs, RefuseRefresh(t)
        PROVE  RefusedRightly'
    <3>1. /\ refresh'[t].token = refresh[t].token
          /\ \A s \in Tabs \ {t} : refresh'[s] = refresh[s]
      BY <2>4 DEF RefuseRefresh, TypeOK, RefreshState
    <3>2. refresh[t].token = 0 \/ refresh[t].token \in over
      BY <2>4 DEF RefuseRefresh, Accepts
    <3> QED BY <2>1, <3>1, <3>2 DEF RefusedRightly
  <2>5. ASSUME NEW t \in Tabs, RefreshUnavailable(t)
        PROVE  RefusedRightly'
    <3>1. refresh[t] \in RefreshState
      BY DEF TypeOK
    <3>2. /\ refresh'[t].pc = "unavailable"
          /\ \A s \in Tabs \ {t} : refresh'[s] = refresh[s]
      BY <2>5, <3>1 DEF RefreshUnavailable, TypeOK, RefreshState
    <3> QED BY <2>1, <3>2 DEF RefusedRightly
  <2>6. \/ UNCHANGED refresh
        \/ \E t \in Tabs :
             RotateRefresh(t) \/ RefuseRefresh(t) \/ RefreshUnavailable(t)
    BY <1>1 DEF ServerNext, RefreshExpires, Serve, ServeLogin
  <2> QED BY <2>2, <2>3, <2>4, <2>5, <2>6
<1>2. CASE TabNext
  <2>1. UNCHANGED over
    BY <1>2 DEF TabNext, Load, Send, ReceiveLogin, ReceiveLogout, CallFails,
                ReceiveRefusal, AwaitRefresh, ReceiveRefresh, RefreshFails,
                ReceiveNoSession
  <2>2. CASE UNCHANGED refresh
    BY <2>1, <2>2 DEF RefusedRightly
  <2>3. ASSUME NEW t \in Tabs,
               \/ refresh' = [refresh EXCEPT ![t] = Refreshing]
               \/ refresh' = [refresh EXCEPT ![t] = NoRefresh]
        PROVE  RefusedRightly'
    <3>1. /\ refresh'[t].pc \in {"sent", "none"}
          /\ \A s \in Tabs \ {t} : refresh'[s] = refresh[s]
      BY <2>3 DEF Refreshing, NoRefresh, TypeOK
    <3>2. refresh'[t].pc # "refused"
      BY <3>1
    <3> QED BY <2>1, <3>1, <3>2 DEF RefusedRightly
  <2>4. \/ UNCHANGED refresh
        \/ \E t \in Tabs :
             \/ refresh' = [refresh EXCEPT ![t] = Refreshing]
             \/ refresh' = [refresh EXCEPT ![t] = NoRefresh]
    BY <1>2 DEF TabNext, Load, Send, ReceiveLogin, ReceiveLogout, CallFails,
                ReceiveRefusal, AwaitRefresh, ReceiveRefresh, RefreshFails,
                ReceiveNoSession
  <2> QED BY <2>2, <2>3, <2>4
<1>3. CASE UNCHANGED vars
  BY <1>3 DEF vars, RefusedRightly
<1> QED BY <1>1, <1>2, <1>3 DEF Next

\* A tab's way to the login page has one of the causes.
LoginHasCause(t) ==
  tab[t].page = "protected" /\ tab'[t].page = "login" =>
    \/ LogsOut(t)
    \/ refresh[t].pc = "unavailable"
    \/ ~tab[t].ready /\ refresh[t].pc # "refused"
    \/ /\ refresh[t].pc = "refused"
       /\ refresh[t].token = 0 \/ refresh[t].token \in over

\* A request of a tab takes the tab to the login page only to log out.
LEMMA CallCause ==
  ASSUME TypeOK, NEW t \in Tabs, NEW k \in Calls[t],
         \/ \E op \in {"get", "login", "logout"} : Send(t, k, op)
         \/ ReceiveLogin(t, k) \/ ReceiveLogout(t, k)
         \/ ReceiveRefusal(t, k) \/ AwaitRefresh(t, k) \/ CallFails(t, k)
  PROVE  \A s \in Tabs : LoginHasCause(s)
<1>1. CASE UNCHANGED tab
  BY <1>1 DEF LoginHasCause
<1>2. CASE ReceiveLogin(t, k)
  <2>1. tab'[t].page = "protected" /\ \A s \in Tabs \ {t} : tab'[s] = tab[s]
    BY <1>2 DEF ReceiveLogin, TypeOK
  <2> QED BY <2>1 DEF LoginHasCause
<1>3. CASE call[t][k].op = "logout" /\ tab' = AfterLogout(t)
  <2>1. LogsOut(t) /\ \A s \in Tabs \ {t} : tab'[s] = tab[s]
    BY <1>3 DEF LogsOut, AfterLogout, TypeOK
  <2> QED BY <2>1 DEF LoginHasCause
<1> QED BY <1>1, <1>2, <1>3
        DEF Send, ReceiveLogout, ReceiveRefusal, AwaitRefresh, CallFails

\* A refresh that ends takes its tab to the login page only for a cause.
LEMMA RefreshCause ==
  ASSUME TypeOK, RefusedRightly, NEW t \in Tabs,
         ReceiveRefresh(t) \/ ReceiveNoSession(t) \/ RefreshFails(t)
  PROVE  \A s \in Tabs : LoginHasCause(s)
<1>1. \A s \in Tabs \ {t} : tab'[s] = tab[s]
  BY DEF ReceiveRefresh, ReceiveNoSession, RefreshFails, AfterLogout, TypeOK
<1>2. CASE ReceiveRefresh(t)
  <2>1. tab[t] \in TabState
    BY DEF TypeOK
  <2>2. tab'[t].page = tab[t].page
    BY <1>2, <2>1 DEF ReceiveRefresh, TypeOK, TabState
  <2> QED BY <1>1, <2>2 DEF LoginHasCause
<1>3. CASE ReceiveNoSession(t)
  BY <1>1, <1>3 DEF ReceiveNoSession, RefusedRightly, LoginHasCause
<1>4. CASE RefreshFails(t)
  <2>1. refresh[t].pc # "refused"
    BY <1>4 DEF RefreshFails
  <2>2. \/ tab' = tab
        \/ ~tab[t].ready
        \/ \E k \in Waiting(t) : call[t][k].op = "logout"
    BY <1>4 DEF RefreshFails
  <2>3. (\E k \in Waiting(t) : call[t][k].op = "logout") => LogsOut(t)
    BY DEF Waiting, LogsOut
  <2> QED BY <1>1, <2>1, <2>2, <2>3 DEF LoginHasCause
<1> QED BY <1>2, <1>3, <1>4

\* Nobody who neither logs out nor loses the session is sent to the login
\* page, however many tabs rotate the one cookie: a rotated token stays good,
\* so a refusal always means that the token was missing or past its lifetime.
THEOREM NoLoginWithoutCause == Spec => NoNeedlessLogin
<1>1. Init => RefusedRightly
  BY DEF Init, NoRefresh, RefusedRightly
<1>2. TypeOK /\ RefusedRightly /\ [Next]_vars =>
        [\A t \in Tabs : LoginHasCause(t)]_vars
  <2> SUFFICES ASSUME TypeOK, RefusedRightly, Next
               PROVE  \A t \in Tabs : LoginHasCause(t)
    OBVIOUS
  <2>1. CASE ServerNext
    <3>1. UNCHANGED tab
      BY <2>1 DEF ServerNext, RefreshExpires, RotateRefresh, RefuseRefresh,
                  RefreshUnavailable, Serve, ServeLogin
    <3> QED BY <3>1 DEF LoginHasCause
  <2>2. ASSUME NEW t \in Tabs, Load(t)
        PROVE  \A s \in Tabs : LoginHasCause(s)
    <3>1. /\ tab'[t].page = "protected"
          /\ \A s \in Tabs \ {t} : tab'[s] = tab[s]
      BY <2>2 DEF Load, LoginPage, TypeOK
    <3> QED BY <3>1 DEF LoginHasCause
  <2>3. CASE TabNext
    BY <2>2, <2>3, CallCause, RefreshCause DEF TabNext
  <2> QED BY <2>1, <2>3 DEF Next
<1>3. [\A t \in Tabs : LoginHasCause(t)]_vars <=>
        [\A t \in Tabs :
           tab[t].page = "protected" /\ tab'[t].page = "login" =>
             \/ LogsOut(t)
             \/ refresh[t].pc = "unavailable"
             \/ ~tab[t].ready /\ refresh[t].pc # "refused"
             \/ /\ refresh[t].pc = "refused"
                /\ refresh[t].token = 0 \/ refresh[t].token \in over]_vars
  BY DEF LoginHasCause
<1> QED BY <1>1, <1>2, <1>3, RefusalsRight, SessionTypeCorrect, PTL
        DEF Spec, NoNeedlessLogin
=============================================================================
