---------------------------- MODULE ClientSession ----------------------------
(* The session of one user in the browser: the access token in the auth store *)
(* of each tab, the rotating refresh cookie that the tabs share, the 401      *)
(* interceptor of apiClient with its queue, AuthProvider's refresh at boot,   *)
(* login, logout, the guard of the studio pages, and the channel that useSSE  *)
(* keeps open with the token.  The service issues access token n together     *)
(* with refresh token n and accepts only the latest refresh token.            *)
EXTENDS Naturals, FiniteSets

CONSTANTS
    Tabs,       \* tabs of the browser
    Reqs,       \* REST requests that a tab has in flight at once
    MaxIssued,  \* bound on the tokens issued
    MaxSends    \* bound on the requests sent

ASSUME SessionAssumption == MaxIssued \in Nat \ {0} /\ MaxSends \in Nat /\ IsFiniteSet(Tabs) /\ IsFiniteSet(Reqs)

VARIABLES
    cookie,      \* the refresh token in the cookie jar, 0 for none
    latest,      \* current_refresh_jti
    issued,      \* tokens issued so far
    expired,     \* access tokens up to this one are expired
    store,       \* Tabs -> accessToken, 0 for null
    boot,        \* Tabs -> TRUE while AuthProvider waits for its refresh
    loading,     \* isLoading
    flights,     \* refresh requests of the tabs that are not settled
    asked,       \* refresh requests sent so far
    refreshing,  \* isRefreshing
    req,         \* Tabs -> Reqs -> a request and where it is
    login, out,  \* Tabs -> progress of a login and of a logout
    route,       \* Tabs -> the page
    conn,        \* Tabs -> the SSE connection of useSSE
    sends,       \* requests sent so far
    missing      \* tokens that the cookie jar will not hold again: the answer was
                 \* lost, or an older answer or a logout took their place

service == <<latest, issued, expired>>
tab == <<store, boot, loading, refreshing, req, login, out, route, conn>>
vars == <<cookie, missing, service, tab, flights, asked, sends>>

Token == 0..MaxIssued
Request == [st: {"settled", "sent", "unauthorized", "queued", "leader"}, tok: Token, retry: BOOLEAN]
\* Not sent yet, answered, or rejected.
Settled == [st |-> "settled", tok |-> 0, retry |-> FALSE]
Flight == [tab: Tabs, id: Nat, jti: Token, st: {"sent", "accepted", "ok", "no"}, n: Token, waited: BOOLEAN]
Connection == [st: {"connecting", "open"}, tok: Token]
Ask(t) == [tab |-> t, id |-> asked + 1, jti |-> cookie, st |-> "sent", n |-> 0, waited |-> TRUE]

\* Every tab has just been opened on a studio page, with or without a session.
Init ==
    /\ cookie \in {0, 1} /\ latest = 1 /\ issued = 1 /\ expired = 1
    /\ store = [t \in Tabs |-> 0]
    /\ boot = [t \in Tabs |-> TRUE] /\ loading = [t \in Tabs |-> TRUE]
    /\ asked = 0
    /\ flights = {[tab |-> t, id |-> 0, jti |-> cookie, st |-> "sent", n |-> 0, waited |-> TRUE] : t \in Tabs}
    /\ refreshing = [t \in Tabs |-> FALSE]
    /\ req = [t \in Tabs |-> [r \in Reqs |-> Settled]]
    /\ login = [t \in Tabs |-> 0] /\ out = [t \in Tabs |-> "none"]
    /\ route = [t \in Tabs |-> "studio"]
    /\ conn = [t \in Tabs |-> [st |-> "connecting", tok |-> 0]]
    /\ sends = 0 /\ missing = {1} \ {cookie}

-----------------------------------------------------------------------------
(* Refreshing. *)

\* inFlightRefresh: the refresh of the tab whose answer is still waited for.
Waiting(t) == {f \in flights : f.tab = t /\ f.waited}

\* Mutant: every caller sends its own refresh.
RefreshAccessToken_Each(t) == flights' = flights \cup {Ask(t)} /\ asked' = asked + 1

\* refreshAccessToken: a refresh that is in flight in this tab is shared.
RefreshAccessToken(t) ==
    IF Waiting(t) # {} THEN UNCHANGED <<flights, asked>>
                       ELSE flights' = flights \cup {Ask(t)} /\ asked' = asked + 1

\* POST /v1/auth/refresh reads the user: any token but the latest is refused.
CheckRefresh(f) ==
    /\ f.st = "sent"
    /\ flights' = (flights \ {f}) \cup
            IF f.jti # 0 /\ f.jti = latest THEN {[f EXCEPT !.st = "accepted"]}
            ELSE IF f.waited THEN {[f EXCEPT !.st = "no"]} ELSE {}
    /\ UNCHANGED <<cookie, missing, service, tab, asked, sends>>

\* Then it issues and records a new one, also when the tab has given up.
RotateRefresh(f) ==
    /\ f.st = "accepted" /\ issued < MaxIssued
    /\ latest' = issued + 1 /\ issued' = issued + 1
    /\ IF f.waited THEN flights' = (flights \ {f}) \cup {[f EXCEPT !.st = "ok", !.n = issued + 1]} /\ missing' = missing
                   ELSE flights' = flights \ {f} /\ missing' = missing \cup {issued + 1}
    /\ UNCHANGED <<cookie, expired, tab, asked, sends>>

\* The cookie of an answer; one that arrives after a newer one replaces it.
SetCookie(n) ==
    /\ cookie' = n
    /\ missing' = IF n < cookie THEN missing \cup {cookie} ELSE missing

Queued(t, r) == req[t][r].st \in {"queued", "leader"}

\* Mutant: the cookie of the answer is not kept.
DeliverRefresh_NoCookie(f) ==
    LET t == f.tab IN
    /\ f.st = "ok"
    /\ flights' = flights \ {f}
    /\ store' = [store EXCEPT ![t] = f.n]
    /\ boot' = [boot EXCEPT ![t] = FALSE]
    /\ loading' = [loading EXCEPT ![t] = IF boot[t] THEN FALSE ELSE @]
    /\ refreshing' = [refreshing EXCEPT ![t] = FALSE]
    /\ req' = [req EXCEPT ![t] = [r \in Reqs |->
                IF Queued(t, r) THEN [req[t][r] EXCEPT !.st = "sent", !.tok = f.n] ELSE req[t][r]]]
    /\ UNCHANGED <<cookie, missing, service, login, out, route, conn, asked, sends>>

\* The answer reaches AuthProvider and the interceptor, whichever waits: the
\* store takes the token and the queue is sent again with it.
DeliverRefresh(f) ==
    LET t == f.tab IN
    /\ f.st = "ok"
    /\ flights' = flights \ {f}
    /\ SetCookie(f.n)
    /\ store' = [store EXCEPT ![t] = f.n]
    /\ boot' = [boot EXCEPT ![t] = FALSE]
    /\ loading' = [loading EXCEPT ![t] = IF boot[t] THEN FALSE ELSE @]
    /\ refreshing' = [refreshing EXCEPT ![t] = FALSE]
    /\ req' = [req EXCEPT ![t] = [r \in Reqs |->
                IF Queued(t, r) THEN [req[t][r] EXCEPT !.st = "sent", !.tok = f.n] ELSE req[t][r]]]
    /\ UNCHANGED <<service, login, out, route, conn, asked, sends>>

\* Mutant: the queue is not rejected, only the leader.
RefreshFails_LeaderOnly(f) ==
    LET t == f.tab IN
    /\ f.waited
    /\ store' = [store EXCEPT ![t] = 0]
    /\ boot' = [boot EXCEPT ![t] = FALSE]
    /\ loading' = [loading EXCEPT ![t] = IF boot[t] THEN FALSE ELSE @]
    /\ refreshing' = [refreshing EXCEPT ![t] = FALSE]
    /\ req' = [req EXCEPT ![t] = [r \in Reqs |->
                IF req[t][r].st = "leader" THEN Settled ELSE req[t][r]]]
    /\ UNCHANGED <<cookie, service, login, out, route, conn, asked, sends>>

\* It is refused, or never arrives: whoever waits logs the tab out and the
\* queue is rejected.
RefreshFails(f) ==
    LET t == f.tab IN
    /\ f.waited
    /\ store' = [store EXCEPT ![t] = 0]
    /\ boot' = [boot EXCEPT ![t] = FALSE]
    /\ loading' = [loading EXCEPT ![t] = IF boot[t] THEN FALSE ELSE @]
    /\ refreshing' = [refreshing EXCEPT ![t] = FALSE]
    /\ req' = [req EXCEPT ![t] = [r \in Reqs |->
                IF Queued(t, r) THEN Settled ELSE req[t][r]]]
    /\ UNCHANGED <<cookie, service, login, out, route, conn, asked, sends>>

\* Eight seconds without an answer. The service does not notice: it still
\* answers what it has not answered yet.
Timeout(f) ==
    /\ f.st # "no" /\ RefreshFails(f)
    /\ IF f.st = "ok" THEN flights' = flights \ {f} /\ missing' = missing \cup {f.n}
       ELSE flights' = (flights \ {f}) \cup {[f EXCEPT !.waited = FALSE]} /\ missing' = missing

Refused(f) == f.st = "no" /\ RefreshFails(f) /\ flights' = flights \ {f} /\ missing' = missing

\* The safety timer of AuthProvider.
AuthInitTimeout(t) ==
    /\ boot[t] /\ loading[t]
    /\ loading' = [loading EXCEPT ![t] = FALSE]
    /\ UNCHANGED <<cookie, missing, service, store, boot, flights, asked, refreshing, req, login, out, route, conn, sends>>

-----------------------------------------------------------------------------
(* REST requests and the interceptor. *)

SetReq(t, r, q) == req' = [req EXCEPT ![t][r] = q]

\* A request with the token of the store, or without one.
Send(t, r) ==
    /\ req[t][r].st = "settled" /\ sends < MaxSends
    /\ sends' = sends + 1
    /\ SetReq(t, r, [st |-> "sent", tok |-> store[t], retry |-> FALSE])
    /\ UNCHANGED <<cookie, missing, service, store, boot, loading, flights, asked, refreshing, login, out, route, conn>>

Serve(t, r) ==
    /\ req[t][r].st = "sent"
    /\ SetReq(t, r, IF req[t][r].tok > expired THEN Settled ELSE [req[t][r] EXCEPT !.st = "unauthorized", !.tok = 0])
    /\ UNCHANGED <<cookie, missing, service, store, boot, loading, flights, asked, refreshing, login, out, route, conn, sends>>

\* A 401: once more after a refresh, of which this request is the leader or for
\* which it queues; a second 401 of a leader is final.
Unauthorized(t, r) ==
    LET q == req[t][r] IN
    /\ q.st = "unauthorized"
    /\ IF q.retry
       THEN SetReq(t, r, Settled) /\ UNCHANGED <<refreshing, flights, asked>>
       ELSE IF refreshing[t]
       THEN SetReq(t, r, [q EXCEPT !.st = "queued"]) /\ UNCHANGED <<refreshing, flights, asked>>
       ELSE /\ SetReq(t, r, [q EXCEPT !.st = "leader", !.retry = TRUE])
            /\ refreshing' = [refreshing EXCEPT ![t] = TRUE]
            /\ RefreshAccessToken(t)
    /\ UNCHANGED <<cookie, missing, service, store, boot, loading, login, out, route, conn, sends>>

\* Time passes; the last token, which could not be renewed, is left alone.
Expire ==
    /\ expired' \in expired + 1 .. issued /\ expired' < MaxIssued
    /\ UNCHANGED <<cookie, missing, latest, issued, tab, flights, asked, sends>>

-----------------------------------------------------------------------------
(* Login, logout and the guard. *)

\* The exchange of a Firebase token; the service issues both tokens.
Login(t) ==
    /\ route[t] = "login" /\ ~loading[t] /\ store[t] = 0 /\ login[t] = 0 /\ issued < MaxIssued
    /\ latest' = issued + 1 /\ issued' = issued + 1
    /\ login' = [login EXCEPT ![t] = issued + 1]
    /\ UNCHANGED <<cookie, missing, expired, store, boot, loading, flights, asked, refreshing, req, out, route, conn, sends>>

LoginAnswered(t) ==
    /\ login[t] # 0
    /\ login' = [login EXCEPT ![t] = 0]
    /\ SetCookie(login[t]) /\ store' = [store EXCEPT ![t] = login[t]]
    /\ UNCHANGED <<service, boot, loading, flights, asked, refreshing, req, out, route, conn, sends>>

LoginFails(t) ==
    /\ login[t] # 0
    /\ login' = [login EXCEPT ![t] = 0] /\ missing' = missing \cup {login[t]}
    /\ UNCHANGED <<cookie, service, store, boot, loading, flights, asked, refreshing, req, out, route, conn, sends>>

\* logout: the cookie is deleted by the answer, which may be lost; the service
\* keeps the token valid.
Logout(t) ==
    /\ store[t] # 0 /\ out[t] = "none"
    /\ out' = [out EXCEPT ![t] = "posted"]
    /\ UNCHANGED <<cookie, missing, service, store, boot, loading, flights, asked, refreshing, req, login, route, conn, sends>>

LogoutAnswered(t, lost) ==
    /\ out[t] = "posted"
    /\ IF lost THEN UNCHANGED <<cookie, missing>> ELSE SetCookie(0)
    /\ out' = [out EXCEPT ![t] = "signing out"]
    /\ UNCHANGED <<service, store, boot, loading, flights, asked, refreshing, req, login, route, conn, sends>>

StoreLogout(t) ==
    /\ out[t] = "signing out"
    /\ out' = [out EXCEPT ![t] = "done"]
    /\ store' = [store EXCEPT ![t] = 0]
    /\ UNCHANGED <<cookie, missing, service, boot, loading, flights, asked, refreshing, req, login, route, conn, sends>>

\* AuthGuard sends a visitor to the login page, LoginPage sends a user back.
Guard(t) ==
    /\ route[t] = "studio" /\ ~loading[t] /\ store[t] = 0
    /\ route' = [route EXCEPT ![t] = "login"]
    /\ UNCHANGED <<cookie, missing, service, store, boot, loading, flights, asked, refreshing, req, login, out, conn, sends>>

\* Mutant: only a login returns, not a token that arrives late.
ReturnToPage_AfterLogin(t) ==
    /\ route[t] = "login" /\ store[t] # 0 /\ out[t] # "none"
    /\ route' = [route EXCEPT ![t] = "studio"]
    /\ out' = [out EXCEPT ![t] = "none"]
    /\ UNCHANGED <<cookie, missing, service, store, boot, loading, flights, asked, refreshing, req, login, conn, sends>>

ReturnToPage(t) ==
    /\ route[t] = "login" /\ store[t] # 0
    /\ route' = [route EXCEPT ![t] = "studio"]
    /\ out' = [out EXCEPT ![t] = "none"]
    /\ UNCHANGED <<cookie, missing, service, store, boot, loading, flights, asked, refreshing, req, login, conn, sends>>

-----------------------------------------------------------------------------
(* useSSE over createGetSSEConnection. *)

SetConn(t, c) ==
    /\ conn' = [conn EXCEPT ![t] = c]
    /\ UNCHANGED <<cookie, missing, service, store, boot, loading, flights, asked, refreshing, req, login, out, route, sends>>

\* The service accepts the connection, or refuses it; a refused or dropped one
\* is tried again with the same token after a delay.
Connected(t) ==
    /\ conn[t].st = "connecting" /\ conn[t].tok > expired
    /\ SetConn(t, [conn[t] EXCEPT !.st = "open"])

Dropped(t) == conn[t].st = "open" /\ SetConn(t, [conn[t] EXCEPT !.st = "connecting"])

\* The effect depends on the token: the old connection and its timer are
\* dropped for one with the new token.
TokenChanged(t) ==
    /\ conn[t].tok # store[t]
    /\ SetConn(t, [st |-> "connecting", tok |-> store[t]])

-----------------------------------------------------------------------------
RefreshStep ==
    \E f \in flights : CheckRefresh(f) \/ RotateRefresh(f) \/ DeliverRefresh(f) \/ Refused(f) \/ Timeout(f)

RequestStep(t, r) == Serve(t, r) \/ Unauthorized(t, r)

TabStep(t) ==
    \/ AuthInitTimeout(t) \/ Login(t) \/ LoginAnswered(t) \/ LoginFails(t)
    \/ Logout(t) \/ StoreLogout(t) \/ (\E lost \in BOOLEAN : LogoutAnswered(t, lost))
    \/ Guard(t) \/ ReturnToPage(t)
    \/ Connected(t) \/ Dropped(t) \/ TokenChanged(t)
    \/ \E r \in Reqs : Send(t, r) \/ RequestStep(t, r)

Next == RefreshStep \/ Expire \/ \E t \in Tabs : TabStep(t)

\* Answers arrive or time out, timers fire, effects run.
Fairness ==
    /\ \A t \in Tabs : /\ WF_vars(\E f \in Waiting(t) : DeliverRefresh(f) \/ Refused(f) \/ Timeout(f))
                       /\ \A r \in Reqs : WF_vars(RequestStep(t, r))
                       /\ WF_vars(AuthInitTimeout(t)) /\ WF_vars(Guard(t)) /\ WF_vars(ReturnToPage(t))
                       /\ WF_vars(TokenChanged(t)) /\ WF_vars(Connected(t))

Spec == Init /\ [][Next]_vars /\ Fairness

-----------------------------------------------------------------------------
(* Every variable keeps its type. *)
TypeOK ==
    /\ cookie \in Token /\ latest \in Token /\ issued \in Token /\ expired \in Token
    /\ store \in [Tabs -> Token] /\ boot \in [Tabs -> BOOLEAN] /\ loading \in [Tabs -> BOOLEAN]
    /\ flights \in SUBSET Flight /\ refreshing \in [Tabs -> BOOLEAN]
    /\ req \in [Tabs -> [Reqs -> Request]]
    /\ login \in [Tabs -> Token] /\ out \in [Tabs -> {"none", "posted", "signing out", "done"}]
    /\ route \in [Tabs -> {"studio", "login"}] /\ conn \in [Tabs -> Connection]
    /\ asked \in Nat /\ sends \in 0..MaxSends /\ missing \subseteq Token

\* "Single-flighting collapses any concurrent callers within this tab onto one
\* request": the boot refresh and the interceptor never have two under way.
SingleFlight == \A t \in Tabs : \A f, g \in Waiting(t) : f = g

\* No request is forgotten in the queue: while one waits for a refresh there is
\* a leader, the flag is up and a refresh is under way that will settle it.
QueueHasRefresh ==
    \A t \in Tabs :
        /\ (\E r \in Reqs : Queued(t, r)) => refreshing[t]
        /\ refreshing[t] => Waiting(t) # {} /\ \E r \in Reqs : req[t][r].st = "leader"
        /\ boot[t] => Waiting(t) # {}

\* The invariant of refreshing, with the types.
RefreshIsShared == TypeOK /\ SingleFlight /\ QueueHasRefresh

\* Rotation never locks the user out by itself, whatever refreshes, logins and
\* tabs overlap: with no answer under way, the cookie is the token that the
\* service accepts, exactly unless that token's answer was lost (the tab had
\* given up, or the network failed) or an older answer or a logout replaced it.
CookieIsLatest ==
    (\A f \in flights : f.st # "ok") /\ (\A t \in Tabs : login[t] = 0)
        => (cookie = latest <=> latest \notin missing)

\* Every request is settled: retried and answered, or rejected.
RequestsSettle ==
    \A t \in Tabs, r \in Reqs : req[t][r].st # "settled" ~> req[t][r].st = "settled"

\* A tab that has a session ends on the page that was asked for, also when its
\* refresh took longer than the safety timer and the guard sent it to the login
\* page, and the channel is opened with the token.
SessionIsUsed ==
    \A t \in Tabs :
        store[t] # 0 ~> (store[t] = 0 \/ (route[t] = "studio" /\ conn[t].tok = store[t]))

\* "A network error here shouldn't trap the user in a logged-in UI state":
\* after a logout the tab has no session until the next login.
LogoutSticks == [][\A t \in Tabs : out[t] = "done" /\ store[t] = 0 /\ store'[t] # 0 => login[t] # 0]_vars

\* A login is not undone by the failure of an older refresh.
LoginSticks == [][\A t \in Tabs : store[t] # 0 /\ store'[t] = 0 => out[t] # "none" \/ store[t] <= expired]_vars
=============================================================================
