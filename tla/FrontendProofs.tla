--------------------------- MODULE FrontendProofs ---------------------------
(* Three parts of the frontend that share nothing but the browser they run   *)
(* in. ClientSession, for every number of tabs and requests: a refresh is    *)
(* shared and whoever waits for one has one under way, and rotation alone    *)
(* never leaves the browser with a cookie that the service refuses.          *)
(* Soundtrack, for any stories, moods and configured tracks: the functions   *)
(* of AmbientSoundtrackController keep its channels in order whatever is     *)
(* called next, and an encounter follows the mute of the player.             *)
(* StudioMaster, for any reply of the assistant and any number of messages,  *)
(* applications and failures: the chat accounts for every supported card it  *)
(* shows as applied, and keeps what was said; the editor follows the scenario. *)
EXTENDS ClientSession, Soundtrack, StudioMaster, FiniteSetTheorems, WellFoundedInduction, TLAPS

-----------------------------------------------------------------------------
(* The session.                                                              *)


(* The answer that brings the latest token. *)
Brings(f) == f.st = "ok" /\ f.n = latest
UnderWay == (\E f \in flights : Brings(f)) \/ \E t \in Tabs : login[t] = latest

(* The latest token is in one place: on its way in one answer, in the cookie *)
(* jar, or missing.  No other place knows a token that is not issued yet.     *)
OnePlace ==
    /\ \A f, g \in flights : Brings(f) /\ Brings(g) => f = g
    /\ \A t, u \in Tabs : login[t] = latest /\ login[u] = latest => t = u
    /\ \A f \in flights, t \in Tabs : Brings(f) => login[t] # latest
    /\ UnderWay => cookie # latest /\ latest \notin missing
    /\ ~UnderWay => (cookie = latest <=> latest \notin missing)

Past ==
    /\ latest = issued /\ issued # 0 /\ cookie <= issued
    /\ \A f \in flights : f.n <= issued
    /\ \A t \in Tabs : login[t] <= issued
    /\ \A n \in missing : n <= issued

Rotation == Past /\ OnePlace

-----------------------------------------------------------------------------
(* RefreshIsShared is inductive. *)

LEMMA Tokens ==
  /\ 0 \in Token /\ 1 \in Token
  /\ \A n \in Token : n < MaxIssued => n + 1 \in Token
BY SessionAssumption DEF Token

LEMMA SettledTyped == Settled \in Request /\ Settled.st = "settled"
BY Tokens DEF Settled, Request

LEMMA InitShared == Init => RefreshIsShared
<1> SUFFICES ASSUME Init PROVE RefreshIsShared
  OBVIOUS
<1>1. TypeOK
  <2>1. cookie \in Token /\ latest \in Token /\ issued \in Token /\ expired \in Token /\ sends \in 0..MaxSends
      /\ missing \subseteq Token /\ asked \in Nat
    BY SessionAssumption DEF Init, Token
  <2>2. flights \in SUBSET Flight
    <3>1. \A t \in Tabs : [tab |-> t, id |-> 0, jti |-> cookie, st |-> "sent", n |-> 0, waited |-> TRUE] \in Flight
      BY <2>1, Tokens, 0 \in Nat, Zenon DEF Flight
    <3>2. QED
      BY <3>1 DEF Init
  <2>3. req \in [Tabs -> [Reqs -> Request]] /\ conn \in [Tabs -> Connection]
    BY SessionAssumption DEF Init, Settled, Request, Connection, Token
  <2>4. /\ store \in [Tabs -> Token] /\ boot \in [Tabs -> BOOLEAN] /\ loading \in [Tabs -> BOOLEAN]
        /\ refreshing \in [Tabs -> BOOLEAN] /\ login \in [Tabs -> Token]
        /\ out \in [Tabs -> {"none", "posted", "signing out", "done"}] /\ route \in [Tabs -> {"studio", "login"}]
    BY SessionAssumption DEF Init, Token
  <2>5. QED
    BY <2>1, <2>2, <2>3, <2>4 DEF TypeOK
<1>2. SingleFlight
  <2> SUFFICES ASSUME NEW t \in Tabs, NEW f \in Waiting(t), NEW g \in Waiting(t) PROVE f = g
    BY DEF SingleFlight
  <2> DEFINE first == [tab |-> t, id |-> 0, jti |-> cookie, st |-> "sent", n |-> 0, waited |-> TRUE]
  <2>1. \A u \in Tabs : [tab |-> u, id |-> 0, jti |-> cookie, st |-> "sent", n |-> 0, waited |-> TRUE].tab = u
    OBVIOUS
  <2>2. f = first /\ g = first
    BY <2>1, Zenon DEF Init, Waiting
  <2>3. QED
    BY <2>2
<1>3. QueueHasRefresh
  <2> SUFFICES ASSUME NEW t \in Tabs
               PROVE  /\ \A r \in Reqs : ~Queued(t, r)
                      /\ ~refreshing[t] /\ Waiting(t) # {}
    BY DEF QueueHasRefresh
  <2>1. \A r \in Reqs : ~Queued(t, r)
    BY DEF Init, Queued, Settled
  <2>2. ~refreshing[t]
    BY DEF Init
  <2>3. [tab |-> t, id |-> 0, jti |-> cookie, st |-> "sent", n |-> 0, waited |-> TRUE] \in Waiting(t)
    BY DEF Init, Waiting
  <2>4. QED
    BY <2>1, <2>2, <2>3
<1>4. QED
  BY <1>1, <1>2, <1>3 DEF RefreshIsShared

LEMMA CheckRefreshShared ==
  ASSUME RefreshIsShared, NEW f \in flights, CheckRefresh(f)
  PROVE  RefreshIsShared'
<1> USE DEF RefreshIsShared
<1>1. f \in Flight
  BY DEF TypeOK
<1>2. PICK G \in SUBSET Flight : /\ flights' = (flights \ {f}) \cup G
                                 /\ \A g \in G : g.tab = f.tab /\ g.waited = f.waited
                                 /\ \A g, h \in G : g = h
                                 /\ f.waited => G # {}
  <2> DEFINE a == [f EXCEPT !.st = "accepted"]
             b == [f EXCEPT !.st = "no"]
  <2>1. a \in Flight /\ b \in Flight /\ a.tab = f.tab /\ b.tab = f.tab /\ a.waited = f.waited /\ b.waited = f.waited
    BY <1>1 DEF Flight
  <2>2. \/ flights' = (flights \ {f}) \cup {a}
        \/ flights' = (flights \ {f}) \cup {b}
        \/ ~f.waited /\ flights' = (flights \ {f}) \cup {}
    BY DEF CheckRefresh
  <2> HIDE DEF a, b
  <2>3. CASE flights' = (flights \ {f}) \cup {a}
    BY <2>1, <2>3
  <2>4. CASE flights' = (flights \ {f}) \cup {b}
    BY <2>1, <2>4
  <2>5. CASE ~f.waited /\ flights' = (flights \ {f}) \cup {}
    <3>1. {} \in SUBSET Flight
      OBVIOUS
    <3>2. QED
      BY <2>5, <3>1, Zenon
  <2>6. QED
    BY <2>2, <2>3, <2>4, <2>5
<1>3. UNCHANGED <<cookie, missing, service, tab, asked, sends>>
  BY DEF CheckRefresh
<1>4. TypeOK'
  BY <1>2, <1>3 DEF TypeOK, service, tab
<1>5. SingleFlight'
  BY <1>2 DEF SingleFlight, Waiting
<1>6. \A t \in Tabs : Waiting(t) # {} => Waiting(t)' # {}
  BY <1>2 DEF Waiting
<1>7. QueueHasRefresh'
  BY <1>3, <1>6 DEF QueueHasRefresh, Queued, tab
<1>8. QED
  BY <1>4, <1>5, <1>7

LEMMA RotateRefreshShared ==
  ASSUME RefreshIsShared, NEW f \in flights, RotateRefresh(f)
  PROVE  RefreshIsShared'
<1> USE DEF RefreshIsShared
<1>1. f \in Flight /\ issued + 1 \in Token
  BY Tokens DEF TypeOK, RotateRefresh
<1>2. PICK G \in SUBSET Flight : /\ flights' = (flights \ {f}) \cup G
                                 /\ \A g \in G : g.tab = f.tab /\ g.waited = f.waited
                                 /\ \A g, h \in G : g = h
                                 /\ f.waited => G # {}
  <2> DEFINE a == [f EXCEPT !.st = "ok", !.n = issued + 1]
  <2>1. a \in Flight /\ a.tab = f.tab /\ a.waited = f.waited
    BY <1>1 DEF Flight
  <2>2. \/ flights' = (flights \ {f}) \cup {a}
        \/ ~f.waited /\ flights' = (flights \ {f}) \cup {}
    BY DEF RotateRefresh
  <2> HIDE DEF a
  <2>3. CASE flights' = (flights \ {f}) \cup {a}
    BY <2>1, <2>3
  <2>4. CASE ~f.waited /\ flights' = (flights \ {f}) \cup {}
    <3>1. {} \in SUBSET Flight
      OBVIOUS
    <3>2. QED
      BY <2>4, <3>1, Zenon
  <2>5. QED
    BY <2>2, <2>3, <2>4
<1>3. UNCHANGED <<cookie, expired, tab, asked, sends>> /\ latest' = issued + 1 /\ issued' = issued + 1
  BY DEF RotateRefresh
<1>4. missing' \subseteq Token
  BY <1>1 DEF RotateRefresh, TypeOK
<1>5. TypeOK'
  BY <1>1, <1>2, <1>3, <1>4 DEF TypeOK, tab
<1>6. SingleFlight'
  BY <1>2 DEF SingleFlight, Waiting
<1>7. \A t \in Tabs : Waiting(t) # {} => Waiting(t)' # {}
  BY <1>2 DEF Waiting
<1>8. QueueHasRefresh'
  BY <1>3, <1>7 DEF QueueHasRefresh, Queued, tab
<1>9. QED
  BY <1>5, <1>6, <1>8

(* The answer to f, good or bad, settles whoever waits in its tab. *)
LEMMA AnswerShared ==
  ASSUME RefreshIsShared, NEW f \in flights, DeliverRefresh(f) \/ Timeout(f) \/ Refused(f)
  PROVE  RefreshIsShared'
<1> USE DEF RefreshIsShared
<1>1. f \in Flight /\ (DeliverRefresh(f) \/ RefreshFails(f))
  BY DEF TypeOK, Timeout, Refused
<1>1a. PICK G \in SUBSET Flight : flights' = (flights \ {f}) \cup G /\ \A g \in G : g.tab = f.tab /\ ~g.waited
  <2> DEFINE a == [f EXCEPT !.waited = FALSE]
  <2>1. a \in Flight /\ a.tab = f.tab /\ ~a.waited
    BY <1>1 DEF Flight
  <2>2. flights' = (flights \ {f}) \cup {a} \/ flights' = (flights \ {f}) \cup {}
    BY DEF DeliverRefresh, Timeout, Refused
  <2> HIDE DEF a
  <2>3. CASE flights' = (flights \ {f}) \cup {a}
    <3>1. {a} \in SUBSET Flight /\ \A g \in {a} : g.tab = f.tab /\ ~g.waited
      BY <2>1, Zenon
    <3>2. QED
      BY <2>3, <3>1, Zenon
  <2>4. CASE flights' = (flights \ {f}) \cup {}
    <3>1. {} \in SUBSET Flight /\ \A g \in {} : g.tab = f.tab /\ ~g.waited
      OBVIOUS
    <3>2. QED
      BY <2>4, <3>1, Zenon
  <2>5. QED
    BY <2>2, <2>3, <2>4
<1>2. req' \in [Tabs -> [Reqs -> Request]]
  <2>1. \A r \in Reqs : [req[f.tab][r] EXCEPT !.st = "sent", !.tok = f.n] \in Request
    <3> SUFFICES ASSUME NEW r \in Reqs PROVE [req[f.tab][r] EXCEPT !.st = "sent", !.tok = f.n] \in Request
      OBVIOUS
    <3>1. req[f.tab][r] \in Request /\ f.n \in Token
      BY <1>1 DEF TypeOK, Flight
    <3>2. QED
      BY <3>1 DEF Request
  <2>2. CASE DeliverRefresh(f)
    BY <1>1, <2>1, <2>2 DEF DeliverRefresh, TypeOK, Flight
  <2>3. CASE RefreshFails(f)
    <3> DEFINE new(r) == IF Queued(f.tab, r) THEN Settled ELSE req[f.tab][r]
    <3>1. \A r \in Reqs : new(r) \in Request
      BY <1>1, SettledTyped DEF TypeOK, Flight
    <3>2. req' = [req EXCEPT ![f.tab] = [r \in Reqs |-> new(r)]]
      BY <2>3 DEF RefreshFails
    <3> HIDE DEF new
    <3>3. [r \in Reqs |-> new(r)] \in [Reqs -> Request]
      BY <3>1
    <3>4. QED
      BY <3>2, <3>3 DEF TypeOK
  <2>4. QED
    BY <1>1, <2>2, <2>3
<1>3. /\ boot' \in [Tabs -> BOOLEAN] /\ loading' \in [Tabs -> BOOLEAN] /\ refreshing' \in [Tabs -> BOOLEAN]
  <2>1. CASE DeliverRefresh(f)
    BY <1>1, <2>1, Zenon DEF DeliverRefresh, TypeOK
  <2>2. CASE RefreshFails(f)
    BY <1>1, <2>2, Zenon DEF RefreshFails, TypeOK
  <2>3. QED
    BY <1>1, <2>1, <2>2
<1>4. TypeOK'
  <2>1. cookie' \in Token /\ store' \in [Tabs -> Token] /\ missing' \subseteq Token
    <3>1. f.tab \in Tabs /\ f.n \in Token
      BY <1>1 DEF Flight
    <3>2. CASE DeliverRefresh(f)
      BY <3>1, <3>2 DEF DeliverRefresh, SetCookie, TypeOK
    <3>3. CASE RefreshFails(f)
      <4>1. missing' \subseteq Token
        <5>1. missing \subseteq Token /\ cookie \in Token
          BY DEF TypeOK
        <5>2. missing' \in {missing, missing \cup {f.n}, missing \cup {cookie}}
          BY DEF Timeout, Refused, DeliverRefresh, SetCookie
        <5>3. QED
          BY <3>1, <5>1, <5>2
      <4>2. cookie' = cookie /\ store' = [store EXCEPT ![f.tab] = 0]
        BY <3>3 DEF RefreshFails
      <4>3. QED
        BY <3>1, <4>1, <4>2, Tokens DEF TypeOK
    <3>4. QED
      BY <1>1, <3>2, <3>3
  <2>2. UNCHANGED <<service, login, out, route, conn, asked, sends>>
    BY <1>1 DEF DeliverRefresh, RefreshFails
  <2>3. flights' \in SUBSET Flight
    BY <1>1a DEF TypeOK
  <2>4. QED
    BY <1>2, <1>3, <2>1, <2>2, <2>3 DEF TypeOK, service
<1>5. SingleFlight'
  BY <1>1a DEF SingleFlight, Waiting
<1>6. \A t \in Tabs : t # f.tab => Waiting(t)' = Waiting(t)
  BY <1>1a DEF Waiting
<1>7. \A r \in Reqs : req'[f.tab][r].st \notin {"queued", "leader"}
  <2>1. \A r \in Reqs : req[f.tab][r] \in Request
    BY <1>1 DEF TypeOK, Flight
  <2>2. CASE DeliverRefresh(f)
    BY <1>1, <2>1, <2>2 DEF DeliverRefresh, TypeOK, Flight, Request, Queued
  <2>3. CASE RefreshFails(f)
    BY <1>1, <2>1, <2>3 DEF RefreshFails, TypeOK, Flight, Request, Queued, Settled
  <2>4. QED
    BY <1>1, <2>2, <2>3
<1>8. /\ ~refreshing'[f.tab] /\ ~boot'[f.tab]
      /\ \A t \in Tabs : t # f.tab => refreshing'[t] = refreshing[t] /\ boot'[t] = boot[t] /\ req'[t] = req[t]
  BY <1>1 DEF DeliverRefresh, RefreshFails, TypeOK, Flight
<1>9. QueueHasRefresh'
  BY <1>6, <1>7, <1>8 DEF QueueHasRefresh, Queued
<1>10. QED
  BY <1>4, <1>5, <1>9

LEMMA SendShared ==
  ASSUME RefreshIsShared, NEW t \in Tabs, NEW r \in Reqs, Send(t, r) \/ Serve(t, r)
  PROVE  RefreshIsShared'
<1> USE DEF RefreshIsShared
<1>1. PICK q \in Request : /\ q.st \notin {"queued", "leader"} /\ req' = [req EXCEPT ![t][r] = q]
  <2>1. CASE Send(t, r)
    <3>1. [st |-> "sent", tok |-> store[t], retry |-> FALSE] \in Request
      BY DEF TypeOK, Request
    <3>2. QED
      BY <2>1, <3>1 DEF Send, SetReq
  <2>2. CASE Serve(t, r)
    <3>1. [req[t][r] EXCEPT !.st = "unauthorized", !.tok = 0] \in Request
      <4>1. req[t][r] \in Request
        BY DEF TypeOK
      <4>2. QED
        BY <4>1, Tokens DEF Request
    <3>2. QED
      BY <2>2, <3>1, SettledTyped DEF Serve, SetReq, Request
  <2>3. QED
    BY <2>1, <2>2
<1>2. req[t][r].st \notin {"queued", "leader"}
  BY DEF Send, Serve
<1>3. /\ UNCHANGED <<cookie, missing, service, store, boot, loading, flights, asked, refreshing, login, out, route, conn>>
      /\ sends' \in 0..MaxSends
  <2>1. CASE Send(t, r)
    <3>1. sends \in 0..MaxSends
      BY DEF TypeOK
    <3>2. QED
      BY <2>1, <3>1, SessionAssumption DEF Send
  <2>2. CASE Serve(t, r)
    BY <2>2 DEF Serve, TypeOK
  <2>3. QED
    BY <2>1, <2>2
<1>4. TypeOK'
  BY <1>1, <1>3 DEF TypeOK, service
<1>5. \A u \in Tabs, v \in Reqs : /\ req'[u][v].st \in {"queued", "leader"} <=> req[u][v].st \in {"queued", "leader"}
                                  /\ req'[u][v].st = "leader" <=> req[u][v].st = "leader"
  BY <1>1, <1>2 DEF TypeOK
<1>6. SingleFlight' /\ QueueHasRefresh'
  BY <1>3, <1>5 DEF SingleFlight, QueueHasRefresh, Queued, Waiting
<1>7. QED
  BY <1>4, <1>6

LEMMA UnauthorizedShared ==
  ASSUME RefreshIsShared, NEW t \in Tabs, NEW r \in Reqs, Unauthorized(t, r)
  PROVE  RefreshIsShared'
<1> USE DEF RefreshIsShared
<1>1. req[t][r] \in Request /\ req[t][r].st = "unauthorized"
  BY DEF TypeOK, Unauthorized
<1>2. UNCHANGED <<cookie, missing, service, store, boot, loading, login, out, route, conn, sends>>
  BY DEF Unauthorized
<1>3. CASE req[t][r].retry \/ refreshing[t]
  <2>1. PICK q \in Request : /\ req' = [req EXCEPT ![t][r] = q]
                             /\ q.st \in {"settled", "queued"}
                             /\ q.st = "queued" => refreshing[t]
    <3> DEFINE w == [req[t][r] EXCEPT !.st = "queued"]
    <3>1. w \in Request /\ w.st = "queued"
      BY <1>1 DEF Request
    <3>2. \/ req' = [req EXCEPT ![t][r] = Settled]
          \/ refreshing[t] /\ req' = [req EXCEPT ![t][r] = w]
      BY <1>3 DEF Unauthorized, SetReq
    <3> HIDE DEF w
    <3>3. QED
      BY <3>1, <3>2, SettledTyped
  <2>2. UNCHANGED <<refreshing, flights, asked>>
    BY <1>3 DEF Unauthorized
  <2>4. TypeOK'
    BY <1>2, <2>1, <2>2 DEF TypeOK, service
  <2>5. req'[t][r] = q /\ \A u \in Tabs, v \in Reqs : <<u, v>> # <<t, r>> => req'[u][v] = req[u][v]
    BY <1>1, <2>1 DEF TypeOK
  <2>6. QueueHasRefresh'
    BY <1>1, <1>2, <2>1, <2>2, <2>5 DEF QueueHasRefresh, Queued, Waiting
  <2>7. QED
    BY <2>2, <2>4, <2>6 DEF SingleFlight, Waiting
<1>4. CASE ~req[t][r].retry /\ ~refreshing[t]
  <2> DEFINE q == [req[t][r] EXCEPT !.st = "leader", !.retry = TRUE]
  <2>1. /\ req' = [req EXCEPT ![t][r] = q]
        /\ refreshing' = [refreshing EXCEPT ![t] = TRUE]
        /\ RefreshAccessToken(t)
    BY <1>4 DEF Unauthorized, SetReq
  <2>2. q \in Request /\ q.st = "leader"
    BY <1>1 DEF Request
  <2> HIDE DEF q
  <2>3. Ask(t) \in Flight /\ Ask(t).tab = t /\ Ask(t).waited
    <3>1. asked + 1 \in Nat /\ cookie \in Token /\ 0 \in Token
      <4>1. asked \in Nat /\ cookie \in Token
        BY DEF TypeOK
      <4>2. QED
        BY <4>1, Tokens
    <3>2. Ask(t) \in Flight
      BY <3>1, Zenon DEF Ask, Flight
    <3>3. Ask(t).tab = t /\ Ask(t).waited
      BY Zenon DEF Ask
    <3>4. QED
      BY <3>2, <3>3
  <2>4. refreshing' \in [Tabs -> BOOLEAN]
    BY <2>1, Zenon DEF TypeOK
  <2>5. TypeOK'
    <3>1. flights' \in SUBSET Flight /\ asked' \in Nat
      <4>1. asked \in Nat /\ flights \in SUBSET Flight
        BY DEF TypeOK
      <4>2. \/ flights' = flights /\ asked' = asked
            \/ flights' = flights \cup {Ask(t)} /\ asked' = asked + 1
        BY <2>1 DEF RefreshAccessToken
      <4>3. QED
        BY <2>3, <4>1, <4>2
    <3>2. req' \in [Tabs -> [Reqs -> Request]]
      BY <2>1, <2>2 DEF TypeOK
    <3>3. QED
      BY <1>2, <2>4, <3>1, <3>2 DEF TypeOK, service
  <2>6. SingleFlight'
    BY <2>1, <2>3 DEF SingleFlight, RefreshAccessToken, Waiting
  <2>7. Waiting(t)' # {} /\ \A u \in Tabs : Waiting(u) # {} => Waiting(u)' # {}
    BY <2>1, <2>3 DEF RefreshAccessToken, Waiting
  <2>8. req'[t][r].st = "leader" /\ \A u \in Tabs \ {t} : req'[u] = req[u] /\ refreshing'[u] = refreshing[u]
    BY <2>1, <2>2 DEF TypeOK
  <2>9. refreshing'[t]
    BY <2>1 DEF TypeOK
  <2>10. QueueHasRefresh'
    BY <1>2, <2>7, <2>8, <2>9 DEF QueueHasRefresh, Queued
  <2>11. QED
    BY <2>5, <2>6, <2>10
<1>5. QED
  BY <1>3, <1>4

(* No other action touches a refresh, a request or the flags that wait. *)
Elsewhere(t) ==
    \/ AuthInitTimeout(t) \/ Login(t) \/ LoginAnswered(t) \/ LoginFails(t)
    \/ Logout(t) \/ StoreLogout(t) \/ (\E lost \in BOOLEAN : LogoutAnswered(t, lost))
    \/ Guard(t) \/ ReturnToPage(t)
    \/ Connected(t) \/ Dropped(t) \/ TokenChanged(t)

LEMMA ElsewhereShared ==
  ASSUME RefreshIsShared, Expire \/ \E t \in Tabs : Elsewhere(t)
  PROVE  RefreshIsShared'
<1> USE DEF RefreshIsShared
<1>1. UNCHANGED <<flights, asked, refreshing, req, boot, sends>>
  BY DEF Expire, Elsewhere, AuthInitTimeout, Login, LoginAnswered, LoginFails, Logout, StoreLogout, LogoutAnswered,
         Guard, ReturnToPage, Connected, Dropped, TokenChanged, SetConn, tab
<1>2. SingleFlight' /\ QueueHasRefresh'
  BY <1>1 DEF SingleFlight, QueueHasRefresh, Queued, Waiting
<1>3. CASE Expire
  <2>1. expired' \in Token
    <3>1. issued \in Token /\ expired \in Token
      BY DEF TypeOK
    <3>2. QED
      <4>1. expired' \in expired + 1 .. issued
        BY <1>3 DEF Expire
      <4>2. issued \in 0..MaxIssued /\ expired \in 0..MaxIssued
        BY <3>1 DEF Token
      <4>3. QED
        BY <4>1, <4>2, SessionAssumption DEF Token
  <2>2. QED
    <3>1. UNCHANGED <<cookie, missing, latest, issued, tab, flights, asked, sends>>
      BY <1>3 DEF Expire
    <3>2. QED
      BY <1>2, <2>1, <3>1 DEF TypeOK, tab
<1>4. ASSUME NEW t \in Tabs, Elsewhere(t) PROVE TypeOK'
  <2>1. CASE AuthInitTimeout(t)
    BY <2>1, Zenon DEF AuthInitTimeout, TypeOK, service
  <2>2. CASE Login(t)
    <3>1. issued + 1 \in Token
      BY <2>2, Tokens DEF Login, TypeOK
    <3>2. QED
      BY <2>2, <3>1 DEF Login, TypeOK
  <2>3. CASE LoginAnswered(t) \/ LoginFails(t)
    <3>1. login[t] \in Token
      BY DEF TypeOK
    <3>2. CASE LoginAnswered(t)
      BY <3>1, <3>2, Tokens DEF LoginAnswered, SetCookie, TypeOK, service
    <3>3. CASE LoginFails(t)
      BY <3>1, <3>3, Tokens DEF LoginFails, TypeOK, service
    <3>4. QED
      BY <2>3, <3>2, <3>3
  <2>4. CASE Logout(t) \/ StoreLogout(t) \/ \E lost \in BOOLEAN : LogoutAnswered(t, lost)
    <3>1. CASE Logout(t)
      BY <3>1 DEF Logout, TypeOK, service
    <3>2. CASE StoreLogout(t)
      BY <3>2, Tokens DEF StoreLogout, TypeOK, service
    <3>3. CASE \E lost \in BOOLEAN : LogoutAnswered(t, lost)
      <4>1. cookie' \in Token /\ missing' \subseteq Token
        <5>1. missing \subseteq Token /\ cookie \in Token
          BY DEF TypeOK
        <5>2. cookie' \in {cookie, 0} /\ missing' \in {missing, missing \cup {cookie}}
          BY <3>3 DEF LogoutAnswered, SetCookie
        <5>3. QED
          BY <5>1, <5>2, Tokens
      <4>2. /\ out' = [out EXCEPT ![t] = "signing out"]
            /\ UNCHANGED <<service, store, boot, loading, flights, asked, refreshing, req, login, route, conn, sends>>
        BY <3>3 DEF LogoutAnswered
      <4>3. QED
        BY <4>1, <4>2 DEF TypeOK, service
    <3>4. QED
      BY <2>4, <3>1, <3>2, <3>3
  <2>5. CASE Guard(t) \/ ReturnToPage(t)
    BY <2>5 DEF Guard, ReturnToPage, TypeOK, service
  <2>6. CASE Connected(t) \/ Dropped(t) \/ TokenChanged(t)
    <3>1. PICK c \in Connection : SetConn(t, c)
      <4>1. /\ conn[t] \in Connection /\ [st |-> "connecting", tok |-> store[t]] \in Connection
            /\ [conn[t] EXCEPT !.st = "open"] \in Connection
            /\ [conn[t] EXCEPT !.st = "connecting"] \in Connection
        BY DEF TypeOK, Connection
      <4>2. QED
        BY <2>6, <4>1 DEF Connected, Dropped, TokenChanged
    <3>2. QED
      BY <3>1 DEF SetConn, TypeOK, service
  <2>7. QED
    BY <1>4, <2>1, <2>2, <2>3, <2>4, <2>5, <2>6 DEF Elsewhere
<1>5. QED
  BY <1>2, <1>3, <1>4

LEMMA StepShared == RefreshIsShared /\ [Next]_vars => RefreshIsShared'
<1> SUFFICES ASSUME RefreshIsShared, [Next]_vars PROVE RefreshIsShared'
  OBVIOUS
<1>1. CASE RefreshStep
  BY <1>1, CheckRefreshShared, RotateRefreshShared, AnswerShared DEF RefreshStep
<1>2. CASE \E t \in Tabs : \E r \in Reqs : Send(t, r) \/ RequestStep(t, r)
  BY <1>2, SendShared, UnauthorizedShared DEF RequestStep
<1>3. CASE Expire \/ \E t \in Tabs : Elsewhere(t)
  BY <1>3, ElsewhereShared
<1>4. CASE UNCHANGED vars
  BY <1>4 DEF RefreshIsShared, TypeOK, SingleFlight, QueueHasRefresh, Queued, Waiting, vars, service, tab
<1>5. QED
  BY <1>1, <1>2, <1>3, <1>4 DEF Next, TabStep, Elsewhere

(* "Single-flighting collapses any concurrent callers within this tab onto one *)
(* request", and no caller of refreshAccessToken or request of the queue waits *)
(* without one (authSession.ts, api-client.ts), for any number of tabs.        *)
THEOREM SharedRefreshes == Spec => []RefreshIsShared
<1>1. QED
  BY InitShared, StepShared, PTL DEF Spec

-----------------------------------------------------------------------------
(* Rotation. *)

LEMMA InitRotation == Init => Rotation
<1> SUFFICES ASSUME Init PROVE Rotation
  OBVIOUS
<1>1. ~UnderWay
  BY DEF Init, UnderWay, Brings
<1>2. QED
  BY <1>1 DEF Init, Rotation, Past, OnePlace, UnderWay, Brings

(* Tokens are naturals, wherever they are. *)
LEMMA TokensOfState ==
  ASSUME TypeOK
  PROVE  /\ cookie \in Nat /\ latest \in Nat /\ issued \in Nat /\ missing \subseteq Nat
         /\ \A f \in flights : f \in Flight /\ f.n \in Nat
         /\ \A t \in Tabs : login[t] \in Nat
<1>1. Token \subseteq Nat
  BY SessionAssumption DEF Token
<1>2. QED
  BY <1>1 DEF TypeOK, Flight

(* A new token travels in one answer, or nobody waits for it. *)
LEMMA RotateRotation ==
  ASSUME RefreshIsShared, Rotation, NEW f \in flights, RotateRefresh(f)
  PROVE  Rotation'
<1>0. TypeOK /\ Past
  BY DEF RefreshIsShared, Rotation
<1>1. /\ latest' = issued + 1 /\ issued' = issued + 1
      /\ cookie' = cookie /\ login' = login
  BY DEF RotateRefresh, tab
<1>2. f \in Flight /\ issued + 1 # 0 /\ issued + 1 > issued
  BY <1>0, TokensOfState
<1>3. CASE f.waited
  <2> DEFINE a == [f EXCEPT !.st = "ok", !.n = issued + 1]
  <2>1. a.st = "ok" /\ a.n = issued + 1
    BY <1>2 DEF Flight
  <2>2. flights' = (flights \ {f}) \cup {a} /\ missing' = missing
    BY <1>3 DEF RotateRefresh
  <2> HIDE DEF a
  <2>3. Past'
    BY <1>0, <1>1, <2>1, <2>2, TokensOfState DEF Past
  <2>4. a \in flights' /\ a.st = "ok" /\ a.n = latest' /\ \A g \in flights' \ {a} : g.n # latest'
    BY <1>0, <1>1, <2>1, <2>2, TokensOfState DEF Past
  <2>5. (\A t \in Tabs : login'[t] # latest') /\ cookie' # latest' /\ latest' \notin missing'
    BY <1>0, <1>1, <2>2, TokensOfState DEF Past
  <2>6. OnePlace'
    BY <2>4, <2>5 DEF OnePlace, UnderWay, Brings
  <2>7. QED
    BY <2>3, <2>6 DEF Rotation
<1>4. CASE ~f.waited
  <2>1. flights' = flights \ {f} /\ missing' = missing \cup {issued + 1}
    BY <1>4 DEF RotateRefresh
  <2>2. Past'
    BY <1>0, <1>1, <2>1, TokensOfState DEF Past
  <2>3. \A g \in flights' : g.n # latest'
    BY <1>0, <1>1, <2>1, TokensOfState DEF Past
  <2>4. (\A t \in Tabs : login'[t] # latest') /\ cookie' # latest' /\ latest' \in missing'
    BY <1>0, <1>1, <2>1, TokensOfState DEF Past
  <2>5. OnePlace'
    BY <2>3, <2>4 DEF OnePlace, UnderWay, Brings
  <2>6. QED
    BY <2>2, <2>5 DEF Rotation
<1>5. QED
  BY <1>3, <1>4

LEMMA LoginRotation ==
  ASSUME RefreshIsShared, Rotation, NEW t \in Tabs, Login(t)
  PROVE  Rotation'
<1>0. TypeOK /\ Past
  BY DEF RefreshIsShared, Rotation
<1>1. /\ latest' = issued + 1 /\ issued' = issued + 1
      /\ UNCHANGED <<cookie, missing, flights>>
  BY DEF Login
<1>2. login'[t] = latest' /\ \A u \in Tabs \ {t} : login'[u] = login[u]
  BY <1>0, <1>1 DEF Login, TypeOK
<1>3. Past'
  BY <1>0, <1>1, <1>2, TokensOfState DEF Past
<1>4. /\ \A f \in flights' : f.n # latest'
      /\ \A u \in Tabs \ {t} : login'[u] # latest'
      /\ cookie' # latest' /\ latest' \notin missing'
  BY <1>0, <1>1, <1>2, TokensOfState DEF Past
<1>5. OnePlace'
  BY <1>2, <1>4 DEF OnePlace, UnderWay, Brings
<1>6. QED
  BY <1>3, <1>5 DEF Rotation

(* An answer is no longer under way: nothing else travels than before. *)
Fewer ==
    /\ UNCHANGED <<latest, issued>>
    /\ flights' \subseteq flights
    /\ \A t \in Tabs : login'[t] \in {0, login[t]}

LEMMA FewerKeep ==
  ASSUME Rotation, Fewer
  PROVE  /\ \A f, g \in flights' : Brings(f)' /\ Brings(g)' => f = g
         /\ \A t, u \in Tabs : login'[t] = latest' /\ login'[u] = latest' => t = u
         /\ \A f \in flights', t \in Tabs : Brings(f)' => login'[t] # latest'
         /\ latest' = issued' /\ issued' # 0
         /\ \A f \in flights' : f.n <= issued'
<1>1. \A f : Brings(f)' <=> Brings(f)
  BY DEF Fewer, Brings
<1>2. \A t \in Tabs : login'[t] = latest' => login[t] = latest
  BY DEF Fewer, Rotation, Past
<1>3. QED
  BY <1>1, <1>2 DEF Fewer, Rotation, Past, OnePlace

LEMMA FewerLogins ==
  ASSUME TypeOK, Rotation, Fewer
  PROVE  \A t \in Tabs : login'[t] <= issued'
<1>1. /\ issued \in Nat /\ issued' = issued
      /\ \A t \in Tabs : login[t] \in Nat /\ login[t] <= issued /\ (login'[t] = 0 \/ login'[t] = login[t])
  BY TokensOfState DEF Fewer, Rotation, Past
<1>2. QED
  BY <1>1

(* The answer has arrived: its token is the cookie. *)
LEMMA CookieRotation ==
  ASSUME RefreshIsShared, Rotation, Fewer, NEW n \in Nat, n <= issued, SetCookie(n),
         n = latest => UnderWay /\ ~UnderWay',
         n # latest => (UnderWay' <=> UnderWay)
  PROVE  Rotation'
<1>0. TypeOK /\ Past /\ OnePlace /\ latest' = latest /\ issued' = issued
  BY DEF RefreshIsShared, Rotation, Fewer
<1>1. cookie \in Nat /\ issued \in Nat /\ latest = issued /\ cookie <= issued /\ missing \subseteq Nat
  BY <1>0, TokensOfState DEF Past
<1>2. /\ cookie' = n
      /\ n = latest => missing' = missing
      /\ n # latest => (latest \in missing' <=> latest \in missing \/ cookie = latest)
  BY <1>1 DEF SetCookie
<1>3. \A m \in missing' : m <= issued
  BY <1>0, <1>1 DEF SetCookie, Past
<1>4. UnderWay' => cookie' # latest' /\ latest' \notin missing'
  BY <1>0, <1>2 DEF OnePlace
<1>5. ~UnderWay' => (cookie' = latest' <=> latest' \notin missing')
  BY <1>0, <1>2 DEF OnePlace
<1>6. Past'
  BY <1>0, <1>1, <1>2, <1>3, FewerKeep, FewerLogins DEF Past
<1>7. OnePlace'
  BY <1>4, <1>5, FewerKeep DEF OnePlace
<1>8. QED
  BY <1>6, <1>7 DEF Rotation

(* The answer is lost, and its token with it. *)
LEMMA LossRotation ==
  ASSUME RefreshIsShared, Rotation, Fewer, NEW n \in Nat, n <= issued,
         cookie' = cookie, missing' = missing \cup {n},
         n = latest => UnderWay /\ ~UnderWay',
         n # latest => (UnderWay' <=> UnderWay)
  PROVE  Rotation'
<1>0. TypeOK /\ Past /\ OnePlace /\ latest' = latest /\ issued' = issued
  BY DEF RefreshIsShared, Rotation, Fewer
<1>1. \A m \in missing' : m <= issued
  BY <1>0 DEF Past
<1>2. UnderWay' => cookie' # latest' /\ latest' \notin missing'
  BY <1>0 DEF OnePlace
<1>3. ~UnderWay' => (cookie' = latest' <=> latest' \notin missing')
  BY <1>0 DEF OnePlace
<1>4. Past'
  BY <1>0, <1>1, FewerKeep, FewerLogins DEF Past
<1>5. OnePlace'
  BY <1>2, <1>3, FewerKeep DEF OnePlace
<1>6. QED
  BY <1>4, <1>5 DEF Rotation

(* No answer with a token appears, arrives or is lost. *)
LEMMA QuietRotation ==
  ASSUME Rotation, UNCHANGED <<cookie, missing, latest, issued, login>>,
         \A f \in flights' : f \in flights \/ (f.st # "ok" /\ f.n <= issued),
         \A f \in flights : f.st = "ok" => f \in flights'
  PROVE  Rotation'
<1>1. Past'
  BY DEF Rotation, Past
<1>2. /\ \A f : Brings(f)' <=> Brings(f)
      /\ \A f : f \in flights' /\ Brings(f) <=> f \in flights /\ Brings(f)
  BY DEF Brings
<1>3. UnderWay' <=> UnderWay
  BY <1>2 DEF UnderWay
<1>4. OnePlace'
  BY <1>2, <1>3 DEF Rotation, OnePlace
<1>5. QED
  BY <1>1, <1>4 DEF Rotation

LEMMA AnswerRotation ==
  ASSUME RefreshIsShared, Rotation, NEW f \in flights, DeliverRefresh(f) \/ Timeout(f) \/ Refused(f)
  PROVE  Rotation'
<1>0. f \in Flight /\ f.n \in Nat /\ f.n <= issued
  BY TokensOfState DEF RefreshIsShared, Rotation, Past
<1>1. UNCHANGED <<latest, issued, login>>
  BY DEF DeliverRefresh, Timeout, Refused, RefreshFails, service
<1>2. ASSUME f.st = "ok", flights' = flights \ {f}
      PROVE  /\ Fewer
             /\ f.n = latest => UnderWay /\ ~UnderWay'
             /\ f.n # latest => (UnderWay' <=> UnderWay)
  <2>1. \A g : Brings(g)' <=> Brings(g)
    BY <1>1 DEF Brings
  <2>2. Brings(f) <=> f.n = latest
    BY <1>2 DEF Brings
  <2>3. Brings(f) => (\A g \in flights : Brings(g) => g = f) /\ \A t \in Tabs : login[t] # latest
    BY DEF Rotation, OnePlace
  <2>4. QED
    BY <1>1, <1>2, <2>1, <2>2, <2>3 DEF Fewer, UnderWay
<1>3. CASE DeliverRefresh(f)
  <2>1. f.st = "ok" /\ flights' = flights \ {f} /\ SetCookie(f.n)
    BY <1>3 DEF DeliverRefresh
  <2>2. QED
    BY <1>0, <1>2, <2>1, CookieRotation
<1>4. CASE Timeout(f)
  <2>1. cookie' = cookie
    BY <1>4 DEF Timeout, RefreshFails
  <2>2. CASE f.st = "ok"
    <3>1. flights' = flights \ {f} /\ missing' = missing \cup {f.n}
      BY <1>4, <2>2 DEF Timeout
    <3>2. QED
      BY <1>0, <1>2, <2>1, <2>2, <3>1, LossRotation
  <2>3. CASE f.st # "ok"
    <3> DEFINE a == [f EXCEPT !.waited = FALSE]
    <3>1. a.st # "ok" /\ a.n = f.n
      BY <1>0, <2>3 DEF Flight
    <3>2. flights' = (flights \ {f}) \cup {a} /\ missing' = missing
      BY <1>4, <2>3 DEF Timeout
    <3> HIDE DEF a
    <3>3. QED
      BY <1>0, <1>1, <2>1, <2>3, <3>1, <3>2, QuietRotation
  <2>4. QED
    BY <2>2, <2>3
<1>5. CASE Refused(f)
  <2>1. f.st # "ok" /\ flights' = flights \ {f} /\ UNCHANGED <<cookie, missing>>
    BY <1>5 DEF Refused, RefreshFails
  <2>2. QED
    BY <1>1, <2>1, QuietRotation
<1>6. QED
  BY <1>3, <1>4, <1>5

LEMMA LoginEnds ==
  ASSUME RefreshIsShared, Rotation, NEW t \in Tabs, LoginAnswered(t) \/ LoginFails(t)
  PROVE  Rotation'
<1>0. login[t] \in Nat /\ login[t] <= issued /\ login[t] # 0
  BY TokensOfState DEF RefreshIsShared, Rotation, Past, LoginAnswered, LoginFails
<1>1. UNCHANGED <<latest, issued, flights>> /\ latest # 0
  BY DEF LoginAnswered, LoginFails, service, Rotation, Past
<1>2. login'[t] = 0 /\ \A u \in Tabs \ {t} : login'[u] = login[u]
  BY DEF LoginAnswered, LoginFails, RefreshIsShared, TypeOK
<1>3. Fewer
  BY <1>1, <1>2 DEF Fewer
<1>4. \A g : Brings(g)' <=> Brings(g)
  BY <1>1 DEF Brings
<1>5. login[t] = latest => UnderWay /\ ~UnderWay'
  <2>1. login[t] = latest => (\A g \in flights : ~Brings(g)) /\ \A u \in Tabs \ {t} : login[u] # latest
    BY DEF Rotation, OnePlace
  <2>2. QED
    BY <1>1, <1>2, <1>4, <2>1 DEF UnderWay
<1>6. login[t] # latest => (UnderWay' <=> UnderWay)
  BY <1>1, <1>2, <1>4 DEF UnderWay
<1>7. CASE LoginAnswered(t)
  <2>1. SetCookie(login[t])
    BY <1>7 DEF LoginAnswered
  <2>2. QED
    BY <1>0, <1>3, <1>5, <1>6, <2>1, CookieRotation
<1>8. CASE LoginFails(t)
  <2>1. cookie' = cookie /\ missing' = missing \cup {login[t]}
    BY <1>8 DEF LoginFails
  <2>2. QED
    BY <1>0, <1>3, <1>5, <1>6, <2>1, LossRotation
<1>9. QED
  BY <1>7, <1>8

LEMMA LogoutRotation ==
  ASSUME RefreshIsShared, Rotation, NEW t \in Tabs, NEW lost \in BOOLEAN, LogoutAnswered(t, lost)
  PROVE  Rotation'
<1>1. UNCHANGED <<latest, issued, flights, login>>
  BY DEF LogoutAnswered, service
<1>2. CASE lost
  <2>1. UNCHANGED <<cookie, missing>>
    BY <1>2 DEF LogoutAnswered
  <2>2. QED
    BY <1>1, <2>1, QuietRotation
<1>3. CASE ~lost
  <2>1. SetCookie(0) /\ Fewer
    BY <1>1, <1>3 DEF LogoutAnswered, Fewer
  <2>2. UnderWay' <=> UnderWay
    BY <1>1 DEF UnderWay, Brings
  <2>3. 0 # latest /\ 0 <= issued
    BY TokensOfState DEF Rotation, Past, RefreshIsShared
  <2>4. QED
    BY <2>1, <2>2, <2>3, CookieRotation
<1>4. QED
  BY <1>2, <1>3

LEMMA UnauthorizedRotation ==
  ASSUME RefreshIsShared, Rotation, NEW t \in Tabs, NEW r \in Reqs, Unauthorized(t, r)
  PROVE  Rotation'
<1>1. UNCHANGED <<cookie, missing, latest, issued, login>>
  BY DEF Unauthorized, service
<1>2. flights' = flights \/ flights' = flights \cup {Ask(t)}
  BY DEF Unauthorized, RefreshAccessToken
<1>3. Ask(t).st # "ok" /\ Ask(t).n <= issued
  BY TokensOfState DEF Ask, RefreshIsShared
<1>4. QED
  BY <1>1, <1>2, <1>3, QuietRotation

LEMMA CheckRotation ==
  ASSUME RefreshIsShared, Rotation, NEW f \in flights, CheckRefresh(f)
  PROVE  Rotation'
<1> DEFINE a == [f EXCEPT !.st = "accepted"]
           b == [f EXCEPT !.st = "no"]
<1>1. f \in Flight /\ f.n <= issued /\ f.st # "ok"
  BY TokensOfState DEF RefreshIsShared, Rotation, Past, CheckRefresh
<1>2. a.st # "ok" /\ a.n = f.n /\ b.st # "ok" /\ b.n = f.n
  BY <1>1 DEF Flight
<1>3. /\ UNCHANGED <<cookie, missing, latest, issued, login>>
      /\ flights' \in {(flights \ {f}) \cup {a}, (flights \ {f}) \cup {b}, (flights \ {f}) \cup {}}
  BY DEF CheckRefresh, service, tab
<1> HIDE DEF a, b
<1>4. QED
  BY <1>1, <1>2, <1>3, QuietRotation

LEMMA StepRotation == RefreshIsShared /\ Rotation /\ [Next]_vars => Rotation'
<1> SUFFICES ASSUME RefreshIsShared, Rotation, [Next]_vars PROVE Rotation'
  OBVIOUS
<1>1. CASE RefreshStep
  BY <1>1, CheckRotation, RotateRotation, AnswerRotation DEF RefreshStep
<1>2. CASE UNCHANGED <<cookie, missing, latest, issued, flights, login>>
  BY <1>2, QuietRotation
<1>3. ASSUME NEW t \in Tabs, NEW r \in Reqs, Send(t, r) \/ RequestStep(t, r) PROVE Rotation'
  <2>1. CASE Unauthorized(t, r)
    BY <2>1, UnauthorizedRotation
  <2>2. CASE Send(t, r) \/ Serve(t, r)
    BY <1>2, <2>2 DEF Send, Serve, service
  <2>3. QED
    BY <1>3, <2>1, <2>2 DEF RequestStep
<1>4. ASSUME NEW t \in Tabs, Elsewhere(t) PROVE Rotation'
  <2>1. CASE Login(t) \/ LoginAnswered(t) \/ LoginFails(t) \/ \E lost \in BOOLEAN : LogoutAnswered(t, lost)
    BY <2>1, LoginRotation, LoginEnds, LogoutRotation
  <2>2. CASE \/ AuthInitTimeout(t) \/ Logout(t) \/ StoreLogout(t) \/ Guard(t) \/ ReturnToPage(t)
             \/ Connected(t) \/ Dropped(t) \/ TokenChanged(t)
    BY <1>2, <2>2 DEF AuthInitTimeout, Logout, StoreLogout, Guard, ReturnToPage, Connected, Dropped, TokenChanged,
                      SetConn, service
  <2>3. QED
    BY <1>4, <2>1, <2>2 DEF Elsewhere
<1>5. QED
  <2>1. CASE Expire \/ UNCHANGED vars
    BY <1>2, <2>1 DEF Expire, vars, service, tab
  <2>2. QED
    BY <1>1, <1>3, <1>4, <2>1 DEF Next, TabStep, Elsewhere

(* Rotation never locks the user out by itself, for any number of tabs and    *)
(* whatever refreshes, logins, logouts and late answers overlap: with no      *)
(* answer under way, the cookie is the token that the service accepts exactly *)
(* unless that token is missing, because its answer was lost or an older      *)
(* answer or a logout replaced it (auth.py, auth.api.ts, api-client.ts).      *)
THEOREM RotationIsSafe == Spec => []CookieIsLatest
<1>1. RefreshIsShared /\ Rotation => CookieIsLatest
  <2> SUFFICES ASSUME RefreshIsShared, Rotation,
                      \A f \in flights : f.st # "ok", \A t \in Tabs : login[t] = 0
               PROVE  cookie = latest <=> latest \notin missing
    BY DEF CookieIsLatest
  <2>1. ~UnderWay
    BY DEF UnderWay, Brings, Rotation, Past
  <2>2. QED
    BY <2>1 DEF Rotation, OnePlace
<1>2. QED
  BY <1>1, InitShared, StepShared, InitRotation, StepRotation, PTL DEF Spec

-----------------------------------------------------------------------------
(* The soundtrack.                                                           *)


(* What OneTrackHeard says of the controller s, with its type. *)
InOrder(s) ==
    /\ s \in Sound
    /\ s.mood # NoMood => s.ch[s.active].src = s.track /\ ~s.ch[s.active].fading
    /\ s.mood = NoMood => \A c \in 0..1 : ~s.ch[c].playing
    /\ s.ch[1 - s.active].playing => s.ch[1 - s.active].fading

(* The rest of the state keeps its type. *)
RestOK ==
    /\ page \in Stories \cup {NoStory} /\ shown \in Stories \cup {NoStory}
    /\ visits \in 0..MaxVisits /\ turns \in 0..MaxTurns /\ toggles \in 0..MaxToggles
    /\ turn \in {"none", "started", "mood"}
    /\ dodge \in Dodge
    /\ gesture \in BOOLEAN /\ known \in BOOLEAN /\ muted \in BOOLEAN
    /\ local \in BOOLEAN /\ global \in BOOLEAN /\ button \in BOOLEAN
    /\ sfx \in {"unset", "on", "off"}

SoundInv == InOrder(snd) /\ RestOK /\ EncounterHonoursMute

-----------------------------------------------------------------------------
(* The controller: every function of it keeps the channels in order. *)

LEMMA NoMoodIsNone == NoMood \notin AllMoods
BY SoundAssumption DEF NoMood, AllMoods

LEMMA TrackOfIsTrack ==
  ASSUME NEW story, NEW m PROVE TrackOf(story, m) \in Track
BY DEF TrackOf, Track

LEMMA CrossfadeInOrder ==
  ASSUME gesture \in BOOLEAN, NEW s, InOrder(s), NEW m \in AllMoods, NEW t \in Track
  PROVE  InOrder([Crossfade(s, t) EXCEPT !.mood = m, !.track = t, !.cooled = FALSE])
<1> DEFINE was == s.active
           ch == [c \in 0..1 |-> IF c = was THEN [s.ch[c] EXCEPT !.fading = TRUE]
                                 ELSE [src |-> t, playing |-> gesture, fading |-> FALSE]]
           u == [Crossfade(s, t) EXCEPT !.mood = m, !.track = t, !.cooled = FALSE]
<1>1. was \in 0..1 /\ 1 - was \in 0..1 /\ 1 - was # was /\ 1 - (1 - was) = was
  BY DEF InOrder, Sound
<1>2. s.ch \in [0..1 -> Channel]
  BY DEF InOrder, Sound
<1>3. /\ [src |-> t, playing |-> gesture, fading |-> FALSE] \in Channel
      /\ [s.ch[was] EXCEPT !.fading = TRUE] \in Channel /\ [s.ch[was] EXCEPT !.fading = TRUE].fading
  BY <1>1, <1>2 DEF Channel
<1>4. /\ ch \in [0..1 -> Channel] /\ ch[was].fading
      /\ ch[1 - was].src = t /\ ~ch[1 - was].fading
  BY <1>1, <1>3
<1>5. /\ u = [s EXCEPT !.active = 1 - was, !.ch = ch, !.mood = m, !.track = t, !.cooled = FALSE]
  BY DEF Crossfade
<1> HIDE DEF ch
<1>6. u \in Sound /\ u.ch = ch /\ u.active = 1 - was /\ u.mood = m /\ u.track = t
  BY <1>1, <1>4, <1>5 DEF InOrder, Sound
<1>7. m # NoMood
  BY NoMoodIsNone
<1> HIDE DEF u, was
<1>8. InOrder(u)
  BY <1>1, <1>4, <1>6, <1>7 DEF InOrder
<1>9. QED
  BY <1>8 DEF u

LEMMA TransitionInOrder ==
  ASSUME gesture \in BOOLEAN, NEW s, InOrder(s), NEW m \in AllMoods, NEW t \in Track, NEW force
  PROVE  InOrder(TransitionTo(s, m, t, force))
BY CrossfadeInOrder DEF TransitionTo

LEMMA StopInOrder ==
  ASSUME NEW s, InOrder(s)
  PROVE  InOrder(Stop(s))
<1> DEFINE ch == [c \in 0..1 |-> [s.ch[c] EXCEPT !.playing = FALSE, !.fading = FALSE]]
<1>1. s.active \in 0..1 /\ 1 - s.active \in 0..1 /\ s.ch \in [0..1 -> Channel]
  BY DEF InOrder, Sound
<1>2. ch \in [0..1 -> Channel] /\ \A c \in 0..1 : ~ch[c].playing
  BY <1>1 DEF Channel
<1>3. Stop(s) = [s EXCEPT !.ch = ch, !.mood = NoMood, !.track = NoTrack]
  BY DEF Stop
<1> HIDE DEF ch
<1>4. /\ Stop(s) \in Sound /\ Stop(s).ch = ch /\ Stop(s).active = s.active /\ Stop(s).mood = NoMood
  BY <1>2, <1>3 DEF InOrder, Sound, Track
<1>5. QED
  BY <1>1, <1>2, <1>4 DEF InOrder

LEMMA RestoreInOrder ==
  ASSUME gesture \in BOOLEAN, dodge \in Dodge, NEW s, InOrder(s)
  PROVE  InOrder(Restore(s))
<1>1. dodge.mood # NoMood => dodge.mood \in AllMoods
  BY DEF Dodge
<1>2. dodge.track \in Track
  BY DEF Dodge
<1>3. QED
  BY <1>1, <1>2, TransitionInOrder DEF Restore

-----------------------------------------------------------------------------
(* The encounter on top of it. *)

LEMMA Counted ==
  ASSUME NEW bound \in Nat, NEW n \in 0..bound, n < bound PROVE n + 1 \in 0..bound
OBVIOUS

LEMMA SfxKeepsType == \A l, g : sfx \in {"unset", "on", "off"} => SfxGain(l, g) \in {"unset", "on", "off"}
BY DEF SfxGain

(* What entering an encounter leaves. *)
LEMMA EnterKeeps ==
  ASSUME SoundInv, NEW s, InOrder(s), NEW own \in BOOLEAN, NEW cfg \in BOOLEAN, NEW tension \in BOOLEAN,
         Enter(s, own, cfg, tension)
  PROVE  /\ InOrder(snd') /\ dodge' \in Dodge /\ local' \in BOOLEAN /\ global' \in BOOLEAN
         /\ sfx' \in {"unset", "on", "off"}
         /\ global' = muted /\ dodge'.own = own /\ dodge'.muted = (own /\ (cfg \/ muted))
<1>1. InOrder(snd')
  <2>1. "tension" \in AllMoods /\ DefaultTension \in Track /\ NoTrack \in Track
    BY DEF AllMoods, Track
  <2>2. QED
    BY <2>1, TransitionInOrder DEF Enter, SoundInv, RestOK
<1>2. dodge' \in Dodge
  <2>1. (own /\ (cfg \/ muted)) \in BOOLEAN
    BY Zenon
  <2>2. s.mood \in AllMoods \cup {NoMood} /\ s.track \in Track
    BY DEF InOrder, Sound
  <2>3. QED
    BY <2>1, <2>2 DEF Enter, Dodge
<1>3. dodge'.own = own /\ dodge'.muted = (own /\ (cfg \/ muted))
  BY DEF Enter
<1>4. local' \in BOOLEAN /\ global' \in BOOLEAN /\ global' = muted /\ sfx' \in {"unset", "on", "off"}
  BY SfxKeepsType DEF Enter, SoundInv, RestOK
<1>5. QED
  BY <1>1, <1>2, <1>3, <1>4

(* The conjuncts that an action of the encounter disturbs. *)
LEMMA EnterStep ==
  ASSUME SoundInv, NEW s, InOrder(s), NEW own \in BOOLEAN, NEW cfg \in BOOLEAN, NEW tension \in BOOLEAN,
         Enter(s, own, cfg, tension), muted' = muted
  PROVE  /\ InOrder(snd') /\ dodge' \in Dodge /\ local' \in BOOLEAN /\ global' \in BOOLEAN
         /\ sfx' \in {"unset", "on", "off"} /\ EncounterHonoursMute'
<1>1. /\ InOrder(snd') /\ dodge' \in Dodge /\ local' \in BOOLEAN /\ global' \in BOOLEAN
      /\ sfx' \in {"unset", "on", "off"}
      /\ global' = muted /\ dodge'.own = own /\ dodge'.muted = (own /\ (cfg \/ muted))
  BY EnterKeeps
<1>2. QED
  BY <1>1, Zenon DEF EncounterHonoursMute

LEMMA UnmountStep ==
  ASSUME SoundInv, NEW s, InOrder(s), UnmountDodge(s)
  PROVE  InOrder(snd') /\ dodge' \in Dodge /\ EncounterHonoursMute'
<1>1. InOrder(snd')
  BY RestoreInOrder DEF UnmountDodge, SoundInv, RestOK
<1>2. dodge' \in Dodge /\ ~dodge'.on
  BY DEF UnmountDodge, Off, Dodge, Track
<1>3. QED
  BY <1>1, <1>2 DEF EncounterHonoursMute

-----------------------------------------------------------------------------
(* Every action keeps the invariant. *)

LEMMA FadeEndsKeeps ==
  ASSUME SoundInv, NEW c \in 0..1, FadeEnds(c)
  PROVE  SoundInv'
<1> DEFINE ch == [snd.ch EXCEPT ![c] = [snd.ch[c] EXCEPT !.playing = FALSE, !.fading = FALSE]]
<1>1. snd \in Sound /\ snd.active \in 0..1 /\ 1 - snd.active \in 0..1 /\ snd.ch \in [0..1 -> Channel]
  BY DEF SoundInv, InOrder, Sound
<1>2. snd.ch[c].fading /\ snd' = [snd EXCEPT !.ch = ch]
  BY <1>1 DEF FadeEnds, Channel, Sound
<1>3. /\ ch \in [0..1 -> Channel] /\ ~ch[c].playing
      /\ \A d \in 0..1 : d # c => ch[d] = snd.ch[d]
  BY <1>1 DEF Channel
<1> HIDE DEF ch
<1>4. /\ snd' \in Sound /\ snd'.ch = ch
      /\ snd'.active = snd.active /\ snd'.mood = snd.mood /\ snd'.track = snd.track
  BY <1>1, <1>2, <1>3 DEF Sound
<1>5. InOrder(snd')
  BY <1>1, <1>2, <1>3, <1>4 DEF SoundInv, InOrder
<1>6. UNCHANGED <<where, dodge, audio>>
  BY DEF FadeEnds
<1>7. QED
  BY <1>5, <1>6 DEF SoundInv, RestOK, EncounterHonoursMute, where, audio

LEMMA CooldownEndsKeeps ==
  ASSUME SoundInv, CooldownEnds
  PROVE  SoundInv'
<1>1. InOrder(snd')
  BY DEF CooldownEnds, SoundInv, InOrder, Sound
<1>2. QED
  BY <1>1 DEF CooldownEnds, SoundInv, RestOK, EncounterHonoursMute, where, audio

LEMMA ListenersKeep ==
  ASSUME SoundInv, Gesture \/ PlaySfx \/ ChangeMuted \/ ToggleMute
  PROVE  SoundInv'
<1>1. InOrder(snd')
  BY DEF SoundInv, Gesture, PlaySfx, ChangeMuted, ToggleMute
<1>2. CASE Gesture
  BY <1>1, <1>2 DEF Gesture, SoundInv, RestOK, EncounterHonoursMute, where
<1>3. CASE PlaySfx
  BY <1>1, <1>3 DEF PlaySfx, SoundInv, RestOK, EncounterHonoursMute, where
<1>4. CASE ChangeMuted
  <2>1. dodge \in Dodge /\ toggles \in 0..MaxToggles
    BY DEF SoundInv, RestOK
  <2>2. (dodge.own /\ (~button \/ global)) \in BOOLEAN /\ (~button) \in BOOLEAN
    BY Zenon
  <2>3. /\ dodge' \in Dodge /\ dodge'.on = dodge.on /\ dodge'.own = dodge.own
        /\ dodge'.muted = (dodge.own /\ (~button \/ global))
    BY <1>4, <2>1, <2>2 DEF ChangeMuted, Dodge
  <2>4. EncounterHonoursMute'
    <3>1. global' = global /\ muted' = muted
      BY <1>4 DEF ChangeMuted
    <3>2. QED
      BY <2>3, <3>1, Zenon DEF EncounterHonoursMute, SoundInv
  <2>5. toggles' \in 0..MaxToggles
    BY <1>4, <2>1, SoundAssumption, Counted DEF ChangeMuted
  <2>6. local' \in BOOLEAN /\ button' \in BOOLEAN /\ sfx' \in {"unset", "on", "off"}
    BY <1>4, <2>2, SfxKeepsType DEF ChangeMuted, SoundInv, RestOK
  <2>7. QED
    BY <1>1, <1>4, <2>3, <2>4, <2>5, <2>6 DEF ChangeMuted, SoundInv, RestOK
<1>5. CASE ToggleMute
  <2>1. dodge \in Dodge /\ toggles \in 0..MaxToggles
    BY DEF SoundInv, RestOK
  <2>2. (dodge.own /\ (local \/ ~muted)) \in BOOLEAN /\ (~muted) \in BOOLEAN
    BY Zenon
  <2>3. toggles' \in 0..MaxToggles
    BY <1>5, <2>1, SoundAssumption, Counted DEF ToggleMute
  <2>4. CASE dodge.on
    <3>1. /\ dodge' \in Dodge /\ dodge'.on = dodge.on /\ dodge'.own = dodge.own
          /\ dodge'.muted = (dodge.own /\ (local \/ ~muted))
      BY <1>5, <2>1, <2>2, <2>4 DEF ToggleMute, Dodge
    <3>2. muted' = ~muted /\ global' = ~muted /\ sfx' \in {"unset", "on", "off"}
      BY <1>5, <2>4, SfxKeepsType DEF ToggleMute, SoundInv, RestOK
    <3>3. EncounterHonoursMute'
      BY <3>1, <3>2, Zenon DEF EncounterHonoursMute
    <3>4. QED
      BY <1>1, <1>5, <2>2, <2>3, <3>1, <3>2, <3>3 DEF ToggleMute, SoundInv, RestOK
  <2>5. CASE ~dodge.on
    BY <1>1, <1>5, <2>2, <2>3, <2>5 DEF ToggleMute, SoundInv, RestOK, EncounterHonoursMute
  <2>6. QED
    BY <2>4, <2>5
<1>6. QED
  BY <1>2, <1>3, <1>4, <1>5

LEMMA InputsChangeKeeps ==
  ASSUME SoundInv, NEW url \in BOOLEAN, InputsChange(url)
  PROVE  SoundInv'
<1>1. InOrder(Restore(snd)) /\ (known \/ url) \in BOOLEAN
  BY RestoreInOrder DEF SoundInv, RestOK
<1>2. CASE dodge.on
  <2>1. PICK cfg \in BOOLEAN : Enter(Restore(snd), dodge.own, cfg, known \/ url)
    BY <1>2 DEF InputsChange
  <2>2. dodge.own \in BOOLEAN /\ muted' = muted
    BY DEF SoundInv, RestOK, Dodge, InputsChange
  <2>3. /\ InOrder(snd') /\ dodge' \in Dodge /\ local' \in BOOLEAN /\ global' \in BOOLEAN
        /\ sfx' \in {"unset", "on", "off"} /\ EncounterHonoursMute'
    BY <1>1, <2>1, <2>2, EnterStep
  <2>4. QED
    BY <1>1, <2>3 DEF InputsChange, SoundInv, RestOK, where
<1>3. CASE ~dodge.on
  BY <1>1, <1>3 DEF InputsChange, SoundInv, RestOK, EncounterHonoursMute, where
<1>4. QED
  BY <1>2, <1>3

LEMMA SetPlaythroughKeeps ==
  ASSUME SoundInv, NEW pending \in BOOLEAN, NEW own \in BOOLEAN, NEW cfg \in BOOLEAN, SetPlaythrough(pending, own, cfg)
  PROVE  SoundInv'
<1> DEFINE m == InitialMood[page]
           s == IF page # shown THEN TransitionTo(snd, m, TrackOf(page, m), TRUE) ELSE snd
<1>1. page \in Stories /\ m \in AllMoods
  BY SoundAssumption DEF SetPlaythrough, SoundInv, RestOK, AllMoods
<1>2. InOrder(s)
  BY <1>1, TransitionInOrder, TrackOfIsTrack DEF SoundInv, RestOK
<1>3. IF pending THEN MountDodge(s, own, cfg) ELSE snd' = s /\ UNCHANGED <<dodge, audio>>
  BY DEF SetPlaythrough
<1>4. shown' = page /\ UNCHANGED <<page, visits, turns, turn, toggles>>
  BY DEF SetPlaythrough
<1> HIDE DEF s
<1>5. CASE pending
  <2>1. Enter(s, own, cfg, known) /\ button' = cfg /\ UNCHANGED <<gesture, known, muted>>
    BY <1>3, <1>5 DEF MountDodge
  <2>2. /\ InOrder(snd') /\ dodge' \in Dodge /\ local' \in BOOLEAN /\ global' \in BOOLEAN
        /\ sfx' \in {"unset", "on", "off"} /\ EncounterHonoursMute'
    BY <1>2, <2>1, EnterStep DEF SoundInv, RestOK
  <2>3. QED
    BY <1>1, <1>4, <2>1, <2>2 DEF SoundInv, RestOK
<1>6. CASE ~pending
  BY <1>1, <1>2, <1>3, <1>4, <1>6 DEF SoundInv, RestOK, EncounterHonoursMute, audio
<1>7. QED
  BY <1>5, <1>6

LEMMA TurnCommitsKeeps ==
  ASSUME SoundInv, NEW trigger \in BOOLEAN, NEW own \in BOOLEAN, NEW cfg \in BOOLEAN, TurnCommits(trigger, own, cfg)
  PROVE  SoundInv'
<1>1. turn' = "none" /\ UNCHANGED <<page, shown, visits, turns, toggles>>
  BY DEF TurnCommits
<1>2. CASE UNCHANGED <<snd, dodge, audio>>
  BY <1>1, <1>2 DEF SoundInv, RestOK, EncounterHonoursMute, audio
<1>3. ASSUME NEW s, InOrder(s), Enter(s, own, cfg, known), UNCHANGED <<gesture, known, muted>>,
             button' \in BOOLEAN
      PROVE  SoundInv'
  <2>1. /\ InOrder(snd') /\ dodge' \in Dodge /\ local' \in BOOLEAN /\ global' \in BOOLEAN
        /\ sfx' \in {"unset", "on", "off"} /\ EncounterHonoursMute'
    BY <1>3, EnterStep DEF SoundInv, RestOK
  <2>2. QED
    BY <1>1, <1>3, <2>1 DEF SoundInv, RestOK
<1>4. CASE MountDodge(snd, own, cfg)
  BY <1>3, <1>4 DEF MountDodge, SoundInv
<1>5. CASE Enter(Restore(snd), own, cfg, known) /\ UNCHANGED <<gesture, known, muted, button>>
  <2>1. InOrder(Restore(snd)) /\ button' \in BOOLEAN
    BY <1>5, RestoreInOrder DEF SoundInv, RestOK
  <2>2. QED
    BY <1>3, <1>5, <2>1
<1>6. CASE UnmountDodge(snd)
  <2>1. InOrder(snd') /\ dodge' \in Dodge /\ EncounterHonoursMute'
    BY <1>6, UnmountStep DEF SoundInv
  <2>2. QED
    BY <1>1, <1>6, <2>1 DEF UnmountDodge, SoundInv, RestOK, audio
<1>7. QED
  BY <1>2, <1>4, <1>5, <1>6 DEF TurnCommits

LEMMA LeavePageKeeps ==
  ASSUME SoundInv, LeavePage
  PROVE  SoundInv'
<1>1. InOrder(Stop(snd))
  BY StopInOrder DEF SoundInv
<1>2. page' = NoStory /\ UNCHANGED <<shown, visits, turns, turn, toggles, audio>>
  BY DEF LeavePage, UnmountDodge
<1>3. CASE dodge.on
  <2>1. InOrder(snd') /\ dodge' \in Dodge /\ EncounterHonoursMute'
    BY <1>1, <1>3, UnmountStep DEF LeavePage
  <2>2. QED
    BY <1>2, <2>1 DEF SoundInv, RestOK, audio
<1>4. CASE ~dodge.on
  BY <1>1, <1>2, <1>4 DEF LeavePage, SoundInv, RestOK, EncounterHonoursMute, audio
<1>5. QED
  BY <1>3, <1>4

LEMMA TurnsKeep ==
  ASSUME SoundInv, StartTurn \/ TurnFails \/ (\E p \in Stories : OpenPage(p)) \/ (\E m \in AllMoods : MoodEvent(m))
  PROVE  SoundInv'
<1>1. CASE StartTurn
  <2>1. turns' \in 0..MaxTurns
    BY <1>1, SoundAssumption, Counted DEF StartTurn, SoundInv, RestOK
  <2>2. QED
    BY <1>1, <2>1 DEF StartTurn, SoundInv, RestOK, EncounterHonoursMute
<1>2. CASE TurnFails
  BY <1>2 DEF TurnFails, SoundInv, RestOK, EncounterHonoursMute, audio
<1>3. CASE \E p \in Stories : OpenPage(p)
  <2>1. visits' \in 0..MaxVisits
    BY <1>3, SoundAssumption, Counted DEF OpenPage, SoundInv, RestOK
  <2>2. QED
    BY <1>3, <2>1 DEF OpenPage, SoundInv, RestOK, EncounterHonoursMute, audio
<1>4. ASSUME NEW m \in AllMoods, MoodEvent(m) PROVE SoundInv'
  <2>1. InOrder(snd')
    BY <1>4, TransitionInOrder, TrackOfIsTrack DEF MoodEvent, SoundInv, RestOK
  <2>2. QED
    BY <1>4, <2>1 DEF MoodEvent, SoundInv, RestOK, EncounterHonoursMute, audio
<1>5. QED
  BY <1>1, <1>2, <1>3, <1>4

LEMMA SoundStarts == SoundInit => SoundInv
<1> SUFFICES ASSUME SoundInit PROVE SoundInv
  OBVIOUS
<1>1. NoTrack \in Track /\ Off \in Dodge /\ ~Off.on
  BY DEF Track, Off, Dodge
<1>2. InOrder(snd)
  BY <1>1 DEF SoundInit, InOrder, Sound, Channel
<1>3. RestOK
  <2>1. 0 \in 0..MaxVisits /\ 0 \in 0..MaxTurns /\ 0 \in 0..MaxToggles
    <3>1. MaxVisits \in Nat /\ MaxTurns \in Nat /\ MaxToggles \in Nat
      BY SoundAssumption
    <3>2. QED
      BY <3>1
  <2>2. muted \in BOOLEAN /\ global \in BOOLEAN /\ gesture \in BOOLEAN
    BY DEF SoundInit
  <2>3. QED
    BY <1>1, <2>1, <2>2 DEF SoundInit, RestOK
<1>4. QED
  BY <1>1, <1>2, <1>3 DEF SoundInit, SoundInv, EncounterHonoursMute

\* Whatever the page, the turns, the encounters and the timers do, the
\* controller stays in order and the encounter hears the player's mute.
THEOREM SoundStaysInOrder == SoundSpec => []SoundInv
<1>1. SoundInv /\ [SoundNext]_soundVars => SoundInv'
  <2> SUFFICES ASSUME SoundInv, [SoundNext]_soundVars PROVE SoundInv'
    OBVIOUS
  <2>1. CASE SoundNext
    BY <2>1, FadeEndsKeeps, CooldownEndsKeeps, ListenersKeep, InputsChangeKeeps, SetPlaythroughKeeps,
       TurnCommitsKeeps, LeavePageKeeps, TurnsKeep DEF SoundNext
  <2>2. CASE UNCHANGED soundVars
    BY <2>2 DEF soundVars, where, audio, SoundInv, RestOK, EncounterHonoursMute
  <2>3. QED
    BY <2>1, <2>2
<1>2. QED
  BY SoundStarts, <1>1, PTL DEF SoundSpec

-----------------------------------------------------------------------------
(* The results. *)

\* The timer that pauses the channel of a crossfade never hits a channel that
\* is active again, what is heard is the current track and for a while the one
\* before it, and after a stop nothing plays (AmbientSoundtrackController.ts).
THEOREM OneTrack == SoundSpec => []OneTrackHeard
<1>1. SoundInv => OneTrackHeard
  BY DEF SoundInv, InOrder, RestOK, OneTrackHeard, SoundTypeOK
<1>2. QED
  BY <1>1, SoundStaysInOrder, PTL

\* The header's mute covers the own music of an encounter, mounted before or
\* after it was pressed (dodgeAudio.ts).
THEOREM MuteIsHonoured == SoundSpec => []EncounterHonoursMute
<1>1. SoundInv => EncounterHonoursMute
  BY DEF SoundInv
<1>2. QED
  BY <1>1, SoundStaysInOrder, PTL
-----------------------------------------------------------------------------
(* The studio.                                                               *)

Snaps == [scene: Scenes, schema: SUBSET Args("state_field")]

CallRecords ==
    [n: Nat, hook: {"editor", "applier", "fetch", "entity", "fact", "delete"}, task: 0..MaxTasks,
     card: (0..MaxStreams) \X ({0} \cup DOMAIN Reply), scene: Scenes \cup {Keep},
     schema: SUBSET Args("state_field"), id: Nat, obj: Nat, st: {"sent", "ok", "no"}, last: BOOLEAN, snap: Snaps]

TaskRecords ==
    [msg: 0..MaxStreams, cards: SUBSET DOMAIN Reply, all: BOOLEAN, queue: SUBSET DOMAIN Reply,
     schema: SUBSET Args("state_field"), st: {"free", "ready", "waiting"}]

Reports == [card: Cards, why: {"refused", "unresolved"}, all: BOOLEAN]

EditorTyped ==
    /\ cache \in Snaps /\ form \in Scenes /\ synced \in Scenes
    /\ timer \in BOOLEAN /\ (timer => mounted /\ form # cache.scene)
    /\ isSaving \in BOOLEAN /\ mounted \in BOOLEAN

StoreTyped ==
    /\ db \in [scene: Scenes, schema: SUBSET Args("state_field"), made: Nat, left: SUBSET Nat]
    /\ db.left \subseteq 1..db.made /\ wrote \subseteq Cards

CallsTyped ==
    /\ calls \subseteq CallRecords /\ IsFiniteSet(calls)
    /\ \A c, d \in calls : c.n = d.n => c = d
    /\ \A c \in calls : c.task # 0 => c.card \in Cards

ApplierTyped ==
    /\ temp \in [Args("entity") -> Nat] /\ tasks \in [1..MaxTasks -> TaskRecords]
    /\ applied \subseteq Cards /\ reported \subseteq Reports

ChatTyped ==
    /\ messages \subseteq Message /\ saved \in [Modes -> SUBSET Message]
    /\ rereading \in BOOLEAN /\ read \subseteq Message
    /\ mode \in Modes /\ isStreaming \in BOOLEAN /\ cancel \in 0..MaxStreams /\ sent \in 0..MaxStreams
    /\ streams \subseteq [id: 1..MaxStreams, st: {"open", "done"}]

Counters == acts \in 0..MaxActs /\ faults \in 0..MaxFaults /\ unsettled \in BOOLEAN

StudioTyped == EditorTyped /\ StoreTyped /\ CallsTyped /\ ApplierTyped /\ ChatTyped /\ Counters

LEMMA StudioTypedIsTypeOK == StudioTyped => StudioTypeOK
BY DEF StudioTyped, EditorTyped, StoreTyped, CallsTyped, ApplierTyped, ChatTyped, Counters, StudioTypeOK,
   Snaps, CallRecords, TaskRecords, Reports

-----------------------------------------------------------------------------
(* Identities, the order of a batch, and calls that are made. *)

LEMMA Limits == MaxActs \in Nat /\ MaxStreams \in Nat /\ MaxTasks \in Nat /\ MaxFaults \in Nat
BY StudioAssumption

LEMMA Indices == DOMAIN Reply \subseteq Nat
BY StudioAssumption

LEMMA FreshId ==
  ASSUME CallsTyped
  PROVE  NewId \in Nat /\ \A c \in calls : c.n # NewId
<1> DEFINE k == Cardinality(calls)
           used == {c.n : c \in calls}
           f == [c \in calls |-> c.n]
<1>1. k \in Nat
  BY FS_CardinalityType DEF CallsTyped
<1>2. f \in Surjection(calls, used)
  BY DEF Surjection
<1>3. IsFiniteSet(used) /\ Cardinality(used) <= k
  BY <1>2, FS_Surjection DEF CallsTyped
<1>4. Cardinality(1..k + 1) = k + 1
  BY <1>1, FS_Interval
<1> HIDE DEF k, used, f
<1>5. ~(1..k + 1 \subseteq used)
  <2>1. SUFFICES ASSUME 1..k + 1 \in SUBSET used PROVE FALSE
    OBVIOUS
  <2>2. Cardinality(1..k + 1) <= Cardinality(used) /\ Cardinality(used) \in Nat
    BY <1>3, <2>1, FS_Subset, FS_CardinalityType
  <2>3. QED
    BY <1>1, <1>3, <1>4, <2>2
<1>6. \E n \in 1..k + 1 : \A c \in calls : c.n # n
  BY <1>5 DEF used
<1>7. NewId \in 1..k + 1 /\ \A c \in calls : c.n # NewId
  BY <1>6 DEF NewId, k
<1>8. QED
  BY <1>1, <1>7

LEMMA LeastIn ==
  ASSUME NEW S, S \subseteq Nat, S # {}
  PROVE  Least(S) \in S
<1>1. PICK x \in S : \A y \in S : ~(<<y, x>> \in OpToRel(<, Nat))
  BY NatLessThanWellFounded, WFMin
<1>2. \A y \in S : x <= y
  <2>1. ASSUME NEW y \in S, y < x PROVE FALSE
    <3>1. <<y, x>> \in OpToRel(<, Nat)
      BY <2>1 DEF OpToRel
    <3>2. QED
      BY <1>1, <3>1
  <2>2. QED
    BY <2>1
<1>3. QED
  BY <1>2 DEF Least

LEMMA BatchOrderIn ==
  ASSUME NEW Q, Q \subseteq DOMAIN Reply, Q # {}
  PROVE  /\ BatchOrder(Q) \in Q
         /\ BatchOrder(Q) \notin Targets("entity") => Q \cap Targets("entity") = {}
<1>1. CASE Q \cap Targets("entity") # {}
  <2>1. Least(Q \cap Targets("entity")) \in Q \cap Targets("entity")
    BY <1>1, Indices, LeastIn
  <2>2. QED
    BY <1>1, <2>1 DEF BatchOrder
<1>2. CASE Q \cap Targets("entity") = {}
  BY <1>2, Indices, LeastIn DEF BatchOrder
<1>3. QED
  BY <1>1, <1>2

(* A call stays the same call when it loses its callbacks.                      *)
Same(d, c) ==
    /\ d.n = c.n /\ d.hook = c.hook /\ d.task = c.task /\ d.card = c.card
    /\ d.st = c.st /\ d.id = c.id

LEMMA Overtaking ==
  ASSUME CallsTyped, NEW hook
  PROVE  /\ \A d \in Overtaken(hook) : d \in CallRecords /\ \E c \in calls : Same(d, c)
         /\ IsFiniteSet(Overtaken(hook))
         /\ \A d, e \in Overtaken(hook) : d.n = e.n => d = e
<1> DEFINE Op(c) == IF c.hook = hook THEN [c EXCEPT !.last = FALSE] ELSE c
           f == [c \in calls |-> Op(c)]
<1>1. Overtaken(hook) = {Op(c) : c \in calls}
  BY DEF Overtaken
<1>2. \A c \in calls : Op(c) \in CallRecords /\ Same(Op(c), c)
  BY DEF CallsTyped, CallRecords, Same
<1>3. f \in Surjection(calls, Overtaken(hook))
  BY <1>1 DEF Surjection
<1>4. IsFiniteSet(Overtaken(hook))
  BY <1>3, FS_Surjection DEF CallsTyped
<1>5. \A c, d \in calls : c.n = d.n => Op(c) = Op(d)
  BY DEF CallsTyped
<1> HIDE DEF Op, f
<1>6. \A d, e \in Overtaken(hook) : d.n = e.n => d = e
  BY <1>1, <1>2, <1>5 DEF Same
<1>7. QED
  BY <1>1, <1>2, <1>4, <1>6

Changes == [scene: Scenes \cup {Keep}, schema: SUBSET Args("state_field"), id: Nat, obj: Nat]

LEMMA MutateTyped ==
  ASSUME StudioTyped, NEW hook \in {"editor", "applier", "fetch", "entity", "fact", "delete"}, NEW task \in 0..MaxTasks,
         NEW card \in (0..MaxStreams) \X ({0} \cup DOMAIN Reply), NEW change \in Changes,
         task # 0 => card \in Cards, Mutate(hook, task, card, change)
  PROVE  /\ CallsTyped' /\ isSaving' \in BOOLEAN /\ unsettled' \in BOOLEAN
         /\ LET new == Call(hook, task, card, change)
            IN  /\ new.hook = hook /\ new.task = task /\ new.card = card /\ new.st = "sent"
                /\ calls' = Overtaken(hook) \cup {new}
<1> DEFINE new == Call(hook, task, card, change)
<1>1. CallsTyped /\ cache \in Snaps
  BY DEF StudioTyped, EditorTyped
<1>2. NewId \in Nat /\ \A c \in calls : c.n # NewId
  BY <1>1, FreshId
<1>3. /\ new \in CallRecords /\ new.n = NewId /\ new.hook = hook /\ new.task = task /\ new.card = card
      /\ new.st = "sent"
  BY <1>1, <1>2 DEF Call, CallRecords, Changes
<1>4. calls' = Overtaken(hook) \cup {new}
  BY DEF Mutate
<1> HIDE DEF new
<1>5. CallsTyped'
  <2>1. calls' \subseteq CallRecords
    BY <1>1, <1>3, <1>4, Overtaking
  <2>2. IsFiniteSet(calls')
    BY <1>1, <1>4, Overtaking, FS_AddElement
  <2>3. \A d \in Overtaken(hook) : d.n # new.n
    BY <1>1, <1>2, <1>3, Overtaking DEF Same
  <2>4. \A d, e \in calls' : d.n = e.n => d = e
    BY <1>1, <1>4, <2>3, Overtaking
  <2>5. \A d \in calls' : d.task # 0 => d.card \in Cards
    BY <1>1, <1>3, <1>4, Overtaking DEF Same, CallsTyped
  <2>6. QED
    BY <2>1, <2>2, <2>4, <2>5 DEF CallsTyped
<1>6. isSaving' \in BOOLEAN /\ unsettled' \in BOOLEAN
  BY DEF Mutate, StudioTyped, EditorTyped, Counters
<1>7. QED
  BY <1>3, <1>4, <1>5, <1>6 DEF new

(* The replacement of a call by the same one in another state.                  *)
LEMMA ReplaceCall ==
  ASSUME CallsTyped, NEW c \in calls, NEW d \in CallRecords, d.n = c.n, d.task = c.task, d.card = c.card,
         calls' = (calls \ {c}) \cup {d}
  PROVE  CallsTyped'
<1>1. IsFiniteSet(calls')
  BY FS_RemoveElement, FS_AddElement DEF CallsTyped
<1>2. QED
  BY <1>1 DEF CallsTyped

LEMMA RenderTyped ==
  ASSUME NEW f \in Scenes, NEW s \in Scenes, NEW m \in Snaps, Render(f, s, m)
  PROVE  form' \in Scenes /\ synced' \in Scenes /\ timer' \in BOOLEAN /\ (timer' => form' # m.scene)
         /\ (form' = m.scene => synced' = m.scene)
         /\ (f = s => form' = m.scene)
BY DEF Render, Snaps

LEMMA SceneOf == Old \in Scenes /\ Texts \subseteq Scenes /\ \A i \in Targets("opening_prompt") : Reply[i].arg \in Scenes
BY DEF Scenes, Args

LEMMA StudioInitTyped == StudioInit => StudioTyped
<1> SUFFICES ASSUME StudioInit PROVE StudioTyped
  OBVIOUS
<1>1. EditorTyped
  BY SceneOf DEF StudioInit, EditorTyped, Snaps
<1>2. StoreTyped /\ CallsTyped
  <2>1. db \in [scene: Scenes, schema: SUBSET Args("state_field"), made: Nat, left: SUBSET Nat] /\ db.left = {}
    BY SceneOf DEF StudioInit
  <2>2. QED
    BY <2>1, FS_EmptySet DEF StudioInit, StoreTyped, CallsTyped
<1>3. ApplierTyped
  <2>1. Free \in TaskRecords
    BY Limits DEF Free, TaskRecords
  <2>2. QED
    BY <2>1 DEF StudioInit, ApplierTyped
<1>4. ChatTyped
  <2> DEFINE kept(k) == {[id |-> 0, key |-> k, text |-> "reply"]}
  <2>1. \A k \in Modes : kept(k) \in SUBSET Message
    BY Limits DEF Message
  <2>2. saved = [k \in Modes |-> kept(k)]
    BY DEF StudioInit
  <2> HIDE DEF kept
  <2>3. saved \in [Modes -> SUBSET Message]
    BY <2>1, <2>2
  <2>4. messages \in SUBSET Message
    BY <2>3 DEF StudioInit, Modes
  <2>5. rereading \in BOOLEAN /\ read \subseteq Message
    BY DEF StudioInit
  <2>6. QED
    <3>1. mode \in Modes /\ isStreaming \in BOOLEAN
      BY DEF StudioInit, Modes
    <3>2. streams = {} /\ cancel = 0 /\ sent = 0
      BY DEF StudioInit
    <3>3. QED
      BY <2>3, <2>4, <2>5, <3>1, <3>2, Limits DEF ChatTyped
<1>5. Counters
  <2>1. acts = 0 /\ faults = 0
    BY DEF StudioInit
  <2>2. unsettled \in BOOLEAN
    BY DEF StudioInit
  <2>3. QED
    BY <2>1, <2>2, Limits DEF Counters
<1>6. QED
  BY <1>1, <1>2, <1>3, <1>4, <1>5 DEF StudioTyped

LEMMA Unmoved ==
  /\ StoreTyped /\ UNCHANGED database => StoreTyped'
  /\ CallsTyped /\ UNCHANGED calls => CallsTyped'
  /\ ApplierTyped /\ UNCHANGED applier => ApplierTyped'
  /\ ChatTyped /\ UNCHANGED chat => ChatTyped'
  /\ EditorTyped /\ UNCHANGED <<cache, isSaving, mounted, editor>> => EditorTyped'
  /\ Counters /\ UNCHANGED <<acts, faults, unsettled>> => Counters'
<1>1. StoreTyped /\ UNCHANGED database => StoreTyped'
  BY DEF StoreTyped, database
<1>2. CallsTyped /\ UNCHANGED calls => CallsTyped'
  BY DEF CallsTyped
<1>3. ApplierTyped /\ UNCHANGED applier => ApplierTyped'
  BY DEF ApplierTyped, applier
<1>4. ChatTyped /\ UNCHANGED chat => ChatTyped'
  BY DEF ChatTyped, chat
<1>5. EditorTyped /\ UNCHANGED <<cache, isSaving, mounted, editor>> => EditorTyped'
  BY DEF EditorTyped, editor
<1>6. Counters /\ UNCHANGED <<acts, faults, unsettled>> => Counters'
  BY DEF Counters
<1>7. QED
  BY <1>1, <1>2, <1>3, <1>4, <1>5, <1>6

(* The user's action is counted. *)
LEMMA ActCounted ==
  ASSUME Counters, Act
  PROVE  acts' \in 0..MaxActs /\ faults' \in 0..MaxFaults
BY Limits DEF Counters, Act

LEMMA EditTyped ==
  ASSUME StudioTyped, NEW text \in Texts, Edit(text)
  PROVE  StudioTyped'
<1>1. text \in Scenes /\ synced \in Scenes /\ cache \in Snaps /\ mounted /\ Render(text, synced, cache)
      /\ UNCHANGED <<database, cache, calls, isSaving, mounted, applier, chat, unsettled>>
  BY SceneOf DEF Edit, Act, StudioTyped, EditorTyped
<1>2. EditorTyped'
  BY <1>1, RenderTyped DEF StudioTyped, EditorTyped
<1>3. Counters'
  BY <1>1, ActCounted DEF Edit, StudioTyped, Counters
<1>4. QED
  BY <1>1, <1>2, <1>3, Unmoved DEF StudioTyped

LEMMA SaveTyped ==
  ASSUME StudioTyped, AutoSave \/ HandleSave
  PROVE  StudioTyped'
<1> DEFINE change == [Change EXCEPT !.scene = form]
<1>1. change \in Changes
  BY DEF StudioTyped, EditorTyped, Change, Changes
<1>2. <<0, 0>> \in (0..MaxStreams) \X ({0} \cup DOMAIN Reply) /\ 0 \in 0..MaxTasks
  BY Limits
<1>3. Mutate("editor", 0, <<0, 0>>, change) /\ UNCHANGED <<database, cache, mounted, form, synced, applier, chat>>
  <2>1. CASE AutoSave
    BY <2>1 DEF AutoSave
  <2>2. CASE HandleSave
    BY <2>2 DEF HandleSave, editor
  <2>3. QED
    BY <2>1, <2>2
<1>t. timer' \in BOOLEAN /\ (timer' => timer)
  <2>1. CASE timer' = FALSE
    BY <2>1
  <2>2. CASE timer' = timer
    BY <2>2 DEF StudioTyped, EditorTyped
  <2>3. QED
    BY <2>1, <2>2 DEF AutoSave, HandleSave, editor
<1> HIDE DEF change
<1>4. CallsTyped' /\ isSaving' \in BOOLEAN /\ unsettled' \in BOOLEAN
  BY <1>1, <1>2, <1>3, MutateTyped
<1>5. EditorTyped'
  BY <1>3, <1>t, <1>4 DEF StudioTyped, EditorTyped
<1>6. acts' \in 0..MaxActs /\ faults' \in 0..MaxFaults
  BY ActCounted DEF AutoSave, HandleSave, StudioTyped, Counters
<1>7. Counters'
  BY <1>4, <1>6 DEF Counters
<1>8. QED
  BY <1>3, <1>4, <1>5, <1>7, Unmoved DEF StudioTyped

LEMMA WritesTyped ==
  ASSUME StoreTyped, NEW c \in CallRecords
  PROVE  /\ Writes(c) \in [scene: Scenes, schema: SUBSET Args("state_field"), made: Nat, left: SUBSET Nat]
         /\ Writes(c).left \subseteq 1..Writes(c).made
         /\ c.hook = "entity" => Writes(c).made # 0
<1> DEFINE Row == [scene: Scenes, schema: SUBSET Args("state_field"), made: Nat, left: SUBSET Nat]
<1>1. db \in Row /\ db.left \subseteq 1..db.made /\ db.made \in Nat
  BY DEF StoreTyped
<1>2. CASE c.hook = "entity"
  <2> DEFINE made == db.made + 1
             left == db.left \cup {made}
  <2>1. Writes(c) = [db EXCEPT !.made = made, !.left = left]
    BY <1>2 DEF Writes
  <2>2. made \in Nat /\ made # 0 /\ left \subseteq 1..made /\ left \subseteq Nat
    BY <1>1
  <2> HIDE DEF made, left
  <2>3. QED
    BY <1>1, <2>1, <2>2
<1>3. CASE c.hook = "delete"
  BY <1>1, <1>3 DEF Writes
<1>4. CASE c.hook \in {"fact", "fetch"}
  BY <1>1, <1>4 DEF Writes
<1>5. CASE c.hook \in {"editor", "applier"}
  <2> DEFINE scene == IF c.scene = Keep THEN db.scene ELSE c.scene
             schema == IF c.schema = {} THEN db.schema ELSE c.schema
  <2>1. scene \in Scenes /\ schema \subseteq Args("state_field")
    BY <1>1 DEF CallRecords
  <2>2. Writes(c) = [db EXCEPT !.scene = scene, !.schema = schema]
    BY <1>5 DEF Writes
  <2> HIDE DEF scene, schema
  <2>3. QED
    BY <1>1, <1>5, <2>1, <2>2
<1>6. QED
  BY <1>2, <1>3, <1>4, <1>5 DEF CallRecords

(* The call after the service has done it.                                      *)
Served(c) ==
    [c EXCEPT !.st = "ok", !.snap = [scene |-> db'.scene, schema |-> db'.schema],
              !.id = IF c.hook = "entity" THEN db'.made ELSE c.id]

LEMMA ServedTyped ==
  ASSUME StudioTyped, NEW c \in calls, ServeCall(c)
  PROVE  /\ StoreTyped' /\ Served(c) \in CallRecords /\ calls' = (calls \ {c}) \cup {Served(c)}
         /\ Served(c).n = c.n /\ Served(c).task = c.task /\ Served(c).card = c.card /\ Served(c).hook = c.hook
         /\ Served(c).st = "ok" /\ (c.hook = "entity" => Served(c).id # 0)
         /\ wrote \subseteq wrote' /\ (c.task # 0 => c.card \in wrote')
<1> DEFINE snap == [scene |-> db'.scene, schema |-> db'.schema]
           id == IF c.hook = "entity" THEN db'.made ELSE c.id
<1>1. c \in CallRecords /\ db' = Writes(c) /\ (c.task # 0 => c.card \in Cards)
  BY DEF StudioTyped, CallsTyped, ServeCall
<1>2. /\ db' \in [scene: Scenes, schema: SUBSET Args("state_field"), made: Nat, left: SUBSET Nat]
      /\ db'.left \subseteq 1..db'.made /\ (c.hook = "entity" => db'.made # 0)
  BY <1>1, WritesTyped DEF StudioTyped
<1>3. snap \in Snaps /\ id \in Nat /\ (c.hook = "entity" => id # 0)
  BY <1>1, <1>2 DEF Snaps, CallRecords
<1>4. wrote' = wrote \cup (IF c.task = 0 THEN {} ELSE {c.card})
  BY DEF ServeCall
<1>5. StoreTyped'
  BY <1>1, <1>2, <1>4 DEF StudioTyped, StoreTyped
<1>6. Served(c) = [c EXCEPT !.st = "ok", !.snap = snap, !.id = id]
  BY DEF Served
<1>7. calls' = (calls \ {c}) \cup {Served(c)}
  BY DEF ServeCall, Served
<1> HIDE DEF snap, id
<1>8. QED
  BY <1>1, <1>3, <1>4, <1>5, <1>6, <1>7 DEF CallRecords

LEMMA ServeTyped ==
  ASSUME StudioTyped, NEW c \in calls, ServeCall(c)
  PROVE  StudioTyped'
<1>1. CallsTyped'
  BY ServedTyped, ReplaceCall DEF StudioTyped
<1>2. UNCHANGED <<cache, isSaving, mounted, editor, applier, chat, acts, faults, unsettled>>
  BY DEF ServeCall
<1>3. QED
  BY <1>1, <1>2, ServedTyped, Unmoved DEF StudioTyped

LEMMA FailedTyped ==
  ASSUME StudioTyped, NEW c \in calls, Fail(c)
  PROVE  StudioTyped'
<1> DEFINE d == [c EXCEPT !.st = "no"]
<1>1. c \in CallRecords
  BY DEF StudioTyped, CallsTyped
<1>2. d \in CallRecords /\ d.n = c.n /\ d.task = c.task /\ d.card = c.card
  BY <1>1 DEF CallRecords
<1>3. calls' = (calls \ {c}) \cup {d}
      /\ UNCHANGED <<database, cache, isSaving, mounted, editor, applier, chat, acts>>
  BY DEF Fail
<1> HIDE DEF d
<1>4. CallsTyped'
  BY <1>2, <1>3, ReplaceCall DEF StudioTyped
<1>5. faults' \in 0..MaxFaults
  BY Limits DEF Fail, StudioTyped, Counters
<1>6. unsettled' \in BOOLEAN
  BY DEF Fail, StudioTyped, Counters
<1>7. Counters'
  BY <1>3, <1>5, <1>6 DEF StudioTyped, Counters
<1>8. QED
  BY <1>3, <1>4, <1>7, Unmoved DEF StudioTyped

(* The answer to a call that still has its callbacks.                           *)
LEMMA AnswerTyped ==
  ASSUME StudioTyped, NEW c \in calls, Answer(c)
  PROVE  StudioTyped'
<1>1. /\ c \in CallRecords /\ c.st \in {"ok", "no"} /\ calls' = calls \ {c} /\ HookCallback(c) /\ MutateCallback(c)
      /\ c.task # 0 => c.card \in Cards
      /\ UNCHANGED <<database, mounted, applied, chat, acts, faults, unsettled>>
  BY DEF StudioTyped, CallsTyped, Answer
<1>2. CallsTyped'
  BY <1>1, FS_RemoveElement DEF StudioTyped, CallsTyped
<1>3. EditorTyped'
  <2>1. cache' \in Snaps
    BY <1>1 DEF HookCallback, StudioTyped, EditorTyped, CallRecords
  <2>2. isSaving' \in BOOLEAN
    BY <1>1 DEF HookCallback, StudioTyped, EditorTyped
  <2>3. CASE mounted /\ cache' # cache
    <3>1. Render(form, synced, cache')
      BY <1>1, <2>3 DEF HookCallback
    <3>2. form' \in Scenes /\ synced' \in Scenes /\ timer' \in BOOLEAN /\ (timer' => form' # cache'.scene)
      BY <2>1, <3>1, RenderTyped DEF StudioTyped, EditorTyped
    <3>3. QED
      BY <1>1, <2>1, <2>2, <2>3, <3>2 DEF StudioTyped, EditorTyped
  <2>4. CASE ~(mounted /\ cache' # cache)
    <3>1. UNCHANGED <<form, synced, timer>>
      BY <1>1, <2>4 DEF HookCallback, editor
    <3>2. QED
      BY <1>1, <2>1, <2>2, <2>4, <3>1 DEF StudioTyped, EditorTyped
  <2>5. QED
    BY <2>3, <2>4
<1>4. ApplierTyped'
  <2>1. CASE ~c.last \/ c.task = 0
    <3>1. UNCHANGED applier
      BY <1>1, <2>1 DEF MutateCallback, applier
    <3>2. QED
      BY <3>1, Unmoved DEF StudioTyped
  <2>2. CASE c.last /\ c.task # 0
    <3>1. c.task \in 1..MaxTasks /\ c.id \in Nat
      BY <1>1, <2>2, Limits DEF CallRecords
    <3>2. tasks' \in [1..MaxTasks -> TaskRecords]
      <4>1. tasks' = [tasks EXCEPT ![c.task].st = "ready"]
        BY <1>1, <2>2 DEF MutateCallback
      <4>2. QED
        BY <3>1, <4>1 DEF StudioTyped, ApplierTyped, TaskRecords
    <3>3. temp' \in [Args("entity") -> Nat]
      BY <1>1, <2>2, <3>1 DEF MutateCallback, StudioTyped, ApplierTyped
    <3>4. reported' \subseteq Reports
      <4>1. tasks[c.task].all \in BOOLEAN
        BY <3>1 DEF StudioTyped, ApplierTyped, TaskRecords
      <4>2. [card |-> c.card, why |-> "refused", all |-> tasks[c.task].all] \in Reports
        BY <1>1, <2>2, <4>1 DEF Reports
      <4>3. reported' \subseteq reported \cup {[card |-> c.card, why |-> "refused", all |-> tasks[c.task].all]}
        BY <1>1, <2>2 DEF MutateCallback, Report
      <4>4. QED
        BY <4>2, <4>3 DEF StudioTyped, ApplierTyped
    <3>5. QED
      BY <1>1, <3>2, <3>3, <3>4 DEF StudioTyped, ApplierTyped
  <2>3. QED
    BY <2>1, <2>2
<1>5. QED
  BY <1>1, <1>2, <1>3, <1>4, Unmoved DEF StudioTyped

LEMMA BeginTyped ==
  ASSUME StudioTyped, NEW t \in 1..MaxTasks, NEW m \in 0..MaxStreams, NEW cards, cards \subseteq DOMAIN Reply,
         NEW all \in BOOLEAN, NEW queue, queue \subseteq DOMAIN Reply, Begin(t, m, cards, all, queue), Act
  PROVE  StudioTyped'
<1> DEFINE new == [msg |-> m, cards |-> cards, all |-> all, queue |-> queue, schema |-> cache.schema, st |-> "ready"]
<1>1. new \in TaskRecords
  BY DEF TaskRecords, StudioTyped, EditorTyped, Snaps
<1>2. /\ tasks' = [tasks EXCEPT ![t] = new]
      /\ UNCHANGED <<database, cache, calls, isSaving, mounted, editor, temp, applied, reported, chat, unsettled>>
  BY DEF Begin
<1> HIDE DEF new
<1>3. ApplierTyped'
  BY <1>1, <1>2 DEF StudioTyped, ApplierTyped
<1>4. Counters'
  BY <1>2, ActCounted DEF StudioTyped, Counters
<1>5. QED
  BY <1>2, <1>3, <1>4, Unmoved DEF StudioTyped

LEMMA ApplyTyped ==
  ASSUME StudioTyped, NEW t \in 1..MaxTasks, NEW m \in 0..MaxStreams,
         ApplyAll(t, m) \/ \E i \in DOMAIN Reply : ApplyBlock(t, m, i)
  PROVE  StudioTyped'
<1>1. CASE ApplyAll(t, m)
  BY <1>1, BeginTyped DEF ApplyAll, Applicable
<1>2. ASSUME NEW i \in DOMAIN Reply, ApplyBlock(t, m, i) PROVE StudioTyped'
  <2> DEFINE cards == IF Reply[i].target = "delete" THEN {} ELSE {i}
  <2>1. cards \subseteq DOMAIN Reply /\ {i} \subseteq DOMAIN Reply /\ Begin(t, m, cards, FALSE, {i}) /\ Act
    BY <1>2 DEF ApplyBlock
  <2> HIDE DEF cards
  <2>2. QED
    BY <2>1, BeginTyped
<1>3. QED
  BY <1>1, <1>2

(* What the next block of an application is, and what it asks for.              *)
LEMMA NextBlockTyped ==
  ASSUME StudioTyped, NEW t \in 1..MaxTasks, NextBlock(t)
  PROVE  LET i == BatchOrder(tasks[t].queue)
         IN  /\ i \in tasks[t].queue /\ i \in DOMAIN Reply /\ tasks[t].msg \in 0..MaxStreams
             /\ <<tasks[t].msg, i>> \in Cards /\ tasks[t].all \in BOOLEAN
             /\ BlockChange(t, i) \in Changes
             /\ Reply[i].target \in Supported => HookOf(i) \in {"applier", "entity", "fact", "delete"}
             /\ HookOf(i) = "entity" <=> Reply[i].target = "entity"
<1> DEFINE i == BatchOrder(tasks[t].queue)
<1>1. tasks[t] \in TaskRecords /\ tasks[t].queue # {}
  BY DEF NextBlock, StudioTyped, ApplierTyped
<1>2. /\ tasks[t].msg \in 0..MaxStreams /\ tasks[t].queue \subseteq DOMAIN Reply /\ tasks[t].all \in BOOLEAN
      /\ tasks[t].schema \subseteq Args("state_field")
  BY <1>1 DEF TaskRecords
<1>3. i \in tasks[t].queue /\ i \in DOMAIN Reply
  BY <1>1, <1>2, BatchOrderIn
<1> HIDE DEF i
<1>4. i \in Targets(Reply[i].target)
  BY <1>3 DEF Targets
<1>5. /\ Reply[i].target \in Supported => HookOf(i) \in {"applier", "entity", "fact", "delete"}
      /\ HookOf(i) = "entity" <=> Reply[i].target = "entity"
  BY DEF HookOf, Supported, TextTargets
<1>6. Reply[i].arg \in Args(Reply[i].target)
  BY <1>4 DEF Args
<1>7. Change \in Changes
  BY DEF Change, Changes
<1>8. BlockChange(t, i) \in Changes
  <2>1. CASE Reply[i].target = "fact"
    <3>1. Resolve(Reply[i].arg) \in Nat /\ Resolve(Reply[i].obj) \in Nat
      BY DEF Resolve, StudioTyped, ApplierTyped
    <3>2. QED
      BY <1>7, <2>1, <3>1 DEF BlockChange, Changes
  <2>2. CASE Reply[i].target = "delete"
    <3>1. Reply[i].arg \in Nat
      BY <1>6, <2>2, StudioAssumption
    <3>2. QED
      BY <1>7, <2>2, <3>1 DEF BlockChange, Changes
  <2>3. CASE Reply[i].target = "state_field"
    <3> DEFINE schema == tasks[t].schema \cup {Reply[i].arg}
    <3>1. schema \in SUBSET Args("state_field")
      BY <1>2, <1>6, <2>3
    <3>2. BlockChange(t, i) = [Change EXCEPT !.schema = schema]
      BY <2>3 DEF BlockChange
    <3> HIDE DEF schema
    <3>3. QED
      BY <1>7, <3>1, <3>2 DEF Changes
  <2>4. CASE Reply[i].target = "opening_prompt"
    <3>1. Reply[i].arg \in Scenes
      BY <1>4, <2>4, SceneOf
    <3>2. QED
      BY <1>7, <2>4, <3>1 DEF BlockChange, Changes
  <2>5. CASE Reply[i].target \notin {"fact", "delete", "state_field", "opening_prompt"}
    BY <1>7, <2>5 DEF BlockChange
  <2>6. QED
    BY <2>1, <2>2, <2>3, <2>4, <2>5
<1>9. QED
  BY <1>2, <1>3, <1>5, <1>8 DEF i, Cards

LEMMA NextBlockKeepsTypes ==
  ASSUME StudioTyped, NEW t \in 1..MaxTasks, NextBlock(t)
  PROVE  StudioTyped'
<1> DEFINE i == BatchOrder(tasks[t].queue)
           rest == [tasks[t] EXCEPT !.queue = @ \ {i}]
<1>1. /\ i \in DOMAIN Reply /\ <<tasks[t].msg, i>> \in Cards /\ tasks[t].all \in BOOLEAN
      /\ BlockChange(t, i) \in Changes
      /\ Reply[i].target \in Supported => HookOf(i) \in {"applier", "entity", "fact", "delete"}
      /\ tasks[t].msg \in 0..MaxStreams
  BY NextBlockTyped
<1>2. \/ /\ tasks' = [tasks EXCEPT ![t] = rest]
         /\ \E why \in {"refused", "unresolved"} : Report(t, <<tasks[t].msg, i>>, why)
         /\ UNCHANGED <<calls, isSaving, unsettled>>
      \/ tasks' = [tasks EXCEPT ![t] = rest] /\ UNCHANGED <<calls, isSaving, unsettled, reported>>
      \/ /\ Reply[i].target \in Supported /\ tasks' = [tasks EXCEPT ![t] = [rest EXCEPT !.st = "waiting"]]
         /\ Mutate(HookOf(i), t, <<tasks[t].msg, i>>, BlockChange(t, i))
         /\ UNCHANGED reported
  BY DEF NextBlock
<1>3. UNCHANGED <<database, cache, mounted, editor, temp, applied, chat, acts, faults>>
  BY DEF NextBlock
<1>4. tasks[t] \in TaskRecords
  BY DEF StudioTyped, ApplierTyped
<1> HIDE DEF i
<1>5. rest \in TaskRecords /\ [rest EXCEPT !.st = "waiting"] \in TaskRecords
  BY <1>4 DEF TaskRecords
<1> HIDE DEF rest
<1>6. tasks' \in [1..MaxTasks -> TaskRecords]
  BY <1>2, <1>5 DEF StudioTyped, ApplierTyped
<1>7. reported' \subseteq Reports
  <2>1. \A why \in {"refused", "unresolved"} :
            [card |-> <<tasks[t].msg, i>>, why |-> why, all |-> tasks[t].all] \in Reports
    BY <1>1 DEF Reports
  <2>2. QED
    BY <1>2, <2>1 DEF Report, StudioTyped, ApplierTyped
<1>8. CallsTyped' /\ isSaving' \in BOOLEAN /\ unsettled' \in BOOLEAN
  <2>1. CASE UNCHANGED <<calls, isSaving, unsettled>>
    BY <2>1, Unmoved DEF StudioTyped, EditorTyped, Counters
  <2>2. CASE Reply[i].target \in Supported /\ Mutate(HookOf(i), t, <<tasks[t].msg, i>>, BlockChange(t, i))
    <3>1. <<tasks[t].msg, i>> \in (0..MaxStreams) \X ({0} \cup DOMAIN Reply) /\ t \in 0..MaxTasks
      BY <1>1, Limits
    <3>2. HookOf(i) \in {"editor", "applier", "fetch", "entity", "fact", "delete"}
      BY <1>1, <2>2
    <3>3. QED
      BY <1>1, <2>2, <3>1, <3>2, MutateTyped
  <2>3. QED
    BY <1>2, <2>1, <2>2
<1>9. EditorTyped'
  BY <1>3, <1>8 DEF StudioTyped, EditorTyped, editor
<1>10. ApplierTyped'
  BY <1>3, <1>6, <1>7 DEF StudioTyped, ApplierTyped
<1>11. Counters'
  BY <1>3, <1>8 DEF StudioTyped, Counters
<1>12. QED
  BY <1>3, <1>8, <1>9, <1>10, <1>11, Unmoved DEF StudioTyped

LEMMA FreeTyped == Free \in TaskRecords
BY Limits DEF Free, TaskRecords

LEMMA FinishTyped ==
  ASSUME StudioTyped, NEW t \in 1..MaxTasks, Finish(t)
  PROVE  StudioTyped'
<1>1. /\ applied' = applied \cup {<<tasks[t].msg, i>> : i \in tasks[t].cards}
      /\ tasks' = [tasks EXCEPT ![t] = Free]
      /\ UNCHANGED <<database, cache, calls, isSaving, mounted, editor, temp, reported, chat, acts, faults, unsettled>>
  BY DEF Finish
<1>2. tasks[t].msg \in 0..MaxStreams /\ tasks[t].cards \subseteq DOMAIN Reply
  BY DEF StudioTyped, ApplierTyped, TaskRecords
<1>3. applied' \subseteq Cards
  BY <1>1, <1>2 DEF StudioTyped, ApplierTyped, Cards
<1>4. ApplierTyped'
  BY <1>1, <1>3, FreeTyped DEF StudioTyped, ApplierTyped
<1>5. QED
  BY <1>1, <1>4, Unmoved DEF StudioTyped

(* The chat. *)

LEMMA ShowTyped ==
  ASSUME ChatTyped, NEW msgs, msgs \subseteq Message, Show(mode, msgs)
  PROVE  messages' \subseteq Message /\ saved' \in [Modes -> SUBSET Message]
BY DEF ChatTyped, Show

LEMMA RevisedTyped ==
  ASSUME ChatTyped, NEW m \in messages, NEW text \in {"reply", "error"}
  PROVE  [m EXCEPT !.text = text] \in Message /\ m \in Message
BY DEF ChatTyped, Message

LEMMA EventTyped ==
  ASSUME StudioTyped, NEW s \in streams, Chunk(s) \/ Done(s) \/ ErrorEvent(s) \/ OnError(s) \/ OnClose(s)
  PROVE  StudioTyped'
<1>1. /\ UNCHANGED <<rereading, read, mode, cancel, sent, acts, faults, applier, database, cache, calls, isSaving, mounted, editor, unsettled>>
  BY DEF Chunk, Done, ErrorEvent, OnError, OnClose, Event, Quiet
<1>2. \/ UNCHANGED <<messages, saved>>
      \/ Show(mode, Revise(s.id, "reply")) \/ Show(mode, Revise(s.id, "error"))
      \/ Show(mode, {IF m.id = s.id /\ m.text = "" THEN [m EXCEPT !.text = "error"] ELSE m : m \in messages})
  BY DEF Chunk, Done, ErrorEvent, OnError, OnClose
<1>3. messages' \subseteq Message /\ saved' \in [Modes -> SUBSET Message]
  <2>1. Revise(s.id, "reply") \subseteq Message /\ Revise(s.id, "error") \subseteq Message
    BY RevisedTyped DEF Revise, StudioTyped
  <2>2. {IF m.id = s.id /\ m.text = "" THEN [m EXCEPT !.text = "error"] ELSE m : m \in messages} \subseteq Message
    BY RevisedTyped DEF StudioTyped
  <2>3. QED
    BY <1>2, <2>1, <2>2, ShowTyped DEF StudioTyped, ChatTyped
<1>4. isStreaming' \in BOOLEAN
  BY DEF Chunk, Done, ErrorEvent, OnError, OnClose, StudioTyped, ChatTyped
<1>5. streams' \subseteq [id: 1..MaxStreams, st: {"open", "done"}]
  <2>1. \/ streams' = streams \/ streams' = streams \ {s}
        \/ streams' = (streams \ {s}) \cup {[s EXCEPT !.st = "done"]}
    BY DEF Chunk, Done, ErrorEvent, OnError, OnClose
  <2>2. [s EXCEPT !.st = "done"] \in [id: 1..MaxStreams, st: {"open", "done"}]
    BY DEF StudioTyped, ChatTyped
  <2>3. QED
    BY <2>1, <2>2 DEF StudioTyped, ChatTyped
<1>6. ChatTyped'
  BY <1>1, <1>3, <1>4, <1>5 DEF StudioTyped, ChatTyped
<1>7. QED
  BY <1>1, <1>6, Unmoved DEF StudioTyped

LEMMA ChatStepTyped ==
  ASSUME StudioTyped, SendMessage \/ StopGeneration \/ ClearChat \/ SetMode \/ Rerender
  PROVE  StudioTyped'
<1>1. UNCHANGED <<applier, database, cache, calls, isSaving, mounted, editor, unsettled>>
  BY DEF SendMessage, StopGeneration, ClearChat, SetMode, Rerender, Quiet
<1>2. acts' \in 0..MaxActs /\ faults' \in 0..MaxFaults
  BY ActCounted DEF SendMessage, StopGeneration, ClearChat, SetMode, Rerender, StudioTyped, Counters
<1>3. Counters'
  BY <1>1, <1>2 DEF StudioTyped, Counters
<1>4. ChatTyped'
  <2>1. CASE SendMessage
    <3>1. sent + 1 \in 1..MaxStreams /\ sent + 1 \in 0..MaxStreams /\ sent' = sent + 1 /\ cancel' = sent + 1
      <4>1. sent \in 0..MaxStreams /\ sent < MaxStreams /\ sent' = sent + 1 /\ cancel' = sent + 1
        BY <2>1 DEF SendMessage, StudioTyped, ChatTyped
      <4>2. QED
        BY <4>1, Limits
    <3> DEFINE msg == [id |-> sent + 1, key |-> mode, text |-> ""]
               new == [id |-> sent + 1, st |-> "open"]
    <3>2. msg \in Message /\ new \in [id: 1..MaxStreams, st: {"open", "done"}]
      BY <3>1 DEF Message, StudioTyped, ChatTyped
    <3>3. /\ Show(mode, messages \cup {msg}) /\ streams' = streams \cup {new} /\ isStreaming' = TRUE /\ mode' = mode
      BY <2>1 DEF SendMessage
    <3> HIDE DEF msg, new
    <3>4. messages' \subseteq Message /\ saved' \in [Modes -> SUBSET Message]
      BY <3>2, <3>3, ShowTyped DEF StudioTyped, ChatTyped
    <3>5. streams' \subseteq [id: 1..MaxStreams, st: {"open", "done"}]
      BY <3>2, <3>3 DEF StudioTyped, ChatTyped
    <3>6. isStreaming' \in BOOLEAN
      BY <3>3
    <3>7. mode' \in Modes
      BY <3>3 DEF StudioTyped, ChatTyped
    <3>8. rereading' \in BOOLEAN /\ read' \subseteq Message
      BY <2>1 DEF SendMessage, Forget
    <3>9. QED
      BY <3>1, <3>4, <3>5, <3>6, <3>7, <3>8 DEF ChatTyped
  <2>2. ASSUME Hush, UNCHANGED sent, mode' \in Modes, messages' \subseteq Message, saved' \in [Modes -> SUBSET Message],
               rereading' \in BOOLEAN, read' \subseteq Message
        PROVE  ChatTyped'
    <3>1. streams' \subseteq streams /\ cancel' = 0 /\ isStreaming' \in BOOLEAN
      BY <2>2 DEF Hush, Cancelled
    <3>2. cancel' \in 0..MaxStreams
      BY <3>1, Limits
    <3>3. QED
      BY <2>2, <3>1, <3>2 DEF StudioTyped, ChatTyped
  <2>3. CASE StopGeneration
    BY <2>2, <2>3 DEF StopGeneration, StudioTyped, ChatTyped
  <2>4. CASE ClearChat
    <3>1. messages' \subseteq Message /\ saved' \in [Modes -> SUBSET Message]
      BY <2>4, ShowTyped DEF ClearChat, StudioTyped
    <3>2. rereading' \in BOOLEAN /\ read' \subseteq Message
      BY <2>4 DEF ClearChat, Forget
    <3>3. Hush /\ UNCHANGED sent /\ mode' \in Modes
      BY <2>4 DEF ClearChat, StudioTyped, ChatTyped
    <3>4. QED
      BY <2>2, <3>1, <3>2, <3>3
  <2>5. CASE SetMode
    <3>1. mode' = "master" /\ "master" \in Modes /\ Hush /\ UNCHANGED <<sent, messages>>
      BY <2>5 DEF SetMode, KeyEffects, Modes
    <3>2. /\ saved' = [saved EXCEPT !["master"] = messages] /\ read' = saved["master"]
          /\ rereading' \in BOOLEAN
      BY <2>5 DEF SetMode, KeyEffects
    <3>3. messages' \subseteq Message /\ saved' \in [Modes -> SUBSET Message] /\ read' \subseteq Message
      BY <3>1, <3>2 DEF StudioTyped, ChatTyped
    <3>4. QED
      BY <2>2, <3>1, <3>2, <3>3
  <2>6. CASE Rerender
    <3>1. messages' \subseteq Message /\ saved' \in [Modes -> SUBSET Message]
      BY <2>6, ShowTyped DEF Rerender, StudioTyped, ChatTyped
    <3>2. rereading' \in BOOLEAN /\ read' \subseteq Message
      BY <2>6 DEF Rerender, Forget
    <3>3. UNCHANGED <<mode, isStreaming, streams, cancel, sent>>
      BY <2>6 DEF Rerender
    <3>4. QED
      BY <3>1, <3>2, <3>3 DEF StudioTyped, ChatTyped
  <2>7. QED
    BY <2>1, <2>3, <2>4, <2>5, <2>6
<1>5. QED
  BY <1>1, <1>3, <1>4, Unmoved DEF StudioTyped

(* Leaving and coming back. *)

LEMMA LeaveTyped ==
  ASSUME StudioTyped, Leave
  PROVE  StudioTyped'
<1> DEFINE Op(c) == [c EXCEPT !.last = FALSE, !.task = 0]
           f == [c \in calls |-> Op(c)]
<1>1. /\ calls' = {Op(c) : c \in calls} /\ mounted' = FALSE /\ timer' = FALSE
      /\ UNCHANGED <<database, cache, isSaving, form, synced, saved, sent>>
  BY DEF Leave
<1>2. \A c \in calls : Op(c) \in CallRecords /\ Op(c).n = c.n /\ Op(c).task = 0
  <2>1. 0 \in 0..MaxTasks
    BY Limits
  <2>2. QED
    BY <2>1 DEF StudioTyped, CallsTyped, CallRecords
<1>3. f \in Surjection(calls, calls')
  BY <1>1 DEF Surjection
<1>4. IsFiniteSet(calls')
  BY <1>3, FS_Surjection DEF StudioTyped, CallsTyped
<1>5. \A c, d \in calls : c.n = d.n => Op(c) = Op(d)
  BY DEF StudioTyped, CallsTyped
<1> HIDE DEF Op, f
<1>6. CallsTyped'
  BY <1>1, <1>2, <1>4, <1>5 DEF CallsTyped
<1>7. EditorTyped'
  BY <1>1 DEF StudioTyped, EditorTyped
<1>8. ApplierTyped'
  <2>1. /\ tasks' = [t \in 1..MaxTasks |-> Free] /\ temp' = [t \in Args("entity") |-> 0] /\ applied' = {} /\ reported' = {}
    BY DEF Leave
  <2>2. QED
    BY <2>1, FreeTyped DEF ApplierTyped
<1>9. ChatTyped'
  <2>1. messages' = {} /\ isStreaming' \in BOOLEAN /\ streams' = {} /\ mode' \in Modes /\ UNCHANGED <<saved, sent>>
    BY DEF Leave
  <2>2. cancel' \in 0..MaxStreams
    <3>1. cancel' = 0
      BY DEF Leave
    <3>2. QED
      BY <3>1, Limits
  <2>3. rereading' \in BOOLEAN /\ read' \subseteq Message
    BY DEF Leave, Forget
  <2>4. QED
    BY <2>1, <2>2, <2>3 DEF StudioTyped, ChatTyped
<1>10. Counters'
  <2>1. acts' \in 0..MaxActs /\ faults' \in 0..MaxFaults
    BY ActCounted DEF Leave, StudioTyped
  <2>2. unsettled' \in BOOLEAN
    BY DEF Leave, StudioTyped, Counters
  <2>3. QED
    BY <2>1, <2>2 DEF Counters
<1>11. QED
  BY <1>1, <1>6, <1>7, <1>8, <1>9, <1>10, Unmoved DEF StudioTyped

LEMMA OpenTyped ==
  ASSUME StudioTyped, NEW stale \in BOOLEAN, Open(stale)
  PROVE  StudioTyped'
<1>1. /\ mounted' = TRUE /\ form' = cache.scene /\ synced' = cache.scene /\ timer' = FALSE /\ messages' = saved[mode]
      /\ UNCHANGED <<database, cache, applier, saved, rereading, read, mode, isStreaming, streams, cancel, sent, acts, faults>>
  BY DEF Open
<1>2. CallsTyped' /\ isSaving' \in BOOLEAN /\ unsettled' \in BOOLEAN
  <2>1. CASE stale
    <3>1. Change \in Changes
      BY DEF Change, Changes
    <3>2. <<0, 0>> \in (0..MaxStreams) \X ({0} \cup DOMAIN Reply) /\ 0 \in 0..MaxTasks
      BY Limits
    <3>3. Mutate("fetch", 0, <<0, 0>>, Change)
      BY <2>1 DEF Open
    <3>4. QED
      BY <3>1, <3>2, <3>3, MutateTyped
  <2>2. CASE ~stale
    BY <2>2, Unmoved DEF Open, StudioTyped, EditorTyped, Counters
  <2>3. QED
    BY <2>1, <2>2
<1>3. EditorTyped'
  <2>1. cache.scene \in Scenes
    BY DEF StudioTyped, EditorTyped, Snaps
  <2>2. mounted' \in BOOLEAN /\ timer' \in BOOLEAN /\ ~timer'
    BY <1>1
  <2>3. QED
    BY <1>1, <1>2, <2>1, <2>2 DEF StudioTyped, EditorTyped
<1>4. ChatTyped'
  BY <1>1 DEF StudioTyped, ChatTyped
<1>5. Counters'
  BY <1>1, <1>2 DEF StudioTyped, Counters
<1>6. QED
  BY <1>1, <1>2, <1>3, <1>4, <1>5, Unmoved DEF StudioTyped

LEMMA StudioStepTyped == StudioTyped /\ [StudioNext]_studioVars => StudioTyped'
<1> SUFFICES ASSUME StudioTyped, [StudioNext]_studioVars PROVE StudioTyped'
  OBVIOUS
<1>1. CASE EditorStep
  BY <1>1, EditTyped, SaveTyped DEF EditorStep
<1>2. CASE CallStep
  BY <1>2, ServeTyped, FailedTyped, AnswerTyped DEF CallStep
<1>3. CASE ApplierStep
  BY <1>3, NextBlockKeepsTypes, FinishTyped, ApplyTyped DEF ApplierStep
<1>4. CASE ChatStep
  BY <1>4, EventTyped, ChatStepTyped DEF ChatStep, StreamEvents
<1>5. CASE PageStep
  BY <1>5, LeaveTyped, OpenTyped DEF PageStep
<1>6. CASE UNCHANGED studioVars
  BY <1>6, Unmoved DEF studioVars, StudioTyped
<1>7. QED
  BY <1>1, <1>2, <1>3, <1>4, <1>5, <1>6 DEF StudioNext

-----------------------------------------------------------------------------
(* The editor: what equals the scenario is recorded as synced.                 *)

Followed == mounted /\ form = cache.scene => synced = cache.scene

LEMMA InitFollowed == StudioInit => Followed
BY DEF StudioInit, Followed

LEMMA StepFollowed ==
  ASSUME StudioTyped, Followed, [StudioNext]_studioVars
  PROVE  /\ Followed'
         /\ mounted /\ mounted' /\ form = cache.scene => form' = cache'.scene \/ cache' = cache
<1>1. CASE \E text \in Texts : Edit(text)
  <2>1. PICK text \in Texts : Edit(text)
    BY <1>1
  <2>2. text \in Scenes /\ synced \in Scenes /\ cache \in Snaps /\ Render(text, synced, cache) /\ cache' = cache
    BY <2>1, SceneOf DEF Edit, StudioTyped, EditorTyped
  <2>3. QED
    BY <2>2, RenderTyped DEF Followed
<1>2. CASE \E c \in calls : Answer(c)
  <2>1. PICK c \in calls : Answer(c)
    BY <1>2
  <2>2. HookCallback(c) /\ UNCHANGED mounted /\ c \in CallRecords
    BY <2>1 DEF Answer, StudioTyped, CallsTyped
  <2>3. CASE mounted /\ cache' # cache
    <3>1. Render(form, synced, cache') /\ cache' \in Snaps
      BY <2>2, <2>3 DEF HookCallback, CallRecords
    <3>2. /\ form' = cache'.scene => synced' = cache'.scene
          /\ form = synced => form' = cache'.scene
      BY <3>1, RenderTyped DEF StudioTyped, EditorTyped
    <3>3. QED
      BY <3>2 DEF Followed
  <2>4. CASE ~(mounted /\ cache' # cache)
    BY <2>2, <2>4 DEF HookCallback, editor, Followed
  <2>5. QED
    BY <2>3, <2>4
<1>3. CASE PageStep
  BY <1>3 DEF PageStep, Leave, Open, Followed
<1>4. CASE UNCHANGED <<mounted, form, synced, cache>>
  BY <1>4 DEF Followed
<1>5. CASE AutoSave \/ HandleSave
  BY <1>4, <1>5 DEF AutoSave, HandleSave, editor
<1>6. CASE \E c \in calls : ServeCall(c) \/ Fail(c)
  BY <1>4, <1>6 DEF ServeCall, Fail, editor
<1>7. CASE ApplierStep
  BY <1>4, <1>7 DEF ApplierStep, NextBlock, Finish, ApplyAll, ApplyBlock, Begin, editor
<1>8. CASE ChatStep
  BY <1>4, <1>8 DEF ChatStep, StreamEvents, SendMessage, StopGeneration, ClearChat, SetMode, Rerender, Chunk, Done, ErrorEvent,
     OnError, OnClose, Event, Quiet, editor
<1>9. CASE UNCHANGED studioVars
  BY <1>4, <1>9 DEF studioVars, editor
<1>10. QED
  BY <1>1, <1>2, <1>3, <1>5, <1>6, <1>7, <1>8, <1>9 DEF StudioNext, EditorStep, CallStep

-----------------------------------------------------------------------------
(* The chat: what is on screen is what is stored under its key, a page that is  *)
(* left has no stream, and a conversation is read only for the master's key.    *)

Stored ==
    /\ mounted => messages = saved[mode]
    /\ ~mounted => streams = {} /\ ~rereading
    /\ rereading => mode = "master"

NothingLost(k) ==
    \/ /\ \A m \in Held(k)' : m.key = k \/ \E n \in Held(k) : SameMessage(m, n)
       /\ \A m \in Held(k) : (\E n \in Held(k)' : SameMessage(m, n)) \/ (k = mode /\ Held(k)' = {} /\ cancel' = 0)
    \/ Torn(k)

LEMMA InitStored == StudioInit => Stored
BY DEF StudioInit, Stored, Modes

LEMMA SameHeld ==
  ASSUME NEW k, Held(k)' = Held(k)
  PROVE  NothingLost(k)
BY DEF NothingLost, SameMessage

LEMMA SameChat ==
  ASSUME Stored, UNCHANGED <<mounted, messages, saved, rereading, read, mode>>, streams' = streams \/ mounted
  PROVE  Stored' /\ \A k \in Modes : NothingLost(k)
<1>1. \A k \in Modes : Held(k)' = Held(k)
  BY DEF Held
<1>2. QED
  BY <1>1, SameHeld DEF Stored

(* What is shown on a mounted page is stored under the current key.            *)
LEMMA ShowStored ==
  ASSUME StudioTyped, Stored, mounted, UNCHANGED <<mounted, mode>>, ~rereading', NEW msgs, Show(mode, msgs),
         \/ /\ ~rereading /\ \A m \in msgs : m.key = mode \/ \E n \in messages : SameMessage(m, n)
            /\ \A m \in messages : \E n \in msgs : SameMessage(m, n)
         \/ msgs = {} /\ cancel' = 0
         \/ Torn(mode)
  PROVE  Stored' /\ \A k \in Modes : NothingLost(k)
<1>1. messages = saved[mode] /\ mode \in Modes /\ saved \in [Modes -> SUBSET Message]
  BY DEF Stored, StudioTyped, ChatTyped
<1>2. messages' = msgs /\ saved'[mode] = msgs /\ \A k \in Modes \ {mode} : saved'[k] = saved[k]
  BY <1>1 DEF Show
<1>3. ASSUME NEW k \in Modes \ {mode} PROVE NothingLost(k)
  <2>1. Held(k)' = Held(k)
    BY <1>2, <1>3 DEF Held
  <2>2. QED
    BY <2>1, SameHeld
<1>4. NothingLost(mode)
  <2>1. Held(mode)' = msgs /\ (~rereading => Held(mode) = messages)
    BY <1>1, <1>2 DEF Held
  <2>2. QED
    BY <2>1 DEF NothingLost
<1>5. Stored'
  BY <1>1, <1>2 DEF Stored
<1>6. QED
  BY <1>3, <1>4, <1>5

LEMMA EventStored ==
  ASSUME StudioTyped, Stored, NEW s \in streams, Chunk(s) \/ Done(s) \/ ErrorEvent(s) \/ OnError(s) \/ OnClose(s)
  PROVE  Stored' /\ \A k \in Modes : NothingLost(k)
<1>e. Event(s)
  BY DEF Chunk, Done, ErrorEvent, OnError, OnClose
<1>1. mounted /\ ~rereading /\ ~rereading' /\ UNCHANGED <<mounted, rereading, read, mode>>
  <2>1. ~rereading /\ s \in streams /\ UNCHANGED <<mounted, rereading, read, mode>>
    BY <1>e DEF Event, Quiet
  <2>2. ~rereading'
    BY <2>1
  <2>3. QED
    BY <2>1, <2>2 DEF Stored
<1>2. \A m \in messages : m \in Message
  BY DEF StudioTyped, ChatTyped
<1>3. CASE UNCHANGED <<messages, saved>>
  BY <1>1, <1>3, SameChat
<1>4. ASSUME NEW text \in {"reply", "error"}, Show(mode, Revise(s.id, text))
      PROVE  Stored' /\ \A k \in Modes : NothingLost(k)
  <2> DEFINE Fix(m) == IF m.id = s.id THEN [m EXCEPT !.text = text] ELSE m
             msgs == {Fix(m) : m \in messages}
  <2>1. \A m \in messages : Fix(m).id = m.id /\ Fix(m).key = m.key
    BY <1>2 DEF Message
  <2>2. Show(mode, msgs)
    BY <1>4 DEF Revise
  <2> HIDE DEF Fix
  <2>3. /\ \A m \in messages : \E n \in msgs : SameMessage(m, n)
        /\ \A m \in msgs : \E n \in messages : SameMessage(m, n)
    BY <2>1 DEF SameMessage
  <2> HIDE DEF msgs
  <2>4. QED
    BY <1>1, <2>2, <2>3, ShowStored
<1>5. CASE Show(mode, {IF m.id = s.id /\ m.text = "" THEN [m EXCEPT !.text = "error"] ELSE m : m \in messages})
  <2> DEFINE Fix(m) == IF m.id = s.id /\ m.text = "" THEN [m EXCEPT !.text = "error"] ELSE m
             msgs == {Fix(m) : m \in messages}
  <2>1. \A m \in messages : Fix(m).id = m.id /\ Fix(m).key = m.key
    BY <1>2 DEF Message
  <2>2. Show(mode, msgs)
    BY <1>5
  <2> HIDE DEF Fix
  <2>3. /\ \A m \in messages : \E n \in msgs : SameMessage(m, n)
        /\ \A m \in msgs : \E n \in messages : SameMessage(m, n)
    BY <2>1 DEF SameMessage
  <2> HIDE DEF msgs
  <2>4. QED
    BY <1>1, <2>2, <2>3, ShowStored
<1>6. QED
  BY <1>3, <1>4, <1>5 DEF Chunk, Done, ErrorEvent, OnError, OnClose

LEMMA ChatStepStored ==
  ASSUME StudioTyped, Stored, SendMessage \/ StopGeneration \/ ClearChat \/ SetMode \/ Rerender
  PROVE  Stored' /\ \A k \in Modes : NothingLost(k)
<1>1. mounted /\ UNCHANGED mounted
  BY DEF SendMessage, StopGeneration, ClearChat, SetMode, Rerender, Act, Quiet, Stored
<1>2. CASE SendMessage
  <2> DEFINE msg == [id |-> sent + 1, key |-> mode, text |-> ""]
  <2>1. Show(mode, messages \cup {msg}) /\ UNCHANGED mode /\ ~rereading'
    BY <1>2 DEF SendMessage, Forget
  <2>2. msg.key = mode /\ \A m : SameMessage(m, m)
    BY DEF SameMessage
  <2> HIDE DEF msg
  <2>3. CASE ~rereading
    BY <1>1, <2>1, <2>2, <2>3, ShowStored
  <2>4. CASE rereading
    <3>1. sent' = sent + 1
      BY <1>2 DEF SendMessage
    <3>i. sent \in 0..MaxStreams
      BY DEF StudioTyped, ChatTyped
    <3>2. sent' # sent
      BY <3>1, <3>i, Limits
    <3>3. QED
      BY <1>1, <2>1, <2>4, <3>2, ShowStored DEF Torn
  <2>5. QED
    BY <2>3, <2>4
<1>3. CASE StopGeneration
  BY <1>1, <1>3, SameChat DEF StopGeneration
<1>4. CASE ClearChat
  <2>1. Show(mode, {}) /\ UNCHANGED mode /\ cancel' = 0 /\ ~rereading'
    BY <1>4 DEF ClearChat, Hush, Forget
  <2>2. QED
    BY <1>1, <2>1, ShowStored
<1>5. CASE SetMode
  <2>1. /\ mode = "newbie" /\ mode' = "master" /\ messages' = messages /\ read' = saved["master"] /\ rereading'
        /\ saved' = [saved EXCEPT !["master"] = messages]
    BY <1>5 DEF SetMode, KeyEffects
  <2>2. saved'["master"] = messages /\ saved'["newbie"] = saved["newbie"] /\ ~rereading
    BY <2>1 DEF Stored, StudioTyped, ChatTyped, Modes
  <2>3. \A k \in Modes : Held(k)' = Held(k)
    BY <2>1, <2>2 DEF Held, Modes
  <2>4. QED
    BY <1>1, <2>1, <2>2, <2>3, SameHeld DEF Stored
<1>6. CASE Rerender
  <2>1. rereading /\ ~rereading' /\ messages' = read /\ saved' = [saved EXCEPT ![mode] = read] /\ UNCHANGED mode
    BY <1>6 DEF Rerender, Forget, Show
  <2>2. saved'[mode] = read /\ \A k \in Modes \ {mode} : saved'[k] = saved[k]
    BY <2>1 DEF StudioTyped, ChatTyped
  <2>3. \A k \in Modes : Held(k)' = Held(k)
    BY <2>1, <2>2 DEF Held
  <2>4. QED
    BY <1>1, <2>1, <2>2, <2>3, SameHeld DEF Stored
<1>7. QED
  BY <1>2, <1>3, <1>4, <1>5, <1>6

LEMMA StepStored ==
  ASSUME StudioTyped, Stored, [StudioNext]_studioVars
  PROVE  Stored' /\ \A k \in Modes : NothingLost(k)
<1>1. CASE ChatStep
  BY <1>1, EventStored, ChatStepStored DEF ChatStep, StreamEvents
<1>2. CASE PageStep
  <2>1. CASE Leave
    <3>1. mounted /\ ~mounted' /\ ~rereading' /\ streams' = {} /\ saved' = saved
      BY <2>1 DEF Leave, Act, Forget
    <3>2. ASSUME NEW k \in Modes PROVE NothingLost(k)
      <4>1. CASE k = mode /\ rereading
        BY <3>1, <4>1 DEF NothingLost, Torn
      <4>2. CASE ~(k = mode /\ rereading)
        <5>1. Held(k)' = Held(k)
          BY <3>1, <4>2 DEF Held
        <5>2. QED
          BY <5>1, SameHeld
      <4>3. QED
        BY <4>1, <4>2
    <3>3. QED
      BY <3>1, <3>2 DEF Stored
  <2>2. ASSUME NEW stale \in BOOLEAN, Open(stale) PROVE Stored' /\ \A k \in Modes : NothingLost(k)
    <3>1. ~mounted /\ mounted' /\ messages' = saved[mode] /\ UNCHANGED <<saved, rereading, read, mode>>
      BY <2>2 DEF Open
    <3>2. \A k \in Modes : Held(k)' = Held(k)
      BY <3>1 DEF Held
    <3>3. QED
      BY <3>1, <3>2, SameHeld DEF Stored
  <2>3. QED
    BY <1>2, <2>1, <2>2 DEF PageStep
<1>3. CASE UNCHANGED <<mounted, messages, saved, rereading, read, mode, streams>>
  BY <1>3, SameChat
<1>4. CASE EditorStep
  BY <1>3, <1>4 DEF EditorStep, Edit, AutoSave, HandleSave, chat
<1>5. CASE CallStep
  BY <1>3, <1>5 DEF CallStep, ServeCall, Fail, Answer, chat
<1>6. CASE ApplierStep
  BY <1>3, <1>6 DEF ApplierStep, NextBlock, Finish, ApplyAll, ApplyBlock, Begin, chat
<1>7. CASE UNCHANGED studioVars
  BY <1>3, <1>7 DEF studioVars, chat
<1>8. QED
  BY <1>1, <1>2, <1>4, <1>5, <1>6, <1>7 DEF StudioNext

-----------------------------------------------------------------------------
(* The cards.  A call of an application is the only one the application waits   *)
(* for; a block that has left the queue was done or reported, or is the one     *)
(* that is waited for; and in Apply All an entity that has left the queue       *)
(* exists, was refused, or is the one that is waited for.                      *)

InFlight(c) ==
    c.task # 0 =>
        /\ tasks[c.task].st = "waiting" /\ c.card[1] = tasks[c.task].msg
        /\ c.st = "ok" => c.card \in wrote
        /\ c.hook = "entity" <=> Reply[c.card[2]].target = "entity"
        /\ c.st = "ok" /\ c.hook = "entity" => c.id # 0

OneCall == \A c, d \in calls : c.task # 0 /\ c.task = d.task => c.n = d.n

Answered(card) ==
    Reply[card[2]].target \in Supported => card \in wrote \/ \E r \in reported : r.card = card
CreationRefused(m, i) == [card |-> <<m, i>>, why |-> "refused", all |-> TRUE] \in reported
Pending(t, i) == tasks[t].st = "waiting" /\ \A c \in calls : c.task = t => c.card[2] = i

CardsLeft(t) == \A i \in tasks[t].cards \ tasks[t].queue : Answered(<<tasks[t].msg, i>>) \/ Pending(t, i)

EntitiesLeft(t) ==
    tasks[t].all => \A i \in Targets("entity") \ tasks[t].queue :
        temp[Reply[i].arg] # 0 \/ CreationRefused(tasks[t].msg, i) \/ Pending(t, i)

TaskSound(t) == tasks[t].st # "free" => CardsLeft(t) /\ EntitiesLeft(t)

Applications ==
    /\ \A c \in calls : InFlight(c)
    /\ OneCall
    /\ \A t \in 1..MaxTasks : TaskSound(t)
    /\ \A card \in applied : Answered(card)
    /\ UnresolvedMeansRefused

LEMMA InitApplications == StudioInit => Applications
<1> SUFFICES ASSUME StudioInit PROVE Applications
  OBVIOUS
<1>1. calls = {} /\ applied = {} /\ reported = {} /\ tasks = [t \in 1..MaxTasks |-> Free]
  BY DEF StudioInit
<1>2. \A t \in 1..MaxTasks : tasks[t].st = "free"
  BY <1>1 DEF Free
<1>3. QED
  BY <1>1, <1>2 DEF Applications, OneCall, TaskSound, UnresolvedMeansRefused

(* The applications are left alone; the service may have done more, and a call  *)
(* may have been done or refused, or lost its callbacks.                       *)
LEMMA SameApplications ==
  ASSUME Applications, UNCHANGED applier, wrote \subseteq wrote',
         \A d \in calls' : d.task # 0 =>
             \E c \in calls : /\ d.n = c.n /\ d.task = c.task /\ d.card = c.card /\ d.hook = c.hook
                              /\ d.st = "ok" => d.card \in wrote' /\ (d.hook = "entity" => d.id # 0)
  PROVE  Applications'
<1>1. UNCHANGED <<temp, tasks, applied, reported>>
  BY DEF applier
<1>2. \A c \in calls' : InFlight(c)'
  BY <1>1 DEF Applications, InFlight
<1>3. OneCall'
  BY DEF Applications, OneCall
<1>4. ASSUME NEW t \in 1..MaxTasks, tasks[t].st # "free" PROVE CardsLeft(t)' /\ EntitiesLeft(t)'
  <2>1. \A i : Pending(t, i) => Pending(t, i)'
    <3>1. t # 0
      OBVIOUS
    <3>2. QED
      BY <1>1, <3>1 DEF Pending
  <2>2. /\ \A card : Answered(card) => Answered(card)'
        /\ \A m, i : CreationRefused(m, i) => CreationRefused(m, i)'
    BY <1>1 DEF Answered, CreationRefused
  <2>3. CardsLeft(t) /\ EntitiesLeft(t)
    BY <1>4 DEF Applications, TaskSound
  <2>4. QED
    BY <1>1, <2>1, <2>2, <2>3 DEF CardsLeft, EntitiesLeft
<1>5. \A t \in 1..MaxTasks : TaskSound(t)'
  BY <1>1, <1>4 DEF TaskSound
<1>6. (\A card \in applied : Answered(card))' /\ UnresolvedMeansRefused'
  BY <1>1 DEF Applications, Answered, UnresolvedMeansRefused
<1>7. QED
  BY <1>2, <1>3, <1>5, <1>6 DEF Applications

LEMMA AnswerApplications ==
  ASSUME StudioTyped, Applications, NEW c \in calls, Answer(c)
  PROVE  Applications'
<1>1. /\ c \in CallRecords /\ c.st \in {"ok", "no"} /\ calls' = calls \ {c} /\ MutateCallback(c)
      /\ c.task # 0 => c.card \in Cards
      /\ UNCHANGED <<wrote, applied>>
  BY DEF StudioTyped, CallsTyped, Answer, database
<1>2. CASE ~c.last \/ c.task = 0
  <2>1. UNCHANGED applier
    BY <1>1, <1>2 DEF MutateCallback, applier
  <2>2. \A d \in calls : d.task # 0 /\ d.st = "ok" => d.card \in wrote /\ (d.hook = "entity" => d.id # 0)
    BY DEF Applications, InFlight
  <2>3. QED
    BY <1>1, <2>1, <2>2, SameApplications
<1>3. CASE c.last /\ c.task # 0
  <2> DEFINE t == c.task
             i == c.card[2]
  <2>1. t \in 1..MaxTasks /\ c.card = <<c.card[1], i>> /\ i \in DOMAIN Reply
    BY <1>1, <1>3, Limits DEF CallRecords, Cards
  <2>2. tasks' = [tasks EXCEPT ![t].st = "ready"] /\ tasks \in [1..MaxTasks -> TaskRecords]
    BY <1>1, <1>3 DEF MutateCallback, StudioTyped, ApplierTyped
  <2>3. /\ tasks'[t].st = "ready" /\ tasks'[t].msg = tasks[t].msg /\ tasks'[t].cards = tasks[t].cards
        /\ tasks'[t].queue = tasks[t].queue /\ tasks'[t].all = tasks[t].all
        /\ \A u \in 1..MaxTasks \ {t} : tasks'[u] = tasks[u]
    BY <2>1, <2>2 DEF TaskRecords
  <2>4. /\ tasks[t].st = "waiting" /\ c.card[1] = tasks[t].msg
        /\ c.st = "ok" => c.card \in wrote
        /\ c.hook = "entity" <=> Reply[i].target = "entity"
        /\ c.st = "ok" /\ c.hook = "entity" => c.id # 0
    BY <1>3 DEF Applications, InFlight
  <2>5. \A d \in calls' : d.task # t /\ d \in calls
    BY <1>1, <1>3 DEF Applications, OneCall, StudioTyped, CallsTyped
  <2>6. /\ reported \subseteq reported'
        /\ c.st = "no" => [card |-> c.card, why |-> "refused", all |-> tasks[t].all] \in reported'
        /\ \A r \in reported' : r \in reported \/ r.why = "refused"
    BY <1>1, <1>3 DEF MutateCallback, Report
  <2>7. /\ \A x \in Args("entity") : temp[x] # 0 => temp'[x] # 0
        /\ c.st = "ok" /\ i \in Targets("entity") => temp'[Reply[i].arg] # 0
    <3>1. temp \in [Args("entity") -> Nat]
      BY DEF StudioTyped, ApplierTyped
    <3>2. temp' = IF c.st = "ok" /\ c.hook = "entity" THEN [temp EXCEPT ![Reply[i].arg] = c.id] ELSE temp
      BY <1>1, <1>3 DEF MutateCallback
    <3>3. CASE c.st = "ok" /\ c.hook = "entity"
      <4>1. temp' = [temp EXCEPT ![Reply[i].arg] = c.id] /\ c.id # 0
        BY <2>4, <3>2, <3>3
      <4>2. i \in Targets("entity") => Reply[i].arg \in Args("entity")
        BY DEF Args
      <4>3. QED
        BY <3>1, <4>1, <4>2
    <3>4. CASE ~(c.st = "ok" /\ c.hook = "entity")
      BY <2>4, <3>2, <3>4 DEF Targets
    <3>5. QED
      BY <3>3, <3>4
  <2>8. /\ \A card : Answered(card) => Answered(card)'
        /\ \A m, j : CreationRefused(m, j) => CreationRefused(m, j)'
    BY <1>1, <2>6 DEF Answered, CreationRefused
  <2>9. \A d \in calls' : InFlight(d)'
    <3> SUFFICES ASSUME NEW d \in calls', d.task # 0 PROVE InFlight(d)'
      BY DEF InFlight
    <3>1. d.task \in 1..MaxTasks \ {t} /\ InFlight(d)
      BY <2>5, Limits DEF Applications, StudioTyped, CallsTyped, CallRecords
    <3>2. QED
      BY <1>1, <2>3, <3>1 DEF InFlight
  <2>10. OneCall'
    BY <2>5 DEF Applications, OneCall
  <2>11. ASSUME NEW u \in 1..MaxTasks \ {t} PROVE TaskSound(u)'
    <3>1. \A j : Pending(u, j) => Pending(u, j)'
      BY <2>3, <2>5 DEF Pending
    <3>2. \A j \in Targets("entity") : Reply[j].arg \in Args("entity")
      BY DEF Args
    <3>3. TaskSound(u) /\ tasks'[u] = tasks[u]
      BY <2>3 DEF Applications
    <3>4. QED
      BY <2>7, <2>8, <3>1, <3>2, <3>3 DEF TaskSound, CardsLeft, EntitiesLeft
  <2>12. TaskSound(t)'
    <3>1. CardsLeft(t) /\ EntitiesLeft(t)
      BY <2>1, <2>4 DEF Applications, TaskSound
    <3>2. \A j : Pending(t, j) => j = i
      BY DEF Pending
    <3>m. PICK m : m = tasks[t].msg /\ m = tasks'[t].msg /\ c.card = <<m, i>>
      BY <2>1, <2>3, <2>4
    <3>3. Answered(<<m, i>>)'
      <4>1. c.card \in wrote' \/ \E r \in reported' : r.card = c.card
        BY <1>1, <2>4, <2>6
      <4>2. QED
        BY <4>1, <3>m DEF Answered
    <3>4. CardsLeft(t)'
      BY <2>3, <2>8, <3>1, <3>2, <3>3, <3>m DEF CardsLeft
    <3>5. ASSUME tasks[t].all, NEW j \in Targets("entity") \ tasks[t].queue
          PROVE  temp'[Reply[j].arg] # 0 \/ CreationRefused(m, j)'
      <4>1. CASE temp[Reply[j].arg] # 0 \/ CreationRefused(m, j)
        <5>1. Reply[j].arg \in Args("entity")
          BY DEF Args
        <5>2. QED
          BY <2>7, <2>8, <4>1, <5>1
      <4>2. CASE j = i
        <5>1. tasks[t].all = TRUE
          BY <2>1, <2>2, <3>5 DEF TaskRecords
        <5>2. ASSUME c.st = "no" PROVE CreationRefused(m, i)'
          <6>1. [card |-> c.card, why |-> "refused", all |-> TRUE] \in reported'
            BY <2>6, <5>1, <5>2
          <6>2. QED
            BY <3>m, <6>1 DEF CreationRefused
        <5>3. ASSUME c.st = "ok" PROVE temp'[Reply[i].arg] # 0
          <6>1. i \in Targets("entity")
            BY <3>5, <4>2
          <6>2. QED
            BY <2>7, <5>3, <6>1
        <5>4. QED
          BY <1>1, <4>2, <5>2, <5>3
      <4>3. QED
        <5>1. temp[Reply[j].arg] # 0 \/ CreationRefused(m, j) \/ Pending(t, j)
          BY <3>1, <3>5, <3>m DEF EntitiesLeft
        <5>2. QED
          BY <3>2, <4>1, <4>2, <5>1
    <3>6. EntitiesLeft(t)'
      BY <2>3, <3>5, <3>m DEF EntitiesLeft
    <3>7. QED
      BY <3>4, <3>6 DEF TaskSound
  <2>13. (\A card \in applied : Answered(card))'
    BY <1>1, <2>8 DEF Applications
  <2>14. UnresolvedMeansRefused'
    BY <2>6 DEF Applications, UnresolvedMeansRefused
  <2>15. QED
    BY <2>9, <2>10, <2>11, <2>12, <2>13, <2>14 DEF Applications
<1>4. QED
  BY <1>2, <1>3

(* An application that nothing touches stays sound while the chat says more,     *)
(* the service has done more and more identifiers are known.                   *)
LEMMA OtherTask ==
  ASSUME NEW u \in 1..MaxTasks, TaskSound(u), tasks'[u] = tasks[u], wrote \subseteq wrote', reported \subseteq reported',
         \A d \in calls' : d.task = u => \E c \in calls : c.task = u /\ c.card = d.card,
         \A x \in Args("entity") : temp'[x] = temp[x]
  PROVE  TaskSound(u)'
<1>1. \A j : Pending(u, j) => Pending(u, j)'
  BY DEF Pending
<1>2. /\ \A card : Answered(card) => Answered(card)'
      /\ \A m, j : CreationRefused(m, j) => CreationRefused(m, j)'
  BY DEF Answered, CreationRefused
<1>3. \A j \in Targets("entity") : Reply[j].arg \in Args("entity")
  BY DEF Args
<1>4. QED
  BY <1>1, <1>2, <1>3 DEF TaskSound, CardsLeft, EntitiesLeft

LEMMA BeginApplications ==
  ASSUME StudioTyped, Applications, NEW t \in 1..MaxTasks, NEW m \in 0..MaxStreams,
         ApplyAll(t, m) \/ \E i \in DOMAIN Reply : ApplyBlock(t, m, i)
  PROVE  Applications'
<1>1. PICK cards, all, queue :
          /\ Begin(t, m, cards, all, queue) /\ cards \subseteq queue
          /\ all => Targets("entity") \subseteq queue
  <2>1. CASE ApplyAll(t, m)
    <3>1. Targets("entity") \subseteq Applicable
      BY DEF Applicable, Targets, Expressions
    <3>2. QED
      BY <2>1, <3>1 DEF ApplyAll
  <2>2. ASSUME NEW i \in DOMAIN Reply, ApplyBlock(t, m, i)
        PROVE  \E cards, all, queue : /\ Begin(t, m, cards, all, queue) /\ cards \subseteq queue
                                      /\ all => Targets("entity") \subseteq queue
    <3> DEFINE cards == IF Reply[i].target = "delete" THEN {} ELSE {i}
    <3>1. Begin(t, m, cards, FALSE, {i}) /\ cards \subseteq {i}
      BY <2>2 DEF ApplyBlock
    <3> HIDE DEF cards
    <3>2. QED
      BY <3>1
  <2>3. QED
    BY <2>1, <2>2
<1> DEFINE new == [msg |-> m, cards |-> cards, all |-> all, queue |-> queue, schema |-> cache.schema, st |-> "ready"]
<1>2. /\ tasks[t].st = "free" /\ tasks' = [tasks EXCEPT ![t] = new]
      /\ UNCHANGED <<wrote, calls, temp, applied, reported>>
  BY <1>1 DEF Begin, database
<1>3. tasks'[t] = new /\ \A u \in 1..MaxTasks \ {t} : tasks'[u] = tasks[u]
  BY <1>2 DEF StudioTyped, ApplierTyped
<1>4. new.cards = cards /\ new.all = all /\ new.queue = queue /\ new.st = "ready"
  OBVIOUS
<1> HIDE DEF new
<1>5. \A c \in calls : c.task # 0 => c.task \in 1..MaxTasks \ {t}
  BY <1>2, Limits DEF Applications, InFlight, StudioTyped, CallsTyped, CallRecords
<1>6. \A c \in calls' : InFlight(c)'
  BY <1>2, <1>3, <1>5 DEF Applications, InFlight
<1>7. OneCall'
  BY <1>2 DEF Applications, OneCall
<1>8. \A u \in 1..MaxTasks \ {t} : TaskSound(u)'
  BY <1>2, <1>3, OtherTask DEF Applications
<1>9. TaskSound(t)'
  BY <1>1, <1>3, <1>4 DEF TaskSound, CardsLeft, EntitiesLeft
<1>10. (\A card \in applied : Answered(card))' /\ UnresolvedMeansRefused'
  BY <1>2 DEF Applications, Answered, UnresolvedMeansRefused
<1>11. QED
  BY <1>6, <1>7, <1>8, <1>9, <1>10 DEF Applications

LEMMA NextBlockApplications ==
  ASSUME StudioTyped, Applications, NEW t \in 1..MaxTasks, NextBlock(t)
  PROVE  Applications'
<1>i. PICK i : i = BatchOrder(tasks[t].queue)
  OBVIOUS
<1>r. PICK rest : rest = [tasks[t] EXCEPT !.queue = @ \ {i}]
  OBVIOUS
<1>1. /\ i \in tasks[t].queue /\ i \in DOMAIN Reply /\ <<tasks[t].msg, i>> \in Cards /\ tasks[t].all \in BOOLEAN
      /\ BlockChange(t, i) \in Changes
      /\ Reply[i].target \in Supported => HookOf(i) \in {"applier", "entity", "fact", "delete"}
      /\ HookOf(i) = "entity" <=> Reply[i].target = "entity"
  BY <1>i, NextBlockTyped
<1>2. tasks[t] \in TaskRecords /\ tasks \in [1..MaxTasks -> TaskRecords] /\ tasks[t].st = "ready"
  BY DEF StudioTyped, ApplierTyped, NextBlock, Ready
<1>3. i \notin Targets("entity") => tasks[t].queue \cap Targets("entity") = {}
  BY <1>i, <1>1, <1>2, BatchOrderIn DEF TaskRecords
<1>4. \/ /\ Unread(i) \/ Unresolved(i)
         /\ tasks' = [tasks EXCEPT ![t] = rest]
         /\ Report(t, <<tasks[t].msg, i>>, IF Unread(i) THEN "refused" ELSE "unresolved")
         /\ UNCHANGED calls
      \/ Reply[i].target \notin Supported /\ tasks' = [tasks EXCEPT ![t] = rest] /\ UNCHANGED <<calls, reported>>
      \/ /\ Reply[i].target \in Supported /\ tasks' = [tasks EXCEPT ![t] = [rest EXCEPT !.st = "waiting"]]
         /\ Mutate(HookOf(i), t, <<tasks[t].msg, i>>, BlockChange(t, i))
         /\ UNCHANGED reported
  BY <1>i, <1>r DEF NextBlock
<1>5. UNCHANGED <<wrote, temp, applied>>
  BY DEF NextBlock, database
<1>6. /\ \A u \in 1..MaxTasks \ {t} : tasks'[u] = tasks[u]
      /\ tasks'[t].msg = tasks[t].msg /\ tasks'[t].cards = tasks[t].cards /\ tasks'[t].all = tasks[t].all
      /\ tasks'[t].queue = tasks[t].queue \ {i} /\ tasks'[t].st \in {"ready", "waiting"}
  <2>1. rest.msg = tasks[t].msg /\ rest.cards = tasks[t].cards /\ rest.all = tasks[t].all
        /\ rest.queue = tasks[t].queue \ {i} /\ rest.st = "ready" /\ rest \in TaskRecords
    BY <1>2, <1>r DEF TaskRecords
  <2>2. \E st \in {"ready", "waiting"} : tasks' = [tasks EXCEPT ![t] = [rest EXCEPT !.st = st]]
    <3>1. rest = [rest EXCEPT !.st = "ready"]
      BY <2>1 DEF TaskRecords
    <3>2. QED
      BY <1>4, <3>1
  <2>3. PICK st \in {"ready", "waiting"} : tasks' = [tasks EXCEPT ![t] = [rest EXCEPT !.st = st]]
    BY <2>2
  <2>4. tasks'[t] = [rest EXCEPT !.st = st] /\ \A u \in 1..MaxTasks \ {t} : tasks'[u] = tasks[u]
    BY <1>2, <2>3
  <2>5. QED
    BY <2>1, <2>4 DEF TaskRecords
<1>m. PICK m : m = tasks[t].msg /\ m = tasks'[t].msg
  BY <1>6
<1>7. \A c \in calls : c.task # 0 => c.task \in 1..MaxTasks \ {t}
  BY <1>2, Limits DEF Applications, InFlight, StudioTyped, CallsTyped, CallRecords
<1>8. /\ \A j \in tasks[t].cards \ tasks[t].queue : Answered(<<m, j>>)
      /\ tasks[t].all => \A j \in Targets("entity") \ tasks[t].queue : temp[Reply[j].arg] # 0 \/ CreationRefused(m, j)
  <2>1. CardsLeft(t) /\ EntitiesLeft(t)
    BY <1>2 DEF Applications, TaskSound
  <2>2. \A j : ~Pending(t, j)
    BY <1>2 DEF Pending
  <2>3. QED
    BY <1>m, <2>1, <2>2 DEF CardsLeft, EntitiesLeft
<1>9. ASSUME wrote \subseteq wrote', reported \subseteq reported', UNCHANGED calls, tasks'[t].st = "ready",
             Answered(<<m, i>>)', tasks[t].all /\ i \in Targets("entity") => CreationRefused(m, i)',
             \A r \in reported' \ reported :
                 r.why = "unresolved" /\ r.all =>
                     /\ r.card = <<m, i>> /\ tasks[t].all /\ i \notin Targets("entity")
                     /\ \E ref \in Refs(i) : Resolve(ref) = 0
      PROVE  Applications'
  <2>2. /\ \A card : Answered(card) => Answered(card)'
        /\ \A n, j : CreationRefused(n, j) => CreationRefused(n, j)'
    BY <1>9 DEF Answered, CreationRefused
  <2>3. \A c \in calls' : InFlight(c)'
    BY <1>5, <1>6, <1>7, <1>9 DEF Applications, InFlight
  <2>4. OneCall'
    BY <1>9 DEF Applications, OneCall
  <2>5. \A u \in 1..MaxTasks \ {t} : TaskSound(u)'
    BY <1>5, <1>6, <1>9, OtherTask DEF Applications
  <2>7. TaskSound(t)'
    <3>2. CardsLeft(t)'
      <4>1. \A j \in tasks'[t].cards \ tasks'[t].queue : j = i \/ j \in tasks[t].cards \ tasks[t].queue
        BY <1>6
      <4>2. \A j \in tasks'[t].cards \ tasks'[t].queue : Answered(<<m, j>>)'
        BY <1>8, <1>9, <2>2, <4>1
      <4>3. QED
        BY <1>m, <4>2 DEF CardsLeft
    <3>3. EntitiesLeft(t)'
      <4>1. \A j \in Targets("entity") \ tasks'[t].queue : j = i \/ j \in Targets("entity") \ tasks[t].queue
        BY <1>6
      <4>2. ASSUME tasks[t].all, NEW j \in Targets("entity") \ tasks'[t].queue
            PROVE  temp'[Reply[j].arg] # 0 \/ CreationRefused(m, j)'
        BY <1>5, <1>8, <1>9, <2>2, <4>1, <4>2
      <4>3. QED
        BY <1>6, <1>m, <4>2 DEF EntitiesLeft
    <3>4. QED
      BY <3>2, <3>3 DEF TaskSound
  <2>8. (\A card \in applied : Answered(card))'
    BY <1>5, <2>2 DEF Applications
  <2>9. ASSUME tasks[t].all, i \notin Targets("entity"), NEW j \in Targets("entity"), Resolve(Reply[j].arg) = 0
        PROVE  CreationRefused(m, j)
    <3>1. j \notin tasks[t].queue
      BY <1>3, <2>9
    <3>2. temp[Reply[j].arg] = 0
      BY <2>9 DEF Resolve, Args
    <3>3. QED
      BY <1>8, <2>9, <3>1, <3>2
  <2>10. UnresolvedMeansRefused'
    <3> SUFFICES ASSUME NEW r \in reported', r.why = "unresolved", r.all
                 PROVE  \E ref \in Refs(r.card[2]) : \A j \in Targets("entity") :
                            Reply[j].arg = ref => CreationRefused(r.card[1], j)'
      BY DEF UnresolvedMeansRefused, CreationRefused
    <3>1. CASE r \in reported
      <4>1. PICK ref \in Refs(r.card[2]) : \A j \in Targets("entity") :
                Reply[j].arg = ref => CreationRefused(r.card[1], j)
        BY <3>1 DEF Applications, UnresolvedMeansRefused, CreationRefused
      <4>2. QED
        BY <2>2, <4>1
    <3>2. CASE r \notin reported
      <4>1. r.card[1] = m /\ r.card[2] = i /\ tasks[t].all /\ i \notin Targets("entity")
        BY <1>9, <3>2
      <4>2. PICK ref \in Refs(i) : Resolve(ref) = 0
        BY <1>9, <3>2
      <4>3. \A j \in Targets("entity") : Reply[j].arg = ref => CreationRefused(m, j)'
        BY <2>2, <2>9, <4>1, <4>2
      <4>4. QED
        BY <4>1, <4>2, <4>3
    <3>3. QED
      BY <3>1, <3>2
  <2>11. QED
    BY <2>3, <2>4, <2>5, <2>7, <2>8, <2>10 DEF Applications
<1>s. ASSUME tasks' = [tasks EXCEPT ![t] = rest] PROVE tasks'[t].st = "ready"
  BY <1>2, <1>r, <1>s DEF TaskRecords
<1>u. CASE /\ Unread(i) \/ Unresolved(i)
           /\ tasks' = [tasks EXCEPT ![t] = rest] /\ UNCHANGED calls
           /\ Report(t, <<tasks[t].msg, i>>, IF Unread(i) THEN "refused" ELSE "unresolved")
  <2>1. PICK why : why = IF Unread(i) THEN "refused" ELSE "unresolved"
    OBVIOUS
  <2>2. PICK r : r = [card |-> <<m, i>>, why |-> why, all |-> tasks[t].all]
    OBVIOUS
  <2>3. reported' = reported \cup {r} /\ r.card = <<m, i>> /\ r.why = why /\ r.all = tasks[t].all
    BY <1>u, <1>m, <2>1, <2>2 DEF Report
  <2>4. Answered(<<m, i>>)'
    BY <2>3 DEF Answered
  <2>5. why = "unresolved" => Reply[i].target = "fact" /\ \E ref \in Refs(i) : Resolve(ref) = 0
    BY <1>u, <2>1 DEF Unresolved
  <2>6. i \in Targets("entity") => why = "refused"
    BY <2>1, <2>5 DEF Targets
  <2>7. tasks[t].all /\ i \in Targets("entity") => CreationRefused(m, i)'
    <3> SUFFICES ASSUME tasks[t].all, i \in Targets("entity") PROVE CreationRefused(m, i)'
      OBVIOUS
    <3>1. tasks[t].all = TRUE /\ why = "refused"
      BY <1>1, <2>6
    <3>2. r = [card |-> <<m, i>>, why |-> "refused", all |-> TRUE]
      BY <2>2, <3>1
    <3>3. QED
      BY <2>3, <3>2 DEF CreationRefused
  <2>8. wrote \subseteq wrote' /\ UNCHANGED calls /\ tasks'[t].st = "ready"
    BY <1>5, <1>s, <1>u
  <2>9. QED
    BY <1>9, <2>3, <2>4, <2>5, <2>6, <2>7, <2>8 DEF Targets
<1>n. CASE /\ Reply[i].target \notin Supported
           /\ tasks' = [tasks EXCEPT ![t] = rest] /\ UNCHANGED <<calls, reported>>
  <2>1. Answered(<<m, i>>)'
    BY <1>n DEF Answered
  <2>2. i \notin Targets("entity")
    BY <1>n DEF Targets, Supported
  <2>3. wrote \subseteq wrote' /\ UNCHANGED calls /\ tasks'[t].st = "ready" /\ reported' = reported
    BY <1>5, <1>s, <1>n
  <2>4. QED
    BY <1>9, <2>1, <2>2, <2>3
<1>10. CASE /\ tasks' = [tasks EXCEPT ![t] = [rest EXCEPT !.st = "waiting"]] /\ UNCHANGED reported
            /\ Reply[i].target \in Supported /\ Mutate(HookOf(i), t, <<tasks[t].msg, i>>, BlockChange(t, i))
  <2>1. tasks'[t].st = "waiting"
    BY <1>2, <1>r, <1>10 DEF TaskRecords
  <2>2. PICK new : /\ new.hook = HookOf(i) /\ new.task = t /\ new.card = <<m, i>> /\ new.st = "sent"
                   /\ calls' = Overtaken(HookOf(i)) \cup {new}
    <3>1. <<tasks[t].msg, i>> \in (0..MaxStreams) \X ({0} \cup DOMAIN Reply) /\ t \in 0..MaxTasks
      BY <1>1, Limits DEF Cards
    <3>2. HookOf(i) \in {"editor", "applier", "fetch", "entity", "fact", "delete"}
      BY <1>1, <1>10
    <3>3. QED
      BY <1>1, <1>10, <1>m, <3>1, <3>2, MutateTyped
  <2>3. \A d \in Overtaken(HookOf(i)) : \E c \in calls : Same(d, c)
    BY Overtaking DEF StudioTyped
  <2>4. \A d \in calls' : d = new \/ \E c \in calls : Same(d, c)
    BY <2>2, <2>3
  <2>5. /\ \A card : Answered(card) => Answered(card)'
        /\ \A n, j : CreationRefused(n, j) => CreationRefused(n, j)'
    BY <1>5, <1>10 DEF Answered, CreationRefused
  <2>6. ASSUME NEW d \in calls' PROVE InFlight(d)'
    <3>1. CASE d = new
      BY <1>1, <1>m, <2>1, <2>2, <3>1 DEF InFlight
    <3>2. ASSUME NEW c \in calls, Same(d, c) PROVE InFlight(d)'
      BY <1>5, <1>6, <1>7, <3>2 DEF Applications, InFlight, Same
    <3>3. QED
      BY <2>4, <3>1, <3>2
  <2>7. \A d \in calls' : d.task = t => d = new
    BY <1>7, <2>4 DEF Same
  <2>8. OneCall'
    BY <2>2, <2>4, <2>7 DEF Applications, OneCall, Same
  <2>9. ASSUME NEW u \in 1..MaxTasks \ {t} PROVE TaskSound(u)'
    <3>1. \A d \in calls' : d.task = u => \E c \in calls : c.task = u /\ c.card = d.card
      BY <2>2, <2>4 DEF Same
    <3>2. QED
      BY <1>5, <1>6, <1>10, <3>1, OtherTask DEF Applications
  <2>10. TaskSound(t)'
    <3>1. Pending(t, i)'
      <4>1. new.card[2] = i
        BY <2>2
      <4>2. QED
        BY <2>1, <2>7, <4>1 DEF Pending
    <3>2. CardsLeft(t)'
      <4>1. \A j \in tasks'[t].cards \ tasks'[t].queue : j = i \/ j \in tasks[t].cards \ tasks[t].queue
        BY <1>6
      <4>2. \A j \in tasks'[t].cards \ tasks'[t].queue : Answered(<<m, j>>)' \/ Pending(t, j)'
        BY <1>8, <2>5, <3>1, <4>1
      <4>3. QED
        BY <1>m, <4>2 DEF CardsLeft
    <3>3. EntitiesLeft(t)'
      <4>1. \A j \in Targets("entity") \ tasks'[t].queue : j = i \/ j \notin tasks[t].queue
        BY <1>6
      <4>2. ASSUME tasks[t].all, NEW j \in Targets("entity") \ tasks'[t].queue
            PROVE  temp'[Reply[j].arg] # 0 \/ CreationRefused(m, j)' \/ Pending(t, j)'
        BY <1>5, <1>8, <2>5, <3>1, <4>1, <4>2
      <4>3. QED
        BY <1>6, <1>m, <4>2 DEF EntitiesLeft
    <3>4. QED
      BY <3>2, <3>3 DEF TaskSound
  <2>11. (\A card \in applied : Answered(card))' /\ UnresolvedMeansRefused'
    BY <1>5, <1>10 DEF Applications, Answered, UnresolvedMeansRefused
  <2>12. QED
    BY <2>6, <2>8, <2>9, <2>10, <2>11 DEF Applications
<1>11. QED
  BY <1>4, <1>u, <1>n, <1>10

LEMMA FinishApplications ==
  ASSUME StudioTyped, Applications, NEW t \in 1..MaxTasks, Finish(t)
  PROVE  Applications'
<1>1. /\ tasks[t].st = "ready" /\ tasks[t].queue = {} /\ tasks' = [tasks EXCEPT ![t] = Free]
      /\ applied' = applied \cup {<<tasks[t].msg, i>> : i \in tasks[t].cards}
      /\ UNCHANGED <<wrote, calls, temp, reported>>
  BY DEF Finish, Ready, database
<1>2. tasks'[t] = Free /\ \A u \in 1..MaxTasks \ {t} : tasks'[u] = tasks[u]
  BY <1>1 DEF StudioTyped, ApplierTyped
<1>3. \A c \in calls : c.task # 0 => c.task \in 1..MaxTasks \ {t}
  BY <1>1, Limits DEF Applications, InFlight, StudioTyped, CallsTyped, CallRecords
<1>4. \A c \in calls' : InFlight(c)'
  BY <1>1, <1>2, <1>3 DEF Applications, InFlight
<1>5. OneCall'
  BY <1>1 DEF Applications, OneCall
<1>6. \A u \in 1..MaxTasks \ {t} : TaskSound(u)'
  BY <1>1, <1>2, OtherTask DEF Applications
<1>7. TaskSound(t)'
  BY <1>2 DEF TaskSound, Free
<1>8. \A i \in tasks[t].cards : Answered(<<tasks[t].msg, i>>)
  <2>1. CardsLeft(t)
    BY <1>1 DEF Applications, TaskSound
  <2>2. \A i : ~Pending(t, i)
    BY <1>1 DEF Pending
  <2>3. QED
    BY <1>1, <2>1, <2>2 DEF CardsLeft
<1>9. \A card \in applied' : Answered(card)'
  <2>1. \A card : Answered(card) => Answered(card)'
    BY <1>1 DEF Answered
  <2>2. \A card \in applied' : Answered(card)
    BY <1>1, <1>8 DEF Applications
  <2>3. QED
    BY <2>1, <2>2
<1>10. UnresolvedMeansRefused'
  BY <1>1 DEF Applications, UnresolvedMeansRefused
<1>11. QED
  BY <1>4, <1>5, <1>6, <1>7, <1>9, <1>10 DEF Applications

LEMMA LeaveApplications ==
  ASSUME StudioTyped, Leave
  PROVE  Applications'
<1> DEFINE Drop(c) == [c EXCEPT !.last = FALSE, !.task = 0]
<1>1. /\ calls' = {Drop(c) : c \in calls}
      /\ tasks' = [t \in 1..MaxTasks |-> Free] /\ applied' = {} /\ reported' = {}
  BY DEF Leave
<1>2. \A c \in calls : Drop(c).task = 0
  BY DEF StudioTyped, CallsTyped, CallRecords
<1> HIDE DEF Drop
<1>3. \A d \in calls' : d.task = 0
  BY <1>1, <1>2
<1>4. (\A c \in calls : InFlight(c))' /\ OneCall'
  BY <1>3 DEF InFlight, OneCall
<1>5. \A t \in 1..MaxTasks : TaskSound(t)'
  BY <1>1 DEF TaskSound, Free
<1>6. (\A card \in applied : Answered(card))' /\ UnresolvedMeansRefused'
  BY <1>1 DEF UnresolvedMeansRefused
<1>7. QED
  BY <1>4, <1>5, <1>6 DEF Applications

LEMMA StillDone ==
  ASSUME Applications
  PROVE  \A c \in calls : c.task # 0 /\ c.st = "ok" => c.card \in wrote /\ (c.hook = "entity" => c.id # 0)
BY DEF Applications, InFlight

(* A call that belongs to no application.                                      *)
LEMMA MutateApplications ==
  ASSUME StudioTyped, Applications, NEW hook \in {"editor", "fetch"}, NEW change \in Changes,
         Mutate(hook, 0, <<0, 0>>, change), UNCHANGED applier, UNCHANGED wrote
  PROVE  Applications'
<1>1. <<0, 0>> \in (0..MaxStreams) \X ({0} \cup DOMAIN Reply) /\ 0 \in 0..MaxTasks
  BY Limits
<1>2. PICK new : new.task = 0 /\ calls' = Overtaken(hook) \cup {new}
  BY <1>1, MutateTyped
<1>3. \A d \in Overtaken(hook) : \E c \in calls : Same(d, c)
  BY Overtaking DEF StudioTyped
<1>4. QED
  BY <1>2, <1>3, StillDone, SameApplications DEF Same

LEMMA ServiceApplications ==
  ASSUME StudioTyped, Applications, NEW c \in calls, ServeCall(c) \/ Fail(c)
  PROVE  Applications'
<1>1. UNCHANGED applier
  BY DEF ServeCall, Fail
<1>2. CASE ServeCall(c)
  <2>1. \A d \in calls' : d = Served(c) \/ d \in calls
    BY <1>2, ServedTyped
  <2>2. QED
    BY <1>1, <1>2, <2>1, StillDone, ServedTyped, SameApplications
<1>3. CASE Fail(c)
  <2> DEFINE d == [c EXCEPT !.st = "no"]
  <2>1. c \in CallRecords
    BY DEF StudioTyped, CallsTyped
  <2>2. d.n = c.n /\ d.task = c.task /\ d.card = c.card /\ d.hook = c.hook /\ d.st = "no"
    BY <2>1 DEF CallRecords
  <2>3. calls' = (calls \ {c}) \cup {d} /\ wrote' = wrote
    BY <1>3 DEF Fail, database
  <2> HIDE DEF d
  <2>4. QED
    BY <1>1, <2>2, <2>3, StillDone, SameApplications
<1>4. QED
  BY <1>2, <1>3

LEMMA StepApplications ==
  ASSUME StudioTyped, Applications, [StudioNext]_studioVars
  PROVE  Applications'
<1>1. CASE UNCHANGED <<applier, wrote, calls>>
  BY <1>1, StillDone, SameApplications
<1>2. CASE EditorStep
  <2>1. CASE \E text \in Texts : Edit(text)
    BY <1>1, <2>1 DEF Edit, database
  <2>2. CASE AutoSave \/ HandleSave
    <3>1. [Change EXCEPT !.scene = form] \in Changes
      BY DEF StudioTyped, EditorTyped, Change, Changes
    <3>2. /\ Mutate("editor", 0, <<0, 0>>, [Change EXCEPT !.scene = form])
          /\ UNCHANGED applier /\ UNCHANGED wrote
      BY <2>2 DEF AutoSave, HandleSave, database
    <3>3. QED
      BY <3>1, <3>2, MutateApplications
  <2>3. QED
    BY <1>2, <2>1, <2>2 DEF EditorStep
<1>3. CASE CallStep
  BY <1>3, ServiceApplications, AnswerApplications DEF CallStep
<1>4. CASE ApplierStep
  BY <1>4, NextBlockApplications, FinishApplications, BeginApplications DEF ApplierStep
<1>5. CASE ChatStep
  BY <1>1, <1>5 DEF ChatStep, StreamEvents, SendMessage, StopGeneration, ClearChat, SetMode, Rerender, Chunk, Done, ErrorEvent,
     OnError, OnClose, Event, Quiet, database
<1>6. CASE PageStep
  <2>1. ASSUME NEW stale \in BOOLEAN, Open(stale) PROVE Applications'
    <3>1. UNCHANGED applier /\ UNCHANGED wrote
      BY <2>1 DEF Open, database
    <3>2. Change \in Changes
      BY DEF Change, Changes
    <3>3. QED
      BY <1>1, <2>1, <3>1, <3>2, MutateApplications DEF Open
  <2>2. QED
    BY <1>6, <2>1, LeaveApplications DEF PageStep
<1>7. CASE UNCHANGED studioVars
  BY <1>1, <1>7 DEF studioVars, database
<1>8. QED
  BY <1>2, <1>3, <1>4, <1>5, <1>6, <1>7 DEF StudioNext

-----------------------------------------------------------------------------
StudioInv == StudioTyped /\ Followed /\ Stored /\ Applications

LEMMA StudioInvHolds == StudioSpec => []StudioInv
<1>1. StudioInit => StudioInv
  BY StudioInitTyped, InitFollowed, InitStored, InitApplications DEF StudioInv
<1>2. StudioInv /\ [StudioNext]_studioVars => StudioInv'
  <2> SUFFICES ASSUME StudioInv, [StudioNext]_studioVars PROVE StudioInv'
    OBVIOUS
  <2>1. StudioTyped /\ Followed /\ Stored /\ Applications
    BY DEF StudioInv
  <2>2. StudioTyped' /\ Followed' /\ Stored' /\ Applications'
    BY <2>1, StudioStepTyped, StepFollowed, StepStored, StepApplications
  <2>3. QED
    BY <2>2 DEF StudioInv
<1>3. QED
  BY <1>1, <1>2, PTL DEF StudioSpec

(* A card of a supported target that the chat shows as applied was written by    *)
(* the service or its failure was put in the chat, and "Apply All" misses an     *)
(* entity that a fact names only when no card creates it or it was told that the *)
(* creation failed, whatever calls overlap, fail or lose their callbacks:        *)
(* applyBatch, MutateCallback and markApplied together, for any targets.         *)
THEOREM CardsAreAnswered == StudioSpec => []CardsAnswered
<1>1. StudioInv => CardsAnswered
  BY StudioTypedIsTypeOK DEF StudioInv, Applications, Answered, CardsAnswered, AppliedOrReported
<1>2. QED
  BY <1>1, StudioInvHolds, PTL

(* The stream handlers, the clearing of the chat and the two effects on the      *)
(* storage key, with the render that follows them, never bring a message under   *)
(* another conversation's key, and none disappears from its own but by clearing, *)
(* unless the page is left or a message sent before that render.                 *)
THEOREM ChatIsKept == StudioSpec => ChatKept
<1>1. StudioInv /\ [StudioNext]_studioVars => \A k \in Modes : NothingLost(k)
  BY StepStored DEF StudioInv
<1>2. QED
  BY <1>1, StudioInvHolds, PTL DEF StudioSpec, ChatKept, NothingLost

(* useServerSyncedState: an editor that shows the cached scene shows the next   *)
(* one too, whichever call brought it.                                         *)
THEOREM EditorFollows == StudioSpec => FollowsScenario
<1>1. StudioInv /\ [StudioNext]_studioVars
      => (mounted /\ mounted' /\ form = cache.scene => form' = cache'.scene \/ cache' = cache)
  BY StepFollowed DEF StudioInv
<1>2. QED
  BY <1>1, StudioInvHolds, PTL DEF StudioSpec, FollowsScenario
=============================================================================
