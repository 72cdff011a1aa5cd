----------------------------- MODULE PlayClient -----------------------------
(* The play screen of one browser tab: the play store, the POST /v1/turn     *)
(* stream, the two cached queries of PlayPage and the navigation between     *)
(* playthroughs, against a server that keeps a log, a pending minigame and   *)
(* an ending per playthrough.  A minigame attempt is identified by the       *)
(* number of the turn that triggered it; 0 stands for no attempt.            *)
EXTENDS Integers, Sequences, FiniteSets

CONSTANTS
    Pids,        \* playthroughs the player visits
    MaxTurns,    \* bound on the turns of a playthrough
    PageSize,    \* turns per page of GET /turns (20 in the service)
    MaxStreams,  \* bound on the submissions of the tab
    MaxVisits,   \* bound on the page visits
    MaxAttempts  \* MAX_MINIGAME_RESULT_ATTEMPTS

ASSUME PlayAssumption ==
    /\ MaxTurns \in Nat \ {0} /\ PageSize \in Nat \ {0} /\ MaxStreams \in Nat
    /\ MaxVisits \in Nat /\ MaxAttempts \in Nat \ {0}

VARIABLES
    srv,       \* Pids -> what the services have committed
    route,     \* set with the playthrough of the mounted PlayPage, or empty
    visits,    \* page visits so far
    shown,     \* playthrough of the store
    active,    \* active_minigame: its attempt, 0 for null
    result,    \* pending_minigame_result
    narrating, \* is_narrating
    gen,       \* stream_generation
    cancel,    \* the stream cancel_stream_fn would abort, 0 for null
    buf,       \* pending_* fields: the generation each was received in, and cut:
               \* a submission replaced a running stream since they were last cleared
    streams,   \* POST streams that are not over at both ends
    pdata, pnet, \* React Query: cached playthrough and its fetch
    tdata, tnet, \* React Query: cached turns and their fetch
    recon      \* the reconciliation read of a retry or a fallback

store == <<shown, active, result, narrating, gen, cancel, buf>>
queries == <<pdata, pnet, tdata, tnet>>
vars == <<srv, route, visits, store, streams, queries, recon>>

-----------------------------------------------------------------------------
Turn == 0..MaxTurns
Gen == 0..MaxStreams
None == [k |-> "none"]
Asked == [k |-> "asked"]
Snap == [k: {"snap"}, turns: Turn, pend: Turn, ended: BOOLEAN]
Shown == [k: {"shown"}, id: Pids, list: Seq(Turn), asOf: Turn, ended: BOOLEAN]
Result == [k: {"result"}, id: Gen, att: Turn, tag: {"played", "timeout"}, attempts: 1..MaxAttempts,
           status: {"submitting", "reconciling", "retryable", "terminal"}, fallback: BOOLEAN]
Recon == [k: {"recon"}, pid: Pids, res: Result, net: {Asked} \cup Snap]
Event == [e: {"scene", "summary", "ended", "degraded", "error", "close"}]
         \cup [e: {"minigame", "done"}, n: Turn]
Stream == [g: Gen, pid: Pids, att: Turn, open: BOOLEAN, answered: BOOLEAN, over: BOOLEAN,
           q: Seq(Event)]
NoTurns == -1
Idle == -2
EmptyBuf == [img |-> 0, sum |-> 0, trig |-> 0, trigOf |-> 0, end |-> 0, cut |-> FALSE]

Init ==
    /\ srv \in [Pids -> {[turns |-> 0, pend |-> 0, ended |-> FALSE],
                        [turns |-> 1, pend |-> 1, ended |-> FALSE]}]
    /\ route = {} /\ visits = 0
    /\ shown = None /\ active = 0 /\ result = None /\ narrating = FALSE
    /\ gen = 0 /\ cancel = 0 /\ buf = EmptyBuf
    /\ streams = {}
    /\ pdata = [p \in Pids |-> None] /\ pnet = [p \in Pids |-> None]
    /\ tdata = [p \in Pids |-> NoTurns] /\ tnet = [p \in Pids |-> Idle]
    /\ recon = None

-----------------------------------------------------------------------------
(* PlayPage's effect and setPlaythrough. *)

\* What the builders make of the two cached answers.  A turn on screen is its
\* number, 0 if it is one of another story; asOf is the turn count of the state
\* that entities, inventory, the pending minigame and whose turn it is are
\* computed from.
Build(p, snap, n) ==
    [k |-> "shown", id |-> p, list |-> [i \in 1..(IF n = NoTurns THEN 0 ELSE n) |-> i],
     asOf |-> snap.turns, ended |-> snap.ended]

\* Mutant: only a longer snapshot is applied.
SnapshotApplies_Strict(p, snap, n, sh) ==
    /\ p \in route /\ snap # None
    /\ sh = None \/ Len(Build(p, snap, n).list) > Len(sh.list)

\* A snapshot with fewer turns than the store holds is not applied.
SnapshotApplies(p, snap, n, sh) ==
    /\ p \in route /\ snap # None
    /\ sh = None \/ Len(Build(p, snap, n).list) >= Len(sh.list)

\* The effect after the caches hold snap and n; the store held sh, act and res.
Effect(p, snap, n, sh, act, res) ==
    IF SnapshotApplies(p, snap, n, sh)
    THEN /\ shown' = Build(p, snap, n)
         /\ active' = snap.pend
         /\ result' = IF snap.pend = 0 THEN None ELSE res
    ELSE shown' = sh /\ active' = act /\ result' = res

-----------------------------------------------------------------------------
(* The stream of a submission. *)

Post(p, att) ==
    [g |-> gen + 1, pid |-> p, att |-> att, open |-> TRUE, answered |-> FALSE, over |-> FALSE,
     q |-> <<>>]

Abort(S, g) == {IF s.g = g THEN [s EXCEPT !.open = FALSE, !.q = <<>>] ELSE s : s \in S}

\* _startTurnStream: aborts what cancel_stream_fn aborts and takes the ownership.
StartStream(p, att) ==
    /\ gen < MaxStreams
    /\ streams' = {s \in Abort(streams, cancel) : s.open \/ ~s.answered} \cup {Post(p, att)}
    /\ gen' = gen + 1 /\ cancel' = gen + 1
    /\ narrating' = TRUE
    /\ buf' = [buf EXCEPT !.cut = @ \/ cancel # 0]

\* submitTurn, from the drawer, from continueTurn or from retryLastTurn; the
\* buttons are disabled while narrating and the overlay covers them.
SubmitTurn ==
    /\ route # {} /\ shown # None /\ ~narrating
    /\ active = 0 /\ ~shown.ended
    /\ StartStream(shown.id, 0)
    /\ UNCHANGED <<srv, route, visits, shown, active, result, queries, recon>>

\* submitMinigameResult: the encounter ends, by play or by forfeit.
SubmitMinigameResult(tag) ==
    /\ route # {} /\ shown # None /\ active # 0 /\ result = None
    /\ result' = [k |-> "result", id |-> gen + 1, att |-> active, tag |-> tag, attempts |-> 1,
                  status |-> "submitting", fallback |-> FALSE]
    /\ StartStream(shown.id, active)
    /\ UNCHANGED <<srv, route, visits, shown, active, queries, recon>>

\* retryMinigameResult and submitMinigameTimeoutFallback up to their await.
AskAgain(status) ==
    /\ route # {} /\ shown # None /\ result # None /\ recon = None
    /\ result.status = status
    /\ CASE status = "retryable" -> result.attempts < MaxAttempts
         [] status = "terminal" -> ~result.fallback
    /\ result' = [result EXCEPT !.status = "reconciling"]
    /\ recon' = [k |-> "recon", pid |-> shown.id, res |-> result, net |-> Asked]
    /\ UNCHANGED <<srv, route, visits, shown, active, narrating, gen, cancel, buf, streams, queries>>

\* The identity of the payload object that the code compares.
SameResult(r) == result # None /\ result.id = r.id

\* The read failed: the captured status comes back if the result is still it.
ReconcileFails ==
    /\ recon # None
    /\ result' = IF SameResult(recon.res) THEN [result EXCEPT !.status = recon.res.status] ELSE result
    /\ recon' = None
    /\ UNCHANGED <<srv, route, visits, shown, active, narrating, gen, cancel, buf, streams, queries>>

\* The attempt is no longer pending: the server's answer replaces it.
ReconcileGone ==
    /\ recon # None /\ recon.net # Asked
    /\ recon.net.pend # recon.res.att
    /\ pdata' = [pdata EXCEPT ![recon.pid] = recon.net]
    /\ Effect(recon.pid, recon.net, tdata[recon.pid], shown, recon.net.pend, None)
    /\ narrating' = FALSE
    /\ recon' = None
    /\ UNCHANGED <<srv, route, visits, gen, cancel, buf, streams, pnet, tdata, tnet>>

\* It is: the same outcome, or the timeout, is posted from the values captured
\* before the await.
ReconcileResends ==
    /\ recon # None /\ recon.net # Asked
    /\ recon.net.pend = recon.res.att
    /\ LET captured == recon.res
           next == IF captured.status = "terminal"
                   THEN [captured EXCEPT !.id = gen + 1, !.tag = "timeout", !.attempts = 1,
                                         !.status = "submitting", !.fallback = TRUE]
                   ELSE IF SameResult(captured)
                        THEN [result EXCEPT !.attempts = captured.attempts + 1,
                                            !.status = "submitting"]
                        ELSE result
       IN Effect(recon.pid, recon.net, tdata[recon.pid], shown, active, next)
    /\ StartStream(recon.pid, recon.res.att)
    /\ pdata' = [pdata EXCEPT ![recon.pid] = recon.net]
    /\ recon' = None
    /\ UNCHANGED <<srv, route, visits, pnet, tdata, tnet>>

\* Mutant: what the stopped turn has buffered stays.
StopGeneration_KeepsBuffers ==
    /\ route # {} /\ narrating /\ active = 0 /\ gen < MaxStreams
    /\ streams' = {s \in Abort(streams, cancel) : s.open \/ ~s.answered}
    /\ narrating' = FALSE /\ cancel' = 0 /\ gen' = gen + 1 /\ UNCHANGED buf
    /\ UNCHANGED <<srv, route, visits, shown, active, result, queries, recon>>

\* stopGeneration; the overlay covers its button.
StopGeneration ==
    /\ route # {} /\ narrating /\ active = 0 /\ gen < MaxStreams
    /\ streams' = {s \in Abort(streams, cancel) : s.open \/ ~s.answered}
    /\ narrating' = FALSE /\ cancel' = 0 /\ gen' = gen + 1 /\ buf' = EmptyBuf
    /\ UNCHANGED <<srv, route, visits, shown, active, result, queries, recon>>

-----------------------------------------------------------------------------
(* What the handlers of a stream do with an event. *)

Invalidate(p) ==
    /\ pnet' = [pnet EXCEPT ![p] = IF p \in route THEN Asked ELSE @]
    /\ tnet' = [tnet EXCEPT ![p] = IF p \in route THEN NoTurns ELSE @]
    /\ UNCHANGED <<pdata, tdata>>

\* _commitStreamedTurn
Commit(n) ==
    /\ shown' = [shown EXCEPT !.list = Append(@, n), !.ended = @ \/ buf.end # 0]
    /\ active' = buf.trig /\ result' = None
    /\ narrating' = FALSE /\ cancel' = 0 /\ buf' = EmptyBuf
    /\ Invalidate(shown.id)
    /\ UNCHANGED gen

\* failMinigameResult, which is _degradeCurrentTurn for a narrative turn.
Fail(s) ==
    /\ narrating' = FALSE /\ cancel' = 0
    /\ IF s.att # 0 /\ result # None
       THEN /\ result' = [result EXCEPT !.status =
                            IF result.fallback \/ result.attempts >= MaxAttempts
                            THEN "terminal" ELSE "retryable"]
            /\ buf' = [EmptyBuf EXCEPT !.img = buf.img, !.cut = buf.cut]
       ELSE buf' = EmptyBuf /\ UNCHANGED result
    /\ UNCHANGED <<shown, active, gen, queries>>

Buffer(s, ev) ==
    /\ buf' = CASE ev.e = "scene" -> [buf EXCEPT !.img = s.g]
                [] ev.e = "summary" -> [buf EXCEPT !.sum = s.g]
                [] ev.e = "minigame" -> [buf EXCEPT !.trig = ev.n, !.trigOf = s.g]
                [] ev.e = "ended" -> [buf EXCEPT !.end = s.g]
    /\ UNCHANGED <<shown, active, result, narrating, gen, cancel, queries>>

Own(s) == s.g = gen
Quiet == UNCHANGED <<store, queries>>

\* The turn that a stream's done event names, as the screen would list it.
Narrated(s, n) == IF s.pid = shown.id THEN n ELSE 0

\* Mutant: a connection that closes without a terminal event is ignored.
Handle_NoClose(s, ev) ==
    IF ~Own(s) \/ ev.e = "close" THEN Quiet
    ELSE CASE ev.e = "done" -> Commit(Narrated(s, ev.n))
           [] ev.e \in {"degraded", "error"} -> Fail(s)
           [] OTHER -> Buffer(s, ev)

\* onEvent, onError and onClose for the next event of an open stream.
Handle(s, ev) ==
    IF ~Own(s) THEN Quiet
    ELSE CASE ev.e = "done" -> Commit(Narrated(s, ev.n))
           [] ev.e \in {"degraded", "error"} -> Fail(s)
           [] ev.e = "close" -> IF s.over THEN Quiet ELSE Fail(s)
           [] OTHER -> Buffer(s, ev)

Deliver(s) ==
    LET ev == Head(s.q) IN
    /\ s.open /\ s.q # <<>>
    /\ Handle(s, ev)
    /\ streams' = (streams \ {s}) \cup
         (IF ev.e \in {"error", "close"}
          THEN IF s.answered THEN {} ELSE {[s EXCEPT !.open = FALSE, !.q = <<>>]}
          ELSE {[s EXCEPT !.q = Tail(@),
                          !.over = @ \/ (Own(s) /\ ev.e \in {"done", "degraded"})]})
    /\ UNCHANGED <<srv, route, visits, recon>>

\* The connection breaks, with or without an error, at any point of the answer.
Break(s, how) ==
    /\ s.open /\ s.q \notin {<<[e |-> "error"]>>, <<[e |-> how]>>}
    /\ streams' = (streams \ {s}) \cup {[s EXCEPT !.q = <<[e |-> how]>>]}
    /\ UNCHANGED <<srv, route, visits, store, queries, recon>>

-----------------------------------------------------------------------------
(* The turn resolution service, as far as the client can tell (TurnPipeline   *)
(* is its model): it refuses what the row does not admit, and answers         *)
(* degraded or commits, whether or not the client is still there.             *)

Admits(s) == srv[s.pid].pend = s.att /\ ~srv[s.pid].ended

Reply(s, events) ==
    streams' = (streams \ {s}) \cup
        (IF s.open
         THEN {[s EXCEPT !.answered = TRUE,
                         !.q = IF s.q = <<>> THEN events ELSE @]}
         ELSE {})

ServerRefuses(s) ==
    /\ ~s.answered /\ ~Admits(s)
    /\ Reply(s, <<[e |-> "error"]>>)
    /\ UNCHANGED <<srv, route, visits, store, queries, recon>>

\* An image is made for some narrative turns only.
Scene(s, seen) == IF seen /\ s.att = 0 THEN <<[e |-> "scene"]>> ELSE <<>>

ServerDegrades(s, seen) ==
    /\ ~s.answered /\ Admits(s)
    /\ Reply(s, Scene(s, seen) \o <<[e |-> "degraded"], [e |-> "close"]>>)
    /\ UNCHANGED <<srv, route, visits, store, queries, recon>>

ServerCommits(s, trigger, ends, seen) ==
    LET n == srv[s.pid].turns + 1 IN
    /\ ~s.answered /\ Admits(s) /\ n <= MaxTurns /\ ~(trigger /\ ends)
    /\ srv' = [srv EXCEPT ![s.pid] = [turns |-> n, pend |-> IF trigger THEN n ELSE 0,
                                      ended |-> ends]]
    /\ Reply(s, Scene(s, seen) \o <<[e |-> "summary"]>>
                \o (IF trigger THEN <<[e |-> "minigame", n |-> n]>> ELSE <<>>)
                \o (IF ends THEN <<[e |-> "ended"]>> ELSE <<>>)
                \o <<[e |-> "done", n |-> n], [e |-> "close"]>>)
    /\ UNCHANGED <<route, visits, store, queries, recon>>

-----------------------------------------------------------------------------
(* Queries, reads and navigation. *)

PageOf(n) == IF n < PageSize THEN n ELSE PageSize
SnapOf(p) == [k |-> "snap", turns |-> srv[p].turns, pend |-> srv[p].pend, ended |-> srv[p].ended]

ServerReads(p) ==
    \/ /\ pnet[p] = Asked /\ pnet' = [pnet EXCEPT ![p] = SnapOf(p)]
       /\ UNCHANGED <<srv, route, visits, store, streams, pdata, tdata, tnet, recon>>
    \/ /\ tnet[p] = NoTurns /\ tnet' = [tnet EXCEPT ![p] = PageOf(srv[p].turns)]
       /\ UNCHANGED <<srv, route, visits, store, streams, pdata, pnet, tdata, recon>>
    \/ /\ recon # None /\ recon.pid = p /\ recon.net = Asked
       /\ recon' = [recon EXCEPT !.net = SnapOf(p)]
       /\ UNCHANGED <<srv, route, visits, store, streams, queries>>

PlaythroughArrives(p) ==
    /\ pnet[p] \notin {None, Asked}
    /\ pdata' = [pdata EXCEPT ![p] = pnet[p]] /\ pnet' = [pnet EXCEPT ![p] = None]
    /\ Effect(p, pnet[p], tdata[p], shown, active, result)
    /\ UNCHANGED <<srv, route, visits, narrating, gen, cancel, buf, streams, tdata, tnet, recon>>

TurnsArrive(p) ==
    /\ tnet[p] \notin {Idle, NoTurns}
    /\ tdata' = [tdata EXCEPT ![p] = tnet[p]] /\ tnet' = [tnet EXCEPT ![p] = Idle]
    /\ Effect(p, pdata[p], tnet[p], shown, active, result)
    /\ UNCHANGED <<srv, route, visits, narrating, gen, cancel, buf, streams, pdata, pnet, recon>>

\* PlayPage mounts: cached answers are shown at once, and both are read again.
OpenPage(p) ==
    /\ route = {} /\ visits < MaxVisits
    /\ route' = {p} /\ visits' = visits + 1
    /\ pnet' = [pnet EXCEPT ![p] = Asked] /\ tnet' = [tnet EXCEPT ![p] = NoTurns]
    /\ IF pdata[p] # None
          /\ (shown = None \/ Len(Build(p, pdata[p], tdata[p]).list) >= Len(shown.list))
       THEN /\ shown' = Build(p, pdata[p], tdata[p]) /\ active' = pdata[p].pend
            /\ result' = IF pdata[p].pend = 0 THEN None ELSE result
       ELSE UNCHANGED <<shown, active, result>>
    /\ UNCHANGED <<srv, narrating, gen, cancel, buf, streams, pdata, tdata, recon>>

\* The page unmounts; the store and its stream live on.
LeavePage ==
    /\ route # {} /\ route' = {}
    /\ UNCHANGED <<srv, visits, store, streams, queries, recon>>

-----------------------------------------------------------------------------
StreamStep(s) ==
    \/ Deliver(s) \/ ServerRefuses(s)
    \/ \E seen \in BOOLEAN : ServerDegrades(s, seen)
    \/ \E trigger, ends, seen \in BOOLEAN : ServerCommits(s, trigger, ends, seen)

NetStep ==
    \/ \E s \in streams : StreamStep(s)
    \/ \E p \in Pids : ServerReads(p) \/ PlaythroughArrives(p) \/ TurnsArrive(p)
    \/ ReconcileFails \/ ReconcileGone \/ ReconcileResends

UserStep ==
    \/ SubmitTurn \/ StopGeneration \/ LeavePage
    \/ \E tag \in {"played", "timeout"} : SubmitMinigameResult(tag)
    \/ \E status \in {"retryable", "terminal"} : AskAgain(status)
    \/ \E p \in Pids : OpenPage(p)

Next ==
    \/ NetStep \/ UserStep
    \/ \E s \in streams : \E how \in {"error", "close"} : Break(s, how)

\* The service answers the current stream or breaks it off, and the browser
\* delivers what arrives on it.
Fairness == WF_vars(\E s \in streams : Own(s) /\ StreamStep(s))

Spec == Init /\ [][Next]_vars /\ Fairness

-----------------------------------------------------------------------------
(* Every variable keeps its type. *)
TypeOK ==
    /\ srv \in [Pids -> [turns: Turn, pend: Turn, ended: BOOLEAN]]
    /\ route \in SUBSET Pids /\ visits \in 0..MaxVisits
    /\ shown \in Shown \cup {None} /\ active \in Turn /\ result \in Result \cup {None}
    /\ narrating \in BOOLEAN /\ gen \in Gen /\ cancel \in Gen
    /\ buf \in [img: Gen, sum: Gen, trig: Turn, trigOf: Gen, end: Gen, cut: BOOLEAN]
    /\ streams \in SUBSET Stream
    /\ pdata \in [Pids -> Snap \cup {None}] /\ pnet \in [Pids -> Snap \cup {None, Asked}]
    /\ tdata \in [Pids -> -1..MaxTurns] /\ tnet \in [Pids -> -2..MaxTurns]
    /\ recon \in Recon \cup {None}

\* The store still waits for the terminal event of the stream.
Live(s) == s.open /\ ~s.over

\* The screen never says "narrating" without a stream that will end it: the
\* stream of the current generation is connected and has not had its terminal
\* event.
NarratingOwned == narrating => \E s \in streams : Live(s) /\ Own(s)

\* At most one connection is waited for: whatever replaced a stream aborted it.
OneLive == \A s, t \in streams : Live(s) /\ Live(t) => s = t

\* A recorded minigame outcome that is being saved has a stream or a read that
\* will say how it went; nothing else would take it out of "submitting" or
\* "reconciling", where the overlay offers no button.  Only the timeout fallback
\* may bring back an outcome that was dropped while it asked the service.
SavingMoves ==
    result # None =>
        /\ result.status = "submitting" /\ ~result.fallback
             => \E s \in streams : Live(s) /\ Own(s) /\ s.att # 0
        /\ result.status = "reconciling" => recon # None

\* The same for the timeout fallback.
FallbackMoves ==
    result # None /\ result.status = "submitting" => \E s \in streams : Live(s) /\ Own(s) /\ s.att # 0

\* The ownership of streams that the store relies on, with the types.
StreamOwnership == TypeOK /\ NarratingOwned /\ OneLive /\ SavingMoves

\* The image, the summary, the minigame and the ending that a commit attaches
\* or promotes were received on the stream that is being committed: nothing
\* buffered by a stopped or failed turn leaks into the next one.  Only what a
\* submission replaced while it ran may stay (see cut).
OwnDraft ==
    [][\A s \in streams : ~buf.cut /\ Deliver(s) /\ Own(s) /\ Head(s.q).e = "done"
          => {buf.img, buf.sum, buf.trigOf, buf.end} \subseteq {0, s.g}]_vars

NothingInFlight ==
    /\ streams = {} /\ recon = None
    /\ \A p \in route : pnet[p] = None /\ tnet[p] = Idle

\* The screen lists the turns of its own story, once each.
InOrder == \A i \in DOMAIN shown.list : shown.list[i] = i

\* "The API snapshot is authoritative": when all answers have arrived, the
\* screen renders the state (whose turn it is, the pending minigame, the
\* inventory) of the latest one.  This holds up to the limit of one page of
\* GET /turns and no further: a screen that has committed a turn beyond it
\* lists more turns than any answer and drops every later snapshot until the
\* page is loaded anew.  So does one that lists a turn twice or a turn of
\* another story.
SnapshotIsShown ==
    \A p \in route :
        NothingInFlight /\ shown # None /\ pdata[p] # None /\ shown.id = p
        /\ InOrder /\ Len(shown.list) <= PageSize
            => shown.asOf = pdata[p].turns

\* What the player sees has a stream behind it, or is the latest answer.
ScreenSound == StreamOwnership /\ SnapshotIsShown

\* "Kept until the server's terminal done event confirms the pending encounter
\* was consumed": a recorded outcome is only dropped when the service no longer
\* waits for it.
OutcomeRetained ==
    [][result # None /\ result' = None => srv[shown.id].pend # result.att]_vars

\* A narration is appended to the playthrough whose turn it is.
CommitsToItsStory ==
    [][\A s \in streams : Deliver(s) /\ Own(s) /\ Head(s.q).e = "done" => s.pid = shown.id]_vars

\* "Thinking" ends, whatever the services and the network do.
NarrationEnds == narrating ~> ~narrating
=============================================================================
