-------------------------- MODULE PlayClientProofs --------------------------
(* PlayClient for any playthroughs, page sizes and numbers of submissions:    *)
(* whatever the player, the services and the network do, at most one stream   *)
(* is waited for and "narrating" has one; what a commit attaches came on its  *)
(* own stream; and a screen that lists no more turns than a page shows the     *)
(* story as it was last read.                                                 *)
EXTENDS PlayClient, SequenceTheorems, TLAPS

(* A stream has these fields; what is queued on it does not matter here.      *)
Fields == {"g", "pid", "att", "open", "answered", "over", "q"}

IsStream(s) ==
    /\ DOMAIN s = Fields
    /\ s.g \in 1..gen

(* The streams are numbered apart, and the live one is both the current one    *)
(* and the one that cancel_stream_fn aborts.                                  *)
Numbered ==
    /\ gen \in Nat
    /\ \A s \in streams : IsStream(s)
    /\ \A s, t \in streams : s.g = t.g => s = t

Cancellable == \A s \in streams : Live(s) => s.g = gen /\ s.g = cancel

IInv == Numbered /\ Cancellable /\ NarratingOwned

-----------------------------------------------------------------------------
(* Streams that start, stop and are replaced. *)

LEMMA Aborting ==
  ASSUME IInv, NEW a \in Abort(streams, cancel)
  PROVE  /\ DOMAIN a = Fields
         /\ ~Live(a)
         /\ \E s \in streams : a.g = s.g /\ a = IF s.g = cancel THEN [s EXCEPT !.open = FALSE, !.q = <<>>] ELSE s
<1>1. PICK s \in streams : a = IF s.g = cancel THEN [s EXCEPT !.open = FALSE, !.q = <<>>] ELSE s
  BY DEF Abort
<1>2. IsStream(s)
  BY DEF IInv, Numbered
<1>3. CASE s.g = cancel
  <2>1. a = [s EXCEPT !.open = FALSE, !.q = <<>>]
    BY <1>1, <1>3
  <2>2. DOMAIN a = Fields /\ a.g = s.g /\ ~a.open
    BY <1>2, <2>1 DEF IsStream, Fields
  <2>3. QED
    BY <1>1, <2>2 DEF Live
<1>4. CASE s.g # cancel
  BY <1>1, <1>2, <1>4 DEF IsStream, IInv, Cancellable
<1>5. QED
  BY <1>3, <1>4

LEMMA AbortedApart ==
  ASSUME IInv, NEW a \in Abort(streams, cancel), NEW b \in Abort(streams, cancel), a.g = b.g
  PROVE  a = b
<1>1. PICK s \in streams : a.g = s.g /\ a = IF s.g = cancel THEN [s EXCEPT !.open = FALSE, !.q = <<>>] ELSE s
  BY Aborting
<1>2. PICK t \in streams : b.g = t.g /\ b = IF t.g = cancel THEN [t EXCEPT !.open = FALSE, !.q = <<>>] ELSE t
  BY Aborting
<1>3. s = t
  BY <1>1, <1>2 DEF IInv, Numbered
<1>4. QED
  BY <1>1, <1>2, <1>3

LEMMA StartStreamKeeps ==
  ASSUME IInv, NEW p, NEW att, StartStream(p, att)
  PROVE  IInv' /\ \E s \in streams' : Live(s) /\ s.att = att /\ s.g = gen'
<1>1. gen' = gen + 1 /\ cancel' = gen + 1 /\ gen \in Nat /\ gen' \in Nat
  BY DEF StartStream, IInv, Numbered
<1>2. Post(p, att) \in streams'
  BY DEF StartStream
<1>3. /\ Post(p, att).g = gen + 1 /\ Post(p, att).att = att /\ Live(Post(p, att))
      /\ DOMAIN Post(p, att) = Fields
  BY DEF Post, Live, Fields
<1>4. \A s \in streams' : s \in Abort(streams, cancel) \/ s = Post(p, att)
  BY DEF StartStream
<1>5. \A a \in Abort(streams, cancel) : a.g \in 1..gen
  <2> TAKE a \in Abort(streams, cancel)
  <2>1. PICK s \in streams : a.g = s.g
    BY Aborting
  <2>2. QED
    BY <2>1 DEF IInv, Numbered, IsStream
<1>6. Numbered'
  <2>1. ASSUME NEW s \in streams' PROVE IsStream(s)'
    <3>1. s.g \in 1..gen'
      BY <1>1, <1>3, <1>4, <1>5
    <3>2. QED
      BY <1>3, <1>4, <3>1, Aborting DEF IsStream
  <2>2. ASSUME NEW s \in streams', NEW t \in streams', s.g = t.g PROVE s = t
    <3>1. \A a \in Abort(streams, cancel) : a.g # gen + 1
      BY <1>1, <1>5
    <3>2. QED
      BY <1>3, <1>4, <2>2, <3>1, AbortedApart
  <2>3. QED
    BY <1>1, <2>1, <2>2 DEF Numbered
<1>7. Cancellable'
  BY <1>1, <1>3, <1>4, Aborting DEF Cancellable, Live
<1>8. NarratingOwned'
  BY <1>1, <1>2, <1>3 DEF NarratingOwned, Own, Live
<1>9. QED
  BY <1>1, <1>2, <1>3, <1>6, <1>7, <1>8 DEF IInv

LEMMA StopGenerationKeeps ==
  ASSUME IInv, StopGeneration
  PROVE  IInv'
<1>1. gen' = gen + 1 /\ gen \in Nat /\ gen' \in Nat /\ ~narrating'
  BY DEF StopGeneration, IInv, Numbered
<1>2. \A s \in streams' : s \in Abort(streams, cancel)
  BY DEF StopGeneration
<1>3. ASSUME NEW s \in streams' PROVE IsStream(s)'
  <2>1. PICK t \in streams : s.g = t.g
    BY <1>2, Aborting
  <2>2. s.g \in 1..gen'
    BY <1>1, <2>1 DEF IInv, Numbered, IsStream
  <2>3. QED
    BY <1>2, <2>2, Aborting DEF IsStream
<1>4. Numbered'
  BY <1>1, <1>2, <1>3, AbortedApart DEF Numbered
<1>5. Cancellable'
  BY <1>2, Aborting DEF Cancellable, Live
<1>6. QED
  BY <1>1, <1>4, <1>5 DEF IInv, NarratingOwned

-----------------------------------------------------------------------------
(* What arrives on a stream. *)

(* s is replaced by at most one stream of its number, whose liveness it had.   *)
LEMMA ReplaceKeeps ==
  ASSUME IInv, NEW s \in streams, NEW T,
         \A t \in T : /\ t.g = s.g
                      /\ DOMAIN t = Fields
                      /\ Live(t) => Live(s),
         \A t, u \in T : t = u,
         streams' = (streams \ {s}) \cup T, gen' = gen,
         narrating' => narrating,
         \/ UNCHANGED cancel
         \/ s.g = gen /\ \A t \in T : ~Live(t),
         \/ Live(s) /\ s.g = gen => \E t \in T : Live(t)
         \/ s.g = gen /\ ~narrating'
  PROVE  IInv'
<1>1. Numbered'
  <2>1. ASSUME NEW t \in streams' PROVE IsStream(t)'
    BY DEF IInv, Numbered, IsStream
  <2>2. ASSUME NEW t \in streams', NEW u \in streams', t.g = u.g PROVE t = u
    BY <2>2 DEF IInv, Numbered
  <2>3. QED
    BY <2>1, <2>2 DEF IInv, Numbered
<1>2. Cancellable'
  <2> SUFFICES ASSUME NEW t \in streams', Live(t) PROVE t.g = gen /\ t.g = cancel'
    BY DEF Cancellable, Live
  <2>1. CASE t \in T
    BY <2>1 DEF IInv, Cancellable
  <2>2. CASE t \in streams \ {s}
    <3>1. t.g = gen /\ t.g = cancel
      BY <2>2 DEF IInv, Cancellable
    <3>2. s.g # gen
      BY <2>2, <3>1 DEF IInv, Numbered
    <3>3. QED
      BY <3>1, <3>2
  <2>3. QED
    BY <2>1, <2>2
<1>3. NarratingOwned'
  <2> SUFFICES ASSUME narrating' PROVE \E t \in streams' : Live(t) /\ t.g = gen
    BY DEF NarratingOwned, Own, Live
  <2>1. PICK t \in streams : Live(t) /\ t.g = gen
    BY DEF IInv, NarratingOwned, Own
  <2>2. CASE t # s
    BY <2>1, <2>2
  <2>3. CASE t = s
    BY <2>1, <2>3
  <2>4. QED
    BY <2>2, <2>3
<1>4. QED
  BY <1>1, <1>2, <1>3 DEF IInv

(* The handlers: an event of a stream that is not the current one changes      *)
(* nothing; one of the current stream ends the narration if it is terminal.    *)
LEMMA HandleEffect ==
  ASSUME NEW s, NEW ev, Handle(s, ev)
  PROVE  /\ gen' = gen
         /\ narrating' \in {narrating, FALSE}
         /\ ~Own(s) => UNCHANGED <<narrating, cancel>>
         /\ cancel' = cancel \/ cancel' = 0
         /\ Own(s) /\ ev.e \in {"done", "degraded", "error"} => narrating' = FALSE
         /\ Own(s) /\ ev.e = "close" => narrating' = FALSE \/ s.over
         /\ Own(s) /\ cancel' # cancel => ev.e \in {"done", "degraded", "error", "close"}
<1>1. CASE ~Own(s)
  BY <1>1 DEF Handle, Quiet, store, Own
<1>2. CASE Own(s) /\ ev.e = "done"
  BY <1>2 DEF Handle, Commit
<1>3. CASE Own(s) /\ ev.e \in {"degraded", "error"}
  BY <1>3 DEF Handle, Fail
<1>4. CASE Own(s) /\ ev.e = "close"
  BY <1>4 DEF Handle, Fail, Quiet, store
<1>5. CASE Own(s) /\ ev.e \notin {"done", "degraded", "error", "close"}
  <2>1. Buffer(s, ev)
    BY <1>5 DEF Handle
  <2>2. QED
    BY <1>5, <2>1 DEF Buffer
<1>6. QED
  BY <1>1, <1>2, <1>3, <1>4, <1>5

LEMMA DeliverKeeps ==
  ASSUME IInv, NEW s \in streams, Deliver(s)
  PROVE  IInv'
<1> DEFINE ev == Head(s.q)
           closed == [s EXCEPT !.open = FALSE, !.q = <<>>]
           ended == s.over \/ (Own(s) /\ ev.e \in {"done", "degraded"})
           next == [s EXCEPT !.q = Tail(s.q), !.over = ended]
           T == IF ev.e \in {"error", "close"} THEN IF s.answered THEN {} ELSE {closed} ELSE {next}
<1>1. s.open /\ Handle(s, ev) /\ streams' = (streams \ {s}) \cup T
  BY DEF Deliver
<1>2. /\ gen' = gen
      /\ narrating' \in {narrating, FALSE}
      /\ ~Own(s) => UNCHANGED <<narrating, cancel>>
      /\ cancel' = cancel \/ cancel' = 0
      /\ Own(s) /\ ev.e \in {"done", "degraded", "error"} => narrating' = FALSE
      /\ Own(s) /\ ev.e = "close" => narrating' = FALSE \/ s.over
      /\ Own(s) /\ cancel' # cancel => ev.e \in {"done", "degraded", "error", "close"}
  BY <1>1, HandleEffect
<1>3. IsStream(s)
  BY DEF IInv, Numbered
<1>4. /\ DOMAIN closed = Fields /\ closed.g = s.g /\ ~closed.open
      /\ DOMAIN next = Fields /\ next.g = s.g /\ next.open = s.open
      /\ next.over = ended
  <2> HIDE DEF ended
  <2>1. QED
    BY <1>3 DEF IsStream, Fields
<1> HIDE DEF ev, closed, next
<1>5. /\ closed.g = s.g /\ ~Live(closed)
      /\ DOMAIN closed = Fields
  BY <1>4 DEF Live
<1>6. /\ next.g = s.g
      /\ DOMAIN next = Fields
      /\ next.open = s.open
  BY <1>4
<1>7. Live(next) <=> Live(s) /\ ~(Own(s) /\ ev.e \in {"done", "degraded"})
  BY <1>4, Zenon DEF Live
<1>8. \A t \in T : /\ t.g = s.g
                   /\ DOMAIN t = Fields
                   /\ Live(t) => Live(s)
  BY <1>5, <1>6, <1>7
<1>9. \A t, u \in T : t = u
  OBVIOUS
<1>10. narrating' => narrating
  BY <1>2
<1>11. UNCHANGED cancel \/ (s.g = gen /\ \A t \in T : ~Live(t))
  BY <1>2, <1>5, <1>7 DEF Own
<1>12. (Live(s) /\ s.g = gen => \E t \in T : Live(t)) \/ (s.g = gen /\ ~narrating')
  BY <1>2, <1>7 DEF Own, Live
<1> HIDE DEF T
<1>13. QED
  BY <1>1, <1>2, <1>8, <1>9, <1>10, <1>11, <1>12, ReplaceKeeps

(* An answer of the service, or a break of the connection.                     *)
LEMMA AnswerKeeps ==
  ASSUME IInv, NEW s \in streams, NEW t,
         streams' = (streams \ {s}) \cup IF s.open THEN {t} ELSE {},
         DOMAIN t = Fields, t.g = s.g, t.open = s.open, t.over = s.over,
         UNCHANGED <<gen, narrating, cancel>>
  PROVE  IInv'
<1> DEFINE T == IF s.open THEN {t} ELSE {}
<1>1. t.g = s.g /\ (Live(t) <=> Live(s))
  BY DEF Live
<1>3. \A u \in T : /\ u.g = s.g
                   /\ DOMAIN u = Fields
                   /\ Live(u) => Live(s)
  BY <1>1
<1>4. Live(s) => \E u \in T : Live(u)
  BY <1>1 DEF Live
<1>5. \A u, v \in T : u = v
  OBVIOUS
<1>6. streams' = (streams \ {s}) \cup T
  OBVIOUS
<1> HIDE DEF T
<1>7. QED
  BY <1>3, <1>4, <1>5, <1>6, ReplaceKeeps

LEMMA ReplyKeeps ==
  ASSUME IInv, NEW s \in streams, NEW events, Reply(s, events), UNCHANGED <<gen, narrating, cancel>>
  PROVE  IInv'
<1> DEFINE t == [s EXCEPT !.answered = TRUE, !.q = IF s.q = <<>> THEN events ELSE s.q]
<1>1. IsStream(s)
  BY DEF IInv, Numbered
<1>2. DOMAIN t = Fields /\ t.g = s.g /\ t.open = s.open /\ t.over = s.over
  <2> DEFINE queue == IF s.q = <<>> THEN events ELSE s.q
  <2> HIDE DEF queue
  <2>1. t = [s EXCEPT !.answered = TRUE, !.q = queue]
    BY DEF queue
  <2>2. QED
    BY <1>1, <2>1 DEF IsStream, Fields
<1>3. streams' = (streams \ {s}) \cup IF s.open THEN {t} ELSE {}
  <2>1. t = [s EXCEPT !.answered = TRUE, !.q = IF s.q = <<>> THEN events ELSE @]
    BY <1>1 DEF IsStream
  <2>2. QED
    BY <2>1 DEF Reply
<1> HIDE DEF t
<1>5. QED
  BY <1>2, <1>3, AnswerKeeps

LEMMA BreakKeeps ==
  ASSUME IInv, NEW s \in streams, NEW how, Break(s, how)
  PROVE  IInv'
<1> DEFINE t == [s EXCEPT !.q = <<[e |-> how]>>]
<1>1. IsStream(s)
  BY DEF IInv, Numbered
<1>2. DOMAIN t = Fields /\ t.g = s.g /\ t.open = s.open /\ t.over = s.over
  BY <1>1 DEF IsStream, Fields
<1>3. /\ streams' = (streams \ {s}) \cup IF s.open THEN {t} ELSE {}
      /\ UNCHANGED <<gen, narrating, cancel>>
  BY DEF Break, store
<1> HIDE DEF t
<1>5. QED
  BY <1>2, <1>3, AnswerKeeps

LEMMA StreamStepKeeps ==
  ASSUME IInv, NEW s \in streams, StreamStep(s)
  PROVE  IInv'
<1>1. CASE Deliver(s)
  BY <1>1, DeliverKeeps
<1>2. CASE ServerRefuses(s)
  BY <1>2, ReplyKeeps DEF ServerRefuses, store
<1>3. CASE \E seen \in BOOLEAN : ServerDegrades(s, seen)
  BY <1>3, ReplyKeeps DEF ServerDegrades, store
<1>4. ASSUME NEW trigger \in BOOLEAN, NEW ends \in BOOLEAN, NEW seen \in BOOLEAN,
             ServerCommits(s, trigger, ends, seen)
      PROVE  IInv'
  <2>1. PICK events : Reply(s, events)
    BY <1>4 DEF ServerCommits
  <2>2. UNCHANGED <<gen, narrating, cancel>>
    BY <1>4 DEF ServerCommits, store
  <2>3. QED
    BY <2>1, <2>2, ReplyKeeps
<1>5. QED
  BY <1>1, <1>2, <1>3, <1>4 DEF StreamStep

-----------------------------------------------------------------------------
(* Everything else leaves the streams alone, or starts one. *)

LEMMA ElsewhereKeeps ==
  ASSUME IInv, UNCHANGED <<streams, gen, cancel>>, narrating' => narrating
  PROVE  IInv'
BY DEF IInv, Numbered, IsStream, Cancellable, NarratingOwned, Own, Live

LEMMA StepKeeps == IInv /\ [Next]_vars => IInv'
<1> SUFFICES ASSUME IInv, [Next]_vars PROVE IInv'
  OBVIOUS
<1>1. CASE \E s \in streams : StreamStep(s)
  BY <1>1, StreamStepKeeps
<1>2. CASE \E s \in streams : \E how \in {"error", "close"} : Break(s, how)
  BY <1>2, BreakKeeps
<1>3. CASE SubmitTurn \/ (\E tag \in {"played", "timeout"} : SubmitMinigameResult(tag)) \/ ReconcileResends
  <2>1. PICK p, att : StartStream(p, att)
    BY <1>3 DEF SubmitTurn, SubmitMinigameResult, ReconcileResends
  <2>2. QED
    BY <2>1, StartStreamKeeps
<1>4. CASE StopGeneration
  BY <1>4, StopGenerationKeeps
<1>5. CASE ReconcileFails \/ ReconcileGone
  BY <1>5, ElsewhereKeeps DEF ReconcileFails, ReconcileGone
<1>6. CASE LeavePage \/ \E status \in {"retryable", "terminal"} : AskAgain(status)
  BY <1>6, ElsewhereKeeps DEF LeavePage, AskAgain, store
<1>7. CASE \E p \in Pids : OpenPage(p) \/ PlaythroughArrives(p) \/ TurnsArrive(p)
  BY <1>7, ElsewhereKeeps DEF OpenPage, PlaythroughArrives, TurnsArrive
<1>8. CASE \E p \in Pids : ServerReads(p)
  BY <1>8, ElsewhereKeeps DEF ServerReads, store
<1>9. CASE UNCHANGED vars
  BY <1>9, ElsewhereKeeps DEF vars, store
<1>10. QED
  BY <1>1, <1>2, <1>3, <1>4, <1>5, <1>6, <1>7, <1>8, <1>9 DEF Next, NetStep, UserStep

LEMMA InitHolds == Init => IInv
BY DEF Init, IInv, Numbered, Cancellable, NarratingOwned

\* Streams are numbered apart, and the one that is waited for is the current
\* one, which is also the one that cancel_stream_fn aborts (play.store.ts).
THEOREM Invariant == Spec => []IInv
BY InitHolds, StepKeeps, PTL DEF Spec

-----------------------------------------------------------------------------
(* Outcomes that are being saved. *)

ResultFields == {"k", "id", "att", "tag", "attempts", "status", "fallback"}
ReconFields == {"k", "pid", "res", "net"}
IsResult(r) == DOMAIN r = ResultFields /\ r.att # 0
IsRecon(c) == DOMAIN c = ReconFields /\ IsResult(c.res) /\ c.res.status \in {"retryable", "terminal"}

(* The stream of the current generation carries an outcome. *)
Carried == \E s \in streams : Live(s) /\ s.g = gen /\ s.att # 0

(* An outcome belongs to an encounter on screen, unless the timeout fallback   *)
(* brought it back, and a read that was asked for belongs to the outcome.     *)
Kept ==
    /\ result # None => IsResult(result) /\ (active = 0 => result.fallback)
    /\ recon # None => IsRecon(recon)
    /\ result # None /\ result.status = "reconciling" => recon # None /\ recon.res.id = result.id
    /\ result # None /\ result.status = "submitting" /\ ~result.fallback => Carried

LEMMA NoneIsNone == \A r : IsResult(r) \/ IsRecon(r) => r # None
BY DEF IsResult, IsRecon, ResultFields, ReconFields, None

(* A snapshot drops the outcome or leaves it under an encounter.               *)
LEMMA EffectKeeps ==
  ASSUME NEW p, NEW snap, NEW n, NEW act, NEW res, Effect(p, snap, n, shown, act, res)
  PROVE  \/ result' = None
         \/ result' = res /\ active' # 0
         \/ result' = res /\ active' = act
BY DEF Effect

(* What leaves the outcome, the streams and the read, or drops the outcome.    *)
LEMMA SameOutcome ==
  ASSUME Kept, UNCHANGED <<recon, streams, gen>>,
         \/ result' = None
         \/ result' = result /\ active' # 0
         \/ result' = result /\ active' = active
  PROVE  Kept'
BY DEF Kept, Carried, Live

(* What an event does to the outcome.                                          *)
LEMMA HandleOutcome ==
  ASSUME NEW s, NEW ev, Handle(s, ev)
  PROVE  \/ /\ UNCHANGED <<result, active>>
            /\ Own(s) /\ ev.e \in {"degraded", "error", "close"} => s.att = 0 \/ result = None \/ s.over
            /\ Own(s) => ev.e # "done"
         \/ result' = None
         \/ /\ result # None /\ active' = active
            /\ \E status \in {"terminal", "retryable"} : result' = [result EXCEPT !.status = status]
<1>1. CASE ~Own(s)
  BY <1>1 DEF Handle, Quiet, store, Own
<1>2. CASE Own(s) /\ ev.e = "done"
  BY <1>2 DEF Handle, Commit
<1>3. ASSUME Fail(s), ev.e \in {"degraded", "error", "close"}
      PROVE  \/ UNCHANGED <<result, active>> /\ (s.att = 0 \/ result = None)
             \/ /\ result # None /\ active' = active
                /\ \E status \in {"terminal", "retryable"} : result' = [result EXCEPT !.status = status]
  BY <1>3 DEF Fail
<1>4. CASE Own(s) /\ ev.e \in {"degraded", "error"}
  <2>1. Fail(s)
    BY <1>4 DEF Handle
  <2>2. ev.e # "done"
    BY <1>4
  <2>3. QED
    BY <1>3, <1>4, <2>1, <2>2
<1>5. CASE Own(s) /\ ev.e = "close"
  <2>1. CASE s.over
    BY <1>5, <2>1 DEF Handle, Quiet, store
  <2>2. CASE ~s.over
    <3>1. Fail(s)
      BY <1>5, <2>2 DEF Handle
    <3>2. QED
      BY <1>3, <1>5, <3>1
  <2>3. QED
    BY <2>1, <2>2
<1>6. CASE Own(s) /\ ev.e \notin {"done", "degraded", "error", "close"}
  <2>1. Buffer(s, ev)
    BY <1>6 DEF Handle
  <2>2. QED
    BY <1>6, <2>1 DEF Buffer
<1>7. QED
  BY <1>1, <1>2, <1>4, <1>5, <1>6

LEMMA DeliverKept ==
  ASSUME IInv, Kept, NEW s \in streams, Deliver(s)
  PROVE  Kept'
<1> DEFINE ev == Head(s.q)
           ended == s.over \/ (Own(s) /\ ev.e \in {"done", "degraded"})
           next == [s EXCEPT !.q = Tail(s.q), !.over = ended]
<1>1. /\ Handle(s, ev) /\ s.open /\ UNCHANGED recon
      /\ ev.e \notin {"error", "close"} => streams' = (streams \ {s}) \cup {next}
      /\ streams \ {s} \subseteq streams'
  BY DEF Deliver
<1>2. gen' = gen
  BY <1>1, HandleEffect
<1>3. /\ next.g = s.g /\ next.open = s.open /\ next.att = s.att /\ next.over = ended
  <2> HIDE DEF ended
  <2>1. QED
    BY DEF IInv, Numbered, IsStream, Fields
<1>4. CASE result' = None
  BY <1>1, <1>4 DEF Kept
<1>5. CASE /\ result # None /\ active' = active
           /\ \E status \in {"terminal", "retryable"} : result' = [result EXCEPT !.status = status]
  BY <1>1, <1>5 DEF Kept, IsResult, ResultFields, IsRecon
<1>6. CASE /\ UNCHANGED <<result, active>>
           /\ Own(s) /\ ev.e \in {"degraded", "error", "close"} => s.att = 0 \/ result = None \/ s.over
           /\ Own(s) => ev.e # "done"
  <2> HIDE DEF ev, next
  <2>1. ASSUME Carried, result # None PROVE Carried'
    <3>1. PICK w \in streams : Live(w) /\ w.g = gen /\ w.att # 0
      BY <2>1 DEF Carried
    <3>2. CASE w # s
      BY <1>1, <1>2, <3>1, <3>2 DEF Carried, Live
    <3>3. CASE w = s
      <4>1. ev.e \notin {"degraded", "error", "close", "done"}
        BY <1>6, <2>1, <3>1, <3>3 DEF Own, Live
      <4>2. next \in streams' /\ Live(next) /\ next.g = gen /\ next.att # 0
        BY <1>1, <1>3, <3>1, <3>3, <4>1 DEF Live
      <4>3. QED
        BY <1>2, <4>2 DEF Carried, Live
    <3>4. QED
      BY <3>2, <3>3
  <2>2. QED
    BY <1>1, <1>6, <2>1 DEF Kept
<1>7. QED
  BY <1>1, <1>4, <1>5, <1>6, HandleOutcome

(* The service and the network do not touch the outcome, nor what carries it.  *)
LEMMA AnswerKept ==
  ASSUME IInv, Kept, NEW s \in streams, NEW t,
         streams' = (streams \ {s}) \cup IF s.open THEN {t} ELSE {},
         t.g = s.g, t.open = s.open, t.over = s.over, t.att = s.att,
         UNCHANGED <<gen, active, result, recon>>
  PROVE  Kept'
<1>1. Carried => Carried'
  <2> SUFFICES ASSUME NEW w \in streams, Live(w), w.g = gen, w.att # 0
               PROVE  Carried'
    BY DEF Carried
  <2>1. CASE w # s
    BY <2>1 DEF Carried, Live
  <2>2. CASE w = s
    BY <2>2 DEF Carried, Live
  <2>3. QED
    BY <2>1, <2>2
<1>2. QED
  BY <1>1 DEF Kept

LEMMA ReplyKept ==
  ASSUME IInv, Kept, NEW s \in streams, NEW events, Reply(s, events), UNCHANGED <<gen, active, result, recon>>
  PROVE  Kept'
<1> DEFINE queue == IF s.q = <<>> THEN events ELSE s.q
           t == [s EXCEPT !.answered = TRUE, !.q = queue]
<1>1. streams' = (streams \ {s}) \cup IF s.open THEN {t} ELSE {}
  <2>1. t = [s EXCEPT !.answered = TRUE, !.q = IF s.q = <<>> THEN events ELSE @]
    BY DEF IInv, Numbered, IsStream, Fields
  <2>2. QED
    BY <2>1 DEF Reply
<1> HIDE DEF queue
<1>2. t.g = s.g /\ t.open = s.open /\ t.over = s.over /\ t.att = s.att
  BY DEF IInv, Numbered, IsStream, Fields
<1> HIDE DEF t
<1>3. QED
  BY <1>1, <1>2, AnswerKept

LEMMA StreamStepKept ==
  ASSUME IInv, Kept, NEW s \in streams, StreamStep(s)
  PROVE  Kept'
<1>1. CASE Deliver(s)
  BY <1>1, DeliverKept
<1>2. CASE ServerRefuses(s)
  BY <1>2, ReplyKept DEF ServerRefuses, store
<1>3. CASE \E seen \in BOOLEAN : ServerDegrades(s, seen)
  BY <1>3, ReplyKept DEF ServerDegrades, store
<1>4. ASSUME NEW trigger \in BOOLEAN, NEW ends \in BOOLEAN, NEW seen \in BOOLEAN,
             ServerCommits(s, trigger, ends, seen)
      PROVE  Kept'
  <2>1. PICK events : Reply(s, events)
    BY <1>4 DEF ServerCommits
  <2>2. UNCHANGED <<gen, active, result, recon>>
    BY <1>4 DEF ServerCommits, store
  <2>3. QED
    BY <2>1, <2>2, ReplyKept
<1>5. QED
  BY <1>1, <1>2, <1>3, <1>4 DEF StreamStep

LEMMA BreakKept ==
  ASSUME IInv, Kept, NEW s \in streams, NEW how, Break(s, how)
  PROVE  Kept'
<1> DEFINE t == [s EXCEPT !.q = <<[e |-> how]>>]
<1>1. t.g = s.g /\ t.open = s.open /\ t.over = s.over /\ t.att = s.att
  BY DEF IInv, Numbered, IsStream, Fields
<1>2. /\ streams' = (streams \ {s}) \cup IF s.open THEN {t} ELSE {}
      /\ UNCHANGED <<gen, active, result, recon>>
  BY DEF Break, store
<1> HIDE DEF t
<1>3. QED
  BY <1>1, <1>2, AnswerKept

(* The submissions.                                                            *)
LEMMA SubmitKept ==
  ASSUME IInv, Kept, SubmitTurn \/ StopGeneration
  PROVE  Kept'
<1>1. active = 0 /\ UNCHANGED <<active, result, recon>>
  BY DEF SubmitTurn, StopGeneration
<1>2. QED
  BY <1>1 DEF Kept

LEMMA SubmitResultKept ==
  ASSUME IInv, Kept, NEW tag, SubmitMinigameResult(tag)
  PROVE  Kept'
<1>1. /\ active # 0 /\ StartStream(shown.id, active)
      /\ result' = [k |-> "result", id |-> gen + 1, att |-> active, tag |-> tag, attempts |-> 1,
                    status |-> "submitting", fallback |-> FALSE]
      /\ UNCHANGED <<active, recon>>
  BY DEF SubmitMinigameResult
<1>2. IsResult(result') /\ result'.status = "submitting"
  BY <1>1 DEF IsResult, ResultFields
<1>3. Carried'
  BY <1>1, StartStreamKeeps DEF Carried, Live
<1>4. QED
  BY <1>1, <1>2, <1>3 DEF Kept

(* The read of a retry or a fallback, and what follows it.                     *)
LEMMA AskAgainKept ==
  ASSUME IInv, Kept, NEW status \in {"retryable", "terminal"}, AskAgain(status)
  PROVE  Kept'
<1>1. /\ result # None /\ result.status = status /\ IsResult(result)
      /\ result' = [result EXCEPT !.status = "reconciling"]
      /\ recon' = [k |-> "recon", pid |-> shown.id, res |-> result, net |-> Asked]
      /\ UNCHANGED <<active, gen, streams>>
  BY DEF AskAgain, Kept
<1>2. IsResult(result') /\ result'.id = result.id /\ result'.status = "reconciling" /\ result'.fallback = result.fallback
  BY <1>1 DEF IsResult, ResultFields
<1>3. IsRecon(recon') /\ recon'.res = result
  BY <1>1 DEF IsRecon, ReconFields
<1>4. recon' # None
  BY <1>3, NoneIsNone
<1>5. QED
  BY <1>1, <1>2, <1>3, <1>4 DEF Kept

LEMMA ReconcileFailsKept ==
  ASSUME IInv, Kept, ReconcileFails
  PROVE  Kept'
<1>1. /\ recon # None /\ recon' = None /\ IsRecon(recon)
      /\ result' = IF SameResult(recon.res) THEN [result EXCEPT !.status = recon.res.status] ELSE result
      /\ UNCHANGED <<active, gen, streams>>
  BY DEF ReconcileFails, Kept
<1>2. CASE SameResult(recon.res)
  <2>1. result # None /\ IsResult(result)
    BY <1>2 DEF SameResult, Kept
  <2>2. /\ IsResult(result') /\ result'.fallback = result.fallback
        /\ result'.status \in {"retryable", "terminal"}
    BY <1>1, <1>2, <2>1 DEF IsResult, ResultFields, IsRecon
  <2>3. QED
    BY <1>1, <2>1, <2>2 DEF Kept
<1>3. CASE ~SameResult(recon.res)
  BY <1>1, <1>3 DEF SameResult, Kept, Carried, Live
<1>4. QED
  BY <1>2, <1>3

LEMMA ReconcileGoneKept ==
  ASSUME IInv, Kept, ReconcileGone
  PROVE  Kept'
<1>1. result' = None /\ recon' = None
  BY DEF ReconcileGone, Effect
<1>2. QED
  BY <1>1 DEF Kept

LEMMA ReconcileResendsKept ==
  ASSUME IInv, Kept, ReconcileResends
  PROVE  Kept'
<1> DEFINE captured == recon.res
           next == IF captured.status = "terminal"
                   THEN [captured EXCEPT !.id = gen + 1, !.tag = "timeout", !.attempts = 1,
                                         !.status = "submitting", !.fallback = TRUE]
                   ELSE IF SameResult(captured)
                        THEN [result EXCEPT !.attempts = captured.attempts + 1,
                                            !.status = "submitting"]
                        ELSE result
<1>1. /\ recon # None /\ IsRecon(recon) /\ IsResult(captured) /\ recon' = None
      /\ StartStream(recon.pid, captured.att)
  BY DEF ReconcileResends, Kept, IsRecon
<1>2. Effect(recon.pid, recon.net, tdata[recon.pid], shown, active, next)
  BY DEF ReconcileResends
<1>3. Carried'
  BY <1>1, StartStreamKeeps DEF Carried, Live, IsResult
<1>4. next # None => /\ IsResult(next) /\ (active = 0 => next.fallback)
                     /\ next.status # "reconciling"
  <2>1. CASE captured.status = "terminal"
    <3>1. next = [captured EXCEPT !.id = gen + 1, !.tag = "timeout", !.attempts = 1,
                                  !.status = "submitting", !.fallback = TRUE]
      BY <2>1
    <3> HIDE DEF next, captured
    <3>2. QED
      BY <1>1, <3>1 DEF IsResult, ResultFields
  <2>2. CASE captured.status # "terminal" /\ SameResult(captured)
    <3>1. next = [result EXCEPT !.attempts = captured.attempts + 1, !.status = "submitting"]
      BY <2>2
    <3>2. IsResult(result) /\ (active = 0 => result.fallback)
      BY <2>2 DEF SameResult, Kept
    <3> HIDE DEF next, captured
    <3>3. QED
      BY <3>1, <3>2 DEF IsResult, ResultFields
  <2>3. CASE captured.status # "terminal" /\ ~SameResult(captured)
    <3>1. next = result
      BY <2>3
    <3>2. result # None => result.status # "reconciling"
      BY <2>3 DEF Kept, SameResult
    <3> HIDE DEF next
    <3>3. QED
      BY <3>1, <3>2 DEF Kept
  <2>4. QED
    BY <2>1, <2>2, <2>3
<1> HIDE DEF next
<1>5. \/ result' = None
      \/ result' = next /\ active' # 0
      \/ result' = next /\ active' = active
  BY <1>2, EffectKeeps
<1>6. QED
  BY <1>1, <1>3, <1>4, <1>5 DEF Kept

LEMMA ReadsKept ==
  ASSUME IInv, Kept, NEW p \in Pids, ServerReads(p)
  PROVE  Kept'
<1>1. CASE UNCHANGED <<store, streams, recon>>
  BY <1>1, SameOutcome DEF store
<1>2. CASE recon # None /\ recon' = [recon EXCEPT !.net = SnapOf(p)] /\ UNCHANGED <<store, streams>>
  <2>1. IsRecon(recon') /\ recon'.res = recon.res
    BY <1>2 DEF Kept, IsRecon, ReconFields
  <2>2. recon' # None
    BY <2>1, NoneIsNone
  <2>3. QED
    BY <1>2, <2>1, <2>2 DEF Kept, Carried, Live, store
<1>3. QED
  BY <1>1, <1>2 DEF ServerReads

LEMMA PageKept ==
  ASSUME IInv, Kept, NEW p \in Pids, OpenPage(p) \/ PlaythroughArrives(p) \/ TurnsArrive(p)
  PROVE  Kept'
<1>1. UNCHANGED <<recon, streams, gen>>
  BY DEF OpenPage, PlaythroughArrives, TurnsArrive
<1>2. CASE OpenPage(p)
  <2>1. result' = None \/ (result' = result /\ active' # 0) \/ (result' = result /\ active' = active)
    BY <1>2 DEF OpenPage
  <2>2. QED
    BY <1>1, <2>1, SameOutcome
<1>3. CASE PlaythroughArrives(p) \/ TurnsArrive(p)
  <2>1. result' = None \/ (result' = result /\ active' # 0) \/ (result' = result /\ active' = active)
    BY <1>3, EffectKeeps DEF PlaythroughArrives, TurnsArrive
  <2>2. QED
    BY <1>1, <2>1, SameOutcome
<1>4. QED
  BY <1>2, <1>3

LEMMA StepKept == IInv /\ Kept /\ [Next]_vars => Kept'
<1> SUFFICES ASSUME IInv, Kept, [Next]_vars PROVE Kept'
  OBVIOUS
<1>1. CASE \E s \in streams : StreamStep(s)
  BY <1>1, StreamStepKept
<1>2. CASE \E s \in streams : \E how \in {"error", "close"} : Break(s, how)
  BY <1>2, BreakKept
<1>3. CASE SubmitTurn \/ StopGeneration \/ \E tag \in {"played", "timeout"} : SubmitMinigameResult(tag)
  BY <1>3, SubmitKept, SubmitResultKept
<1>4. CASE ReconcileFails \/ ReconcileGone \/ ReconcileResends
  BY <1>4, ReconcileFailsKept, ReconcileGoneKept, ReconcileResendsKept
<1>5. CASE \E status \in {"retryable", "terminal"} : AskAgain(status)
  BY <1>5, AskAgainKept
<1>6. CASE \E p \in Pids : OpenPage(p) \/ PlaythroughArrives(p) \/ TurnsArrive(p) \/ ServerReads(p)
  BY <1>6, PageKept, ReadsKept
<1>7. CASE LeavePage \/ UNCHANGED vars
  BY <1>7, SameOutcome DEF LeavePage, vars, store
<1>8. QED
  BY <1>1, <1>2, <1>3, <1>4, <1>5, <1>6, <1>7 DEF Next, NetStep, UserStep

-----------------------------------------------------------------------------
(* Types. *)

ScreenTyped ==
    /\ shown \in Shown \cup {None} /\ active \in Turn /\ result \in Result \cup {None}
    /\ narrating \in BOOLEAN /\ gen \in Gen /\ cancel \in Gen
    /\ buf \in [img: Gen, sum: Gen, trig: Turn, trigOf: Gen, end: Gen, cut: BOOLEAN]

CacheTyped ==
    /\ pdata \in [Pids -> Snap \cup {None}] /\ pnet \in [Pids -> Snap \cup {None, Asked}]
    /\ tdata \in [Pids -> -1..MaxTurns] /\ tnet \in [Pids -> -2..MaxTurns]

ServerTyped ==
    /\ srv \in [Pids -> [turns: Turn, pend: Turn, ended: BOOLEAN]]
    /\ route \in SUBSET Pids /\ visits \in 0..MaxVisits

(* A read that was asked for resends an outcome that has attempts left.        *)
ReconTyped ==
    /\ recon \in Recon \cup {None}
    /\ recon # None /\ recon.res.status = "retryable" => recon.res.attempts < MaxAttempts

(* Nothing is submitted and nothing is asked again before a story is on screen. *)
Somewhere == shown = None => streams = {} /\ recon = None

Typed == ScreenTyped /\ CacheTyped /\ ServerTyped /\ ReconTyped /\ streams \in SUBSET Stream /\ Somewhere

LEMMA TypedIsTypeOK == Typed => TypeOK
BY DEF Typed, ScreenTyped, CacheTyped, ServerTyped, ReconTyped, TypeOK

(* None and Asked are no snapshots, stories, outcomes or reads.                *)
LEMMA NoneApart ==
  /\ None \notin Snap /\ None \notin Shown /\ None \notin Result /\ None \notin Recon /\ None # Asked
  /\ Asked \notin Snap
BY DEF None, Asked, Snap, Shown, Result, Recon

LEMMA Bounds ==
  /\ MaxTurns \in Nat /\ MaxStreams \in Nat /\ MaxAttempts \in Nat /\ 1 \in 1..MaxAttempts
  /\ 0 \in Turn /\ 0 \in Gen
BY PlayAssumption DEF Turn, Gen

LEMMA InitTyped == Init => Typed
<1> SUFFICES ASSUME Init PROVE Typed
  OBVIOUS
<1>1. ScreenTyped /\ ReconTyped /\ streams \in SUBSET Stream /\ Somewhere
  BY Bounds DEF Init, ScreenTyped, ReconTyped, Somewhere, EmptyBuf
<1>2. CacheTyped
  <2>1. NoTurns \in -1..MaxTurns /\ Idle \in -2..MaxTurns
    BY Bounds DEF NoTurns, Idle
  <2>2. QED
    BY <2>1 DEF Init, CacheTyped
<1>3. ServerTyped
  <2>1. 0 \in Turn /\ 1 \in Turn /\ 0 \in 0..MaxVisits
    BY PlayAssumption DEF Turn
  <2>2. srv \in [Pids -> [turns: Turn, pend: Turn, ended: BOOLEAN]]
    <3> DEFINE at0 == [turns |-> 0, pend |-> 0, ended |-> FALSE]
               at1 == [turns |-> 1, pend |-> 1, ended |-> FALSE]
               Row == [turns: Turn, pend: Turn, ended: BOOLEAN]
    <3>1. at0 \in Row /\ at1 \in Row
      BY <2>1
    <3>2. srv \in [Pids -> {at0, at1}]
      BY DEF Init
    <3> HIDE DEF at0, at1
    <3>3. \A p \in Pids : srv[p] \in Row
      BY <3>1, <3>2
    <3>4. srv = [p \in Pids |-> srv[p]]
      BY <3>2
    <3>5. QED
      BY <3>3, <3>4
  <2>3. QED
    BY <2>1, <2>2 DEF Init, ServerTyped
<1>4. QED
  BY <1>1, <1>2, <1>3 DEF Typed

(* What the page shows is typed when the answers are.                          *)
Count(n) == IF n = NoTurns THEN 0 ELSE n

LEMMA BuildTyped ==
  ASSUME NEW p \in Pids, NEW snap \in Snap, NEW n \in -1..MaxTurns
  PROVE  /\ Build(p, snap, n) \in Shown /\ Build(p, snap, n) # None
         /\ Build(p, snap, n).list = [i \in 1..Count(n) |-> i] /\ Len(Build(p, snap, n).list) = Count(n)
         /\ Count(n) \in 0..MaxTurns
         /\ Build(p, snap, n).asOf = snap.turns /\ Build(p, snap, n).id = p
<1> DEFINE list == [i \in 1..Count(n) |-> i]
<1>1. Count(n) \in Nat /\ Count(n) <= MaxTurns
  BY Bounds DEF Count, NoTurns
<1>2. list \in Seq(Turn) /\ Len(list) = Count(n)
  <2>1. \A i \in 1..Count(n) : list[i] \in Turn
    BY <1>1, Bounds DEF Turn
  <2>2. QED
    BY <1>1, <2>1
<1>3. Build(p, snap, n) = [k |-> "shown", id |-> p, list |-> list, asOf |-> snap.turns, ended |-> snap.ended]
  BY DEF Build, Count
<1>4. snap.turns \in Turn /\ snap.ended \in BOOLEAN
  BY DEF Snap
<1> HIDE DEF list
<1>5. Build(p, snap, n) \in Shown
  BY <1>2, <1>3, <1>4 DEF Shown
<1>6. /\ Build(p, snap, n).list = list /\ Build(p, snap, n).asOf = snap.turns /\ Build(p, snap, n).id = p
  BY <1>3
<1>7. Count(n) \in 0..MaxTurns /\ Build(p, snap, n) # None
  BY <1>1, <1>5, NoneApart, Bounds
<1>8. list = [i \in 1..Count(n) |-> i]
  BY DEF list
<1> HIDE DEF Build, Count
<1>9. QED
  BY <1>2, <1>5, <1>6, <1>7, <1>8

LEMMA EffectTyped ==
  ASSUME NEW p \in Pids, NEW snap \in Snap \cup {None}, NEW n \in -1..MaxTurns,
         shown \in Shown \cup {None}, NEW act \in Turn, NEW res \in Result \cup {None},
         Effect(p, snap, n, shown, act, res)
  PROVE  /\ shown' \in Shown \cup {None} /\ active' \in Turn /\ result' \in Result \cup {None}
         /\ shown' = None => shown = None
<1>1. CASE SnapshotApplies(p, snap, n, shown)
  <2>1. snap \in Snap
    BY <1>1 DEF SnapshotApplies
  <2>2. /\ shown' = Build(p, snap, n) /\ active' = snap.pend
        /\ result' = IF snap.pend = 0 THEN None ELSE res
    BY <1>1 DEF Effect
  <2>3. QED
    BY <2>1, <2>2, BuildTyped DEF Snap
<1>2. CASE ~SnapshotApplies(p, snap, n, shown)
  BY <1>2 DEF Effect
<1>3. QED
  BY <1>1, <1>2

(* Streams. *)

LEMMA StreamFields ==
  ASSUME NEW s \in Stream
  PROVE  /\ s.g \in Gen /\ s.pid \in Pids /\ s.att \in Turn /\ s.open \in BOOLEAN /\ s.answered \in BOOLEAN
         /\ s.over \in BOOLEAN /\ s.q \in Seq(Event)
BY DEF Stream

LEMMA StreamUpdated ==
  ASSUME NEW s \in Stream, NEW open \in BOOLEAN, NEW answered \in BOOLEAN, NEW over \in BOOLEAN, NEW q \in Seq(Event)
  PROVE  LET t == [s EXCEPT !.open = open, !.answered = answered, !.over = over, !.q = q]
         IN  t \in Stream /\ t.g = s.g /\ t.pid = s.pid /\ t.att = s.att /\ t.open = open
             /\ t.answered = answered /\ t.over = over /\ t.q = q
BY DEF Stream

LEMMA Closed ==
  ASSUME NEW s \in Stream
  PROVE  LET t == [s EXCEPT !.open = FALSE, !.q = <<>>]
         IN  t \in Stream /\ t.g = s.g /\ t.pid = s.pid /\ t.att = s.att /\ ~t.open
             /\ t.answered = s.answered /\ t.over = s.over /\ t.q = <<>>
<1>1. <<>> \in Seq(Event)
  BY EmptySeq
<1>2. QED
  BY <1>1 DEF Stream

(* An answer is put on the wire, in a queue that a break may have replaced.    *)
LEMMA Answered ==
  ASSUME NEW s \in Stream, NEW events \in Seq(Event)
  PROVE  LET q == IF s.q = <<>> THEN events ELSE s.q
             t == [s EXCEPT !.answered = TRUE, !.q = IF s.q = <<>> THEN events ELSE @]
         IN  t \in Stream /\ t.g = s.g /\ t.pid = s.pid /\ t.att = s.att /\ t.open = s.open
             /\ t.answered /\ t.over = s.over /\ t.q = q
<1> DEFINE q == IF s.q = <<>> THEN events ELSE s.q
<1>1. q \in Seq(Event)
  BY StreamFields
<1>2. [s EXCEPT !.answered = TRUE, !.q = IF s.q = <<>> THEN events ELSE @] = [s EXCEPT !.answered = TRUE, !.q = q]
  BY DEF Stream
<1> HIDE DEF q
<1>3. LET t == [s EXCEPT !.answered = TRUE, !.q = q]
      IN  t \in Stream /\ t.g = s.g /\ t.pid = s.pid /\ t.att = s.att /\ t.open = s.open
          /\ t.answered /\ t.over = s.over /\ t.q = q
  BY <1>1 DEF Stream
<1>4. QED
  BY <1>2, <1>3 DEF q

LEMMA StartStreamTyped ==
  ASSUME Typed, NEW p \in Pids, NEW att \in Turn, StartStream(p, att)
  PROVE  /\ narrating' \in BOOLEAN /\ gen' \in Gen /\ cancel' \in Gen /\ gen + 1 \in Gen
         /\ buf' \in [img: Gen, sum: Gen, trig: Turn, trigOf: Gen, end: Gen, cut: BOOLEAN]
         /\ streams' \in SUBSET Stream
<1>1. gen \in Gen /\ gen < MaxStreams
  BY DEF StartStream, Typed, ScreenTyped
<1>2. gen + 1 \in Gen
  BY <1>1, Bounds DEF Gen
<1>3. Post(p, att) \in Stream
  <2>1. <<>> \in Seq(Event)
    BY EmptySeq
  <2>2. QED
    BY <1>2, <2>1 DEF Post, Stream
<1>4. \A a \in Abort(streams, cancel) : a \in Stream
  BY Closed DEF Abort, Typed
<1>5. buf' \in [img: Gen, sum: Gen, trig: Turn, trigOf: Gen, end: Gen, cut: BOOLEAN]
  <2> DEFINE new == buf.cut \/ cancel # 0
  <2>1. new \in BOOLEAN /\ buf \in [img: Gen, sum: Gen, trig: Turn, trigOf: Gen, end: Gen, cut: BOOLEAN]
    BY DEF Typed, ScreenTyped
  <2>2. buf' = [buf EXCEPT !.cut = new]
    BY <2>1 DEF StartStream
  <2> HIDE DEF new
  <2>3. QED
    BY <2>1, <2>2
<1>6. QED
  BY <1>2, <1>3, <1>4, <1>5 DEF StartStream

(* What the handlers do with an event. *)

LEMMA EventTyped ==
  ASSUME NEW ev \in Event
  PROVE  /\ ev.e \in {"scene", "summary", "ended", "degraded", "error", "close", "minigame", "done"}
         /\ ev.e \in {"minigame", "done"} => ev.n \in Turn
BY DEF Event

LEMMA CommitTyped ==
  ASSUME ScreenTyped, CacheTyped, shown # None, NEW n \in Turn, Commit(n)
  PROVE  /\ ScreenTyped' /\ CacheTyped' /\ shown' # None
         /\ shown'.list = Append(shown.list, n) /\ shown'.id = shown.id
<1> DEFINE ended == shown.ended \/ buf.end # 0
           list == Append(shown.list, n)
<1>1. shown \in Shown /\ ended \in BOOLEAN /\ list \in Seq(Turn) /\ shown.id \in Pids
  BY DEF ScreenTyped, Shown
<1>2. shown' = [shown EXCEPT !.list = list, !.ended = ended]
  BY <1>1 DEF Commit, Shown
<1> HIDE DEF ended, list
<1>3. shown' \in Shown /\ shown'.list = list /\ shown'.id = shown.id
  BY <1>1, <1>2 DEF Shown
<1>4. active' \in Turn /\ result' = None /\ narrating' \in BOOLEAN /\ gen' \in Gen /\ cancel' \in Gen
  BY Bounds DEF Commit, ScreenTyped
<1>5. buf' \in [img: Gen, sum: Gen, trig: Turn, trigOf: Gen, end: Gen, cut: BOOLEAN]
  BY Bounds DEF Commit, EmptyBuf
<1>6. CacheTyped'
  <2>1. Invalidate(shown.id)
    BY DEF Commit
  <2>2. pnet' \in [Pids -> Snap \cup {None, Asked}]
    BY <1>1, <2>1 DEF Invalidate, CacheTyped
  <2>3. NoTurns \in -2..MaxTurns
    BY Bounds DEF NoTurns
  <2>4. tnet' \in [Pids -> -2..MaxTurns]
    BY <1>1, <2>1, <2>3 DEF Invalidate, CacheTyped
  <2>5. QED
    BY <2>1, <2>2, <2>4 DEF Invalidate, CacheTyped
<1>7. QED
  BY <1>3, <1>4, <1>5, <1>6, NoneApart DEF ScreenTyped, list

LEMMA FailTyped ==
  ASSUME ScreenTyped, CacheTyped, NEW s, Fail(s)
  PROVE  ScreenTyped' /\ CacheTyped' /\ UNCHANGED shown
<1>1. CacheTyped' /\ UNCHANGED <<shown, active, gen>> /\ narrating' = FALSE /\ cancel' = 0
  BY DEF Fail, CacheTyped, queries
<1>2. buf \in [img: Gen, sum: Gen, trig: Turn, trigOf: Gen, end: Gen, cut: BOOLEAN]
  BY DEF ScreenTyped
<1>3. buf' \in [img: Gen, sum: Gen, trig: Turn, trigOf: Gen, end: Gen, cut: BOOLEAN]
  <2>1. EmptyBuf \in [img: Gen, sum: Gen, trig: Turn, trigOf: Gen, end: Gen, cut: BOOLEAN]
    BY Bounds DEF EmptyBuf
  <2>2. buf' = EmptyBuf \/ buf' = [EmptyBuf EXCEPT !.img = buf.img, !.cut = buf.cut]
    BY DEF Fail
  <2>3. QED
    BY <1>2, <2>1, <2>2
<1>4. result' \in Result \cup {None}
  <2>1. CASE s.att # 0 /\ result # None
    <3>1. result \in Result
      BY <2>1 DEF ScreenTyped
    <3>2. \E status \in {"terminal", "retryable"} : result' = [result EXCEPT !.status = status]
      BY <2>1 DEF Fail
    <3>3. QED
      BY <3>1, <3>2 DEF Result
  <2>2. CASE ~(s.att # 0 /\ result # None)
    BY <2>2 DEF Fail, ScreenTyped
  <2>3. QED
    BY <2>1, <2>2
<1>5. QED
  BY <1>1, <1>3, <1>4, Bounds DEF ScreenTyped

LEMMA BufferTyped ==
  ASSUME ScreenTyped, CacheTyped, NEW s \in Stream, NEW ev \in Event, Buffer(s, ev),
         ev.e \in {"scene", "summary", "minigame", "ended"}
  PROVE  ScreenTyped' /\ CacheTyped' /\ UNCHANGED shown
<1>1. UNCHANGED <<shown, active, result, narrating, gen, cancel, queries>>
  BY DEF Buffer
<1>2. s.g \in Gen /\ buf \in [img: Gen, sum: Gen, trig: Turn, trigOf: Gen, end: Gen, cut: BOOLEAN]
  BY StreamFields DEF ScreenTyped
<1>3. buf' \in [img: Gen, sum: Gen, trig: Turn, trigOf: Gen, end: Gen, cut: BOOLEAN]
  <2>1. CASE ev.e = "scene"
    BY <1>2, <2>1 DEF Buffer
  <2>2. CASE ev.e = "summary"
    BY <1>2, <2>2 DEF Buffer
  <2>3. CASE ev.e = "minigame"
    <3>1. ev.n \in Turn /\ buf' = [buf EXCEPT !.trig = ev.n, !.trigOf = s.g]
      BY <2>3, EventTyped DEF Buffer
    <3>2. QED
      BY <1>2, <3>1
  <2>4. CASE ev.e = "ended"
    BY <1>2, <2>4 DEF Buffer
  <2>5. QED
    BY <2>1, <2>2, <2>3, <2>4
<1>4. QED
  BY <1>1, <1>3 DEF ScreenTyped, CacheTyped, queries

LEMMA HandleTyped ==
  ASSUME ScreenTyped, CacheTyped, shown # None, NEW s \in Stream, NEW ev \in Event, Handle(s, ev)
  PROVE  ScreenTyped' /\ CacheTyped' /\ shown' # None
<1>1. CASE ~Own(s) \/ (ev.e = "close" /\ s.over)
  <2>1. UNCHANGED <<store, queries>>
    BY <1>1 DEF Handle, Quiet
  <2>2. QED
    BY <2>1 DEF store, queries, ScreenTyped, CacheTyped
<1>2. CASE Own(s) /\ ev.e = "done"
  <2>1. ev.n \in Turn /\ Narrated(s, ev.n) \in Turn /\ Commit(Narrated(s, ev.n))
    BY <1>2, EventTyped, Bounds DEF Handle, Narrated
  <2>2. QED
    BY <2>1, CommitTyped
<1>3. CASE Own(s) /\ (ev.e \in {"degraded", "error"} \/ (ev.e = "close" /\ ~s.over))
  <2>1. Fail(s)
    BY <1>3 DEF Handle
  <2>2. QED
    BY <2>1, FailTyped
<1>4. CASE Own(s) /\ ev.e \notin {"done", "degraded", "error", "close"}
  <2>1. Buffer(s, ev) /\ ev.e \in {"scene", "summary", "minigame", "ended"}
    BY <1>4, EventTyped DEF Handle
  <2>2. QED
    BY <2>1, BufferTyped
<1>5. QED
  BY <1>1, <1>2, <1>3, <1>4

LEMMA DeliverTyped ==
  ASSUME Typed, NEW s \in streams, Deliver(s)
  PROVE  Typed'
<1> DEFINE ev == Head(s.q)
           over == s.over \/ (Own(s) /\ ev.e \in {"done", "degraded"})
<1>1. s \in Stream /\ s.q # <<>> /\ s.q \in Seq(Event) /\ shown # None
  BY StreamFields DEF Deliver, Typed, Somewhere
<1>2. ev \in Event /\ Tail(s.q) \in Seq(Event)
  BY <1>1
<1>3. ScreenTyped' /\ CacheTyped' /\ shown' # None
  BY <1>1, <1>2, HandleTyped DEF Deliver, Typed
<1>4. over \in BOOLEAN
  BY <1>1, StreamFields
<1>5. [s EXCEPT !.open = FALSE, !.q = <<>>] \in Stream
  BY <1>1, Closed
<1>6. [s EXCEPT !.q = Tail(@), !.over = @ \/ (Own(s) /\ ev.e \in {"done", "degraded"})] = [s EXCEPT !.q = Tail(s.q), !.over = over]
  BY <1>1 DEF Stream
<1>7. [s EXCEPT !.q = Tail(s.q), !.over = over] \in Stream
  <2> HIDE DEF over
  <2>1. QED
    BY <1>1, <1>2, <1>4 DEF Stream
<1>8. streams' \in SUBSET Stream
  <2>1. streams' \subseteq streams \cup {[s EXCEPT !.open = FALSE, !.q = <<>>],
                                        [s EXCEPT !.q = Tail(@), !.over = @ \/ (Own(s) /\ ev.e \in {"done", "degraded"})]}
    BY DEF Deliver
  <2>2. streams \subseteq Stream
    BY DEF Typed
  <2> HIDE DEF over, ev
  <2>3. QED
    BY <1>5, <1>6, <1>7, <2>1, <2>2
<1>9. UNCHANGED <<srv, route, visits, recon>>
  BY DEF Deliver
<1>10. QED
  BY <1>3, <1>8, <1>9 DEF Typed, ServerTyped, ReconTyped, Somewhere

(* What the service answers: what it announces, then a last word and the close. *)

Last == {"done", "degraded", "error", "close"}

Drafts(q, att) ==
    /\ q \in Seq(Event)
    /\ \A i \in DOMAIN q : q[i].e \notin Last /\ (q[i].e = "scene" => att = 0)

(* A queue that keeps its order: images come for narrative turns only, and a   *)
(* terminal event is followed by the close alone.                             *)
Ordered(q, att) ==
    \A i \in DOMAIN q :
        /\ q[i].e = "scene" => att = 0
        /\ \A j \in DOMAIN q : i < j /\ q[i].e \in Last => q[j].e = "close"

LEMMA OneDraft ==
  ASSUME NEW ev \in Event, ev.e \notin Last, NEW att, ev.e = "scene" => att = 0
  PROVE  Drafts(<<ev>>, att) /\ Drafts(<<>>, att)
<1>1. <<>> \in Seq(Event) /\ DOMAIN <<>> = {}
  BY EmptySeq
<1>2. <<ev>> \in Seq(Event) /\ DOMAIN <<ev>> = {1} /\ <<ev>>[1] = ev
  OBVIOUS
<1>3. QED
  BY <1>1, <1>2 DEF Drafts

LEMMA MoreDrafts ==
  ASSUME NEW a, NEW b, NEW att, Drafts(a, att), Drafts(b, att)
  PROVE  Drafts(a \o b, att)
<1>1. /\ a \o b \in Seq(Event) /\ Len(a \o b) = Len(a) + Len(b) /\ Len(a) \in Nat /\ Len(b) \in Nat
      /\ \A i \in 1..Len(a) + Len(b) : (a \o b)[i] = IF i <= Len(a) THEN a[i] ELSE b[i - Len(a)]
  BY ConcatProperties DEF Drafts
<1>2. DOMAIN a = 1..Len(a) /\ DOMAIN b = 1..Len(b) /\ DOMAIN (a \o b) = 1..Len(a) + Len(b)
  BY <1>1 DEF Drafts
<1>3. \A i \in DOMAIN (a \o b) : (a \o b)[i].e \notin Last /\ ((a \o b)[i].e = "scene" => att = 0)
  <2> TAKE i \in DOMAIN (a \o b)
  <2>1. CASE i <= Len(a)
    BY <1>1, <1>2, <2>1 DEF Drafts
  <2>2. CASE ~(i <= Len(a))
    <3>1. i - Len(a) \in DOMAIN b /\ (a \o b)[i] = b[i - Len(a)]
      BY <1>1, <1>2, <2>2
    <3>2. QED
      BY <3>1 DEF Drafts
  <2>3. QED
    BY <2>1, <2>2
<1>4. QED
  BY <1>1, <1>3 DEF Drafts

LEMMA LastWord ==
  ASSUME NEW a, NEW att, Drafts(a, att), NEW ev \in Event, ev.e \in {"done", "degraded"}
  PROVE  LET q == a \o <<ev, [e |-> "close"]>>
         IN  /\ q \in Seq(Event) /\ Ordered(q, att)
             /\ \A i \in DOMAIN q : q[i].e = "done" => q[i] = ev
<1> DEFINE b == <<ev, [e |-> "close"]>>
           q == a \o b
<1>1. b \in Seq(Event) /\ Len(b) = 2 /\ b[1] = ev /\ b[2].e = "close"
  <2>1. [e |-> "close"] \in Event
    BY DEF Event
  <2>2. QED
    BY <2>1
<1> HIDE DEF b
<1>2. /\ q \in Seq(Event) /\ Len(q) = Len(a) + 2 /\ Len(a) \in Nat /\ a \in Seq(Event)
      /\ \A i \in 1..Len(a) + 2 : q[i] = IF i <= Len(a) THEN a[i] ELSE b[i - Len(a)]
  <2>1. a \in Seq(Event) /\ Len(a) \in Nat
    BY DEF Drafts
  <2>2. /\ q \in Seq(Event) /\ Len(q) = Len(a) + Len(b)
        /\ \A i \in 1..Len(a) + Len(b) : q[i] = IF i <= Len(a) THEN a[i] ELSE b[i - Len(a)]
    BY <1>1, <2>1, ConcatProperties
  <2>3. QED
    BY <1>1, <2>1, <2>2
<1>3. DOMAIN a = 1..Len(a) /\ DOMAIN q = 1..Len(a) + 2
  BY <1>2
<1> HIDE DEF q
<1>4. ASSUME NEW i \in DOMAIN q
      PROVE  \/ i <= Len(a) /\ q[i].e \notin Last /\ (q[i].e = "scene" => att = 0)
             \/ i = Len(a) + 1 /\ q[i] = ev
             \/ i = Len(a) + 2 /\ q[i].e = "close"
  <2>1. CASE i <= Len(a)
    BY <1>2, <1>3, <2>1 DEF Drafts
  <2>2. CASE i = Len(a) + 1
    BY <1>1, <1>2, <1>3, <2>2
  <2>3. CASE i = Len(a) + 2
    BY <1>1, <1>2, <1>3, <2>3
  <2>4. QED
    BY <1>2, <1>3, <2>1, <2>2, <2>3
<1>5. Ordered(q, att)
  <2> SUFFICES ASSUME NEW i \in DOMAIN q
               PROVE  /\ q[i].e = "scene" => att = 0
                      /\ \A j \in DOMAIN q : i < j /\ q[i].e \in Last => q[j].e = "close"
    BY DEF Ordered
  <2>1. q[i].e = "scene" => att = 0
    BY <1>4
  <2>2. ASSUME NEW j \in DOMAIN q, i < j, q[i].e \in Last PROVE q[j].e = "close"
    <3>1. i = Len(a) + 1
      BY <1>2, <1>3, <1>4, <2>2
    <3>2. QED
      BY <1>2, <1>3, <1>4, <2>2, <3>1
  <2>3. QED
    BY <2>1, <2>2
<1>6. \A i \in DOMAIN q : q[i].e = "done" => q[i] = ev
  BY <1>4 DEF Last
<1>7. QED
  BY <1>2, <1>5, <1>6 DEF q, b

LEMMA SceneDrafts ==
  ASSUME NEW s \in Stream, NEW seen \in BOOLEAN
  PROVE  Drafts(Scene(s, seen), s.att)
<1>1. [e |-> "scene"] \in Event /\ [e |-> "summary"] \in Event
  BY DEF Event
<1>2. CASE seen /\ s.att = 0
  BY <1>1, <1>2, OneDraft DEF Scene, Last
<1>3. CASE ~(seen /\ s.att = 0)
  BY <1>1, <1>3, OneDraft DEF Scene, Last
<1>4. QED
  BY <1>2, <1>3

LEMMA DegradedAnswer ==
  ASSUME NEW s \in Stream, NEW seen \in BOOLEAN
  PROVE  LET q == Scene(s, seen) \o <<[e |-> "degraded"], [e |-> "close"]>>
         IN  /\ q \in Seq(Event) /\ Ordered(q, s.att)
             /\ \A i \in DOMAIN q : q[i].e # "done"
<1>1. [e |-> "degraded"] \in Event
  BY DEF Event
<1>2. QED
  BY <1>1, SceneDrafts, LastWord

(* The turn that an answer says it has done. *)
Names(q, n) == \A i \in DOMAIN q : q[i].e = "done" => q[i].n = n

LEMMA CommittedAnswer ==
  ASSUME NEW s \in Stream, NEW seen \in BOOLEAN, NEW n \in Turn,
         NEW x \in {<<>>, <<[e |-> "minigame", n |-> n]>>}, NEW y \in {<<>>, <<[e |-> "ended"]>>}
  PROVE  LET q == Scene(s, seen) \o <<[e |-> "summary"]>> \o x \o y \o <<[e |-> "done", n |-> n], [e |-> "close"]>>
         IN  q \in Seq(Event) /\ Ordered(q, s.att) /\ Names(q, n)
<1>1. /\ [e |-> "summary"] \in Event /\ [e |-> "ended"] \in Event
      /\ [e |-> "minigame", n |-> n] \in Event /\ [e |-> "done", n |-> n] \in Event
  BY DEF Event
<1>2. Drafts(<<[e |-> "summary"]>>, s.att) /\ Drafts(x, s.att) /\ Drafts(y, s.att)
  <2>1. Drafts(<<[e |-> "summary"]>>, s.att) /\ Drafts(<<>>, s.att)
    BY <1>1, OneDraft DEF Last
  <2>2. Drafts(<<[e |-> "ended"]>>, s.att)
    BY <1>1, OneDraft DEF Last
  <2>3. Drafts(<<[e |-> "minigame", n |-> n]>>, s.att)
    BY <1>1, OneDraft DEF Last
  <2>4. QED
    BY <2>1, <2>2, <2>3
<1>3. Drafts(Scene(s, seen) \o <<[e |-> "summary"]>>, s.att)
  BY <1>2, SceneDrafts, MoreDrafts
<1> DEFINE ev == [e |-> "done", n |-> n]
           a == Scene(s, seen) \o <<[e |-> "summary"]>> \o x \o y
<1>4. Drafts(a, s.att)
  BY <1>2, <1>3, MoreDrafts
<1>5. ev \in Event /\ ev.e = "done" /\ ev.n = n
  BY <1>1
<1> HIDE DEF a, ev
<1> DEFINE q == a \o <<ev, [e |-> "close"]>>
<1>6. q \in Seq(Event) /\ Ordered(q, s.att) /\ \A i \in DOMAIN q : q[i].e = "done" => q[i] = ev
  BY <1>4, <1>5, LastWord
<1> HIDE DEF q
<1>7. q \in Seq(Event) /\ Ordered(q, s.att) /\ Names(q, n)
  BY <1>5, <1>6 DEF Names
<1>8. QED
  BY <1>7 DEF q, a, ev

(* The service and the network keep the types. *)

LEMMA ReplyTyped ==
  ASSUME Typed, NEW s \in streams, NEW events \in Seq(Event), Reply(s, events)
  PROVE  streams' \in SUBSET Stream
<1> DEFINE t == [s EXCEPT !.answered = TRUE, !.q = IF s.q = <<>> THEN events ELSE @]
<1>1. s \in Stream /\ streams \subseteq Stream
  BY DEF Typed
<1>2. t \in Stream
  BY <1>1, Answered
<1>3. streams' = (streams \ {s}) \cup (IF s.open THEN {t} ELSE {})
  BY DEF Reply
<1> HIDE DEF t
<1>4. QED
  BY <1>1, <1>2, <1>3

(* Nothing but the streams and the rows of the service changes.                *)
LEMMA WireTyped ==
  ASSUME Typed, streams # {}, streams' \in SUBSET Stream, ServerTyped', UNCHANGED <<store, queries, recon>>
  PROVE  Typed'
BY DEF Typed, ScreenTyped, CacheTyped, ReconTyped, Somewhere, store, queries

LEMMA CommitRow ==
  ASSUME Typed, NEW s \in streams, NEW trigger \in BOOLEAN, NEW ends \in BOOLEAN, NEW seen \in BOOLEAN,
         ServerCommits(s, trigger, ends, seen)
  PROVE  /\ srv[s.pid].turns + 1 \in Turn /\ ServerTyped'
         /\ srv'[s.pid].turns = srv[s.pid].turns + 1
         /\ \A p \in Pids \ {s.pid} : srv'[p] = srv[p]
<1> DEFINE n == srv[s.pid].turns + 1
           pend == IF trigger THEN n ELSE 0
           row == [turns |-> n, pend |-> pend, ended |-> ends]
<1>1. s.pid \in Pids /\ srv[s.pid].turns \in Turn
  BY StreamFields DEF Typed, ServerTyped
<1>2. n \in Turn
  BY <1>1, Bounds DEF ServerCommits, Turn
<1>3. pend \in Turn
  BY <1>2, Bounds
<1>4. srv' = [srv EXCEPT ![s.pid] = row]
  BY DEF ServerCommits
<1> HIDE DEF n, pend
<1>5. row \in [turns: Turn, pend: Turn, ended: BOOLEAN] /\ row.turns = n
  BY <1>2, <1>3
<1> HIDE DEF row
<1>6. UNCHANGED <<route, visits>>
  BY DEF ServerCommits
<1>7. srv' \in [Pids -> [turns: Turn, pend: Turn, ended: BOOLEAN]] /\ srv'[s.pid] = row
      /\ \A p \in Pids \ {s.pid} : srv'[p] = srv[p]
  BY <1>1, <1>4, <1>5 DEF Typed, ServerTyped
<1>8. ServerTyped'
  BY <1>6, <1>7 DEF Typed, ServerTyped
<1>9. QED
  BY <1>2, <1>5, <1>7, <1>8 DEF n

LEMMA StreamStepTyped ==
  ASSUME Typed, NEW s \in streams, StreamStep(s)
  PROVE  Typed'
<1>1. s \in Stream /\ ServerTyped
  BY DEF Typed
<1>2. CASE Deliver(s)
  BY <1>2, DeliverTyped
<1>3. CASE ServerRefuses(s)
  <2>1. <<[e |-> "error"]>> \in Seq(Event)
    <3>1. [e |-> "error"] \in Event
      BY DEF Event
    <3>2. QED
      BY <3>1
  <2>2. Reply(s, <<[e |-> "error"]>>) /\ UNCHANGED <<srv, route, visits, store, queries, recon>>
    BY <1>3 DEF ServerRefuses
  <2>3. ServerTyped'
    BY <1>1, <2>2 DEF ServerTyped
  <2>4. QED
    BY <2>1, <2>2, <2>3, ReplyTyped, WireTyped
<1>4. ASSUME NEW seen \in BOOLEAN, ServerDegrades(s, seen) PROVE Typed'
  <2>1. UNCHANGED <<srv, route, visits, store, queries, recon>>
    BY <1>4 DEF ServerDegrades
  <2>2. ServerTyped'
    BY <1>1, <2>1 DEF ServerTyped
  <2>3. streams' \in SUBSET Stream
    BY <1>1, <1>4, DegradedAnswer, ReplyTyped DEF ServerDegrades
  <2>4. QED
    BY <2>1, <2>2, <2>3, WireTyped
<1>5. ASSUME NEW trigger \in BOOLEAN, NEW ends \in BOOLEAN, NEW seen \in BOOLEAN,
             ServerCommits(s, trigger, ends, seen)
      PROVE  Typed'
  <2>1. UNCHANGED <<route, visits, store, queries, recon>>
    BY <1>5 DEF ServerCommits
  <2> DEFINE n == srv[s.pid].turns + 1
  <2>2. ServerTyped' /\ n \in Turn
    BY <1>5, CommitRow
  <2>3. PICK x \in {<<>>, <<[e |-> "minigame", n |-> n]>>}, y \in {<<>>, <<[e |-> "ended"]>>} :
         Reply(s, Scene(s, seen) \o <<[e |-> "summary"]>> \o x \o y \o <<[e |-> "done", n |-> n], [e |-> "close"]>>)
    BY <1>5 DEF ServerCommits
  <2> DEFINE q == Scene(s, seen) \o <<[e |-> "summary"]>> \o x \o y \o <<[e |-> "done", n |-> n], [e |-> "close"]>>
  <2> HIDE DEF n
  <2>4. n \in Turn
    BY <2>2
  <2>5. q \in Seq(Event)
    BY <1>1, <2>4, CommittedAnswer
  <2> HIDE DEF q
  <2>6. Reply(s, q)
    BY <2>3 DEF q
  <2>7. QED
    BY <2>1, <2>2, <2>5, <2>6, ReplyTyped, WireTyped
<1>6. QED
  BY <1>2, <1>3, <1>4, <1>5 DEF StreamStep

LEMMA BreakTyped ==
  ASSUME Typed, NEW s \in streams, NEW how \in {"error", "close"}, Break(s, how)
  PROVE  Typed'
<1>1. s \in Stream /\ streams \subseteq Stream
  BY DEF Typed
<1>2. <<[e |-> how]>> \in Seq(Event)
  <2>1. [e |-> how] \in Event
    BY DEF Event
  <2>2. QED
    BY <2>1
<1>3. [s EXCEPT !.q = <<[e |-> how]>>] \in Stream
  BY <1>1, <1>2 DEF Stream
<1>4. UNCHANGED <<srv, route, visits, store, queries, recon>> /\ streams' \in SUBSET Stream
  BY <1>1, <1>3 DEF Break
<1>5. ServerTyped'
  BY <1>4 DEF Typed, ServerTyped
<1>6. QED
  BY <1>4, <1>5, WireTyped

(* So do the player and the reads. *)

LEMMA SubmitTyped ==
  ASSUME Typed, SubmitTurn \/ StopGeneration
  PROVE  Typed'
<1>1. CASE SubmitTurn
  <2>1. /\ shown # None /\ StartStream(shown.id, 0)
        /\ UNCHANGED <<srv, route, visits, shown, active, result, queries, recon>>
    BY <1>1 DEF SubmitTurn
  <2>2. shown.id \in Pids
    BY <2>1 DEF Typed, ScreenTyped, Shown
  <2>3. /\ narrating' \in BOOLEAN /\ gen' \in Gen /\ cancel' \in Gen
        /\ buf' \in [img: Gen, sum: Gen, trig: Turn, trigOf: Gen, end: Gen, cut: BOOLEAN]
        /\ streams' \in SUBSET Stream
    BY <2>1, <2>2, StartStreamTyped, Bounds
  <2>4. QED
    BY <2>1, <2>3 DEF Typed, ScreenTyped, CacheTyped, ServerTyped, ReconTyped, Somewhere, queries
<1>2. CASE StopGeneration
  <2>1. \A a \in Abort(streams, cancel) : a \in Stream
    BY Closed DEF Abort, Typed
  <2>2. /\ narrating' = FALSE /\ cancel' = 0 /\ gen' = gen + 1 /\ buf' = EmptyBuf /\ gen < MaxStreams
        /\ UNCHANGED <<srv, route, visits, shown, active, result, queries, recon>>
    BY <1>2 DEF StopGeneration
  <2>3. streams' \in SUBSET Stream
    BY <1>2, <2>1 DEF StopGeneration
  <2>4. gen' \in Gen /\ cancel' \in Gen
    BY <2>2, Bounds DEF Typed, ScreenTyped, Gen
  <2>5. buf' \in [img: Gen, sum: Gen, trig: Turn, trigOf: Gen, end: Gen, cut: BOOLEAN]
    BY <2>2, Bounds DEF EmptyBuf
  <2>6. shown = None => streams' = {}
    <3>1. streams' \subseteq Abort(streams, cancel)
      BY <1>2 DEF StopGeneration
    <3>2. streams = {} => Abort(streams, cancel) = {}
      BY DEF Abort
    <3>3. QED
      BY <3>1, <3>2 DEF Typed, Somewhere
  <2>7. QED
    BY <2>2, <2>3, <2>4, <2>5, <2>6 DEF Typed, ScreenTyped, CacheTyped, ServerTyped, ReconTyped, Somewhere, queries
<1>3. QED
  BY <1>1, <1>2

LEMMA SubmitResultTyped ==
  ASSUME Typed, NEW tag \in {"played", "timeout"}, SubmitMinigameResult(tag)
  PROVE  Typed'
<1>1. /\ shown # None /\ StartStream(shown.id, active)
      /\ UNCHANGED <<srv, route, visits, shown, active, queries, recon>>
      /\ result' = [k |-> "result", id |-> gen + 1, att |-> active, tag |-> tag, attempts |-> 1,
                    status |-> "submitting", fallback |-> FALSE]
  BY DEF SubmitMinigameResult
<1>2. shown.id \in Pids /\ active \in Turn
  BY <1>1 DEF Typed, ScreenTyped, Shown
<1>3. /\ narrating' \in BOOLEAN /\ gen' \in Gen /\ cancel' \in Gen /\ gen + 1 \in Gen
      /\ buf' \in [img: Gen, sum: Gen, trig: Turn, trigOf: Gen, end: Gen, cut: BOOLEAN]
      /\ streams' \in SUBSET Stream
  BY <1>1, <1>2, StartStreamTyped
<1>4. result' \in Result
  BY <1>1, <1>2, <1>3, Bounds DEF Result
<1>5. QED
  BY <1>1, <1>3, <1>4 DEF Typed, ScreenTyped, CacheTyped, ServerTyped, ReconTyped, Somewhere, queries

LEMMA AskAgainTyped ==
  ASSUME Typed, NEW status \in {"retryable", "terminal"}, AskAgain(status)
  PROVE  Typed'
<1>1. /\ shown # None /\ result # None /\ result.status = status
      /\ result' = [result EXCEPT !.status = "reconciling"]
      /\ recon' = [k |-> "recon", pid |-> shown.id, res |-> result, net |-> Asked]
      /\ UNCHANGED <<srv, route, visits, shown, active, narrating, gen, cancel, buf, streams, queries>>
      /\ status = "retryable" => result.attempts < MaxAttempts
  BY DEF AskAgain
<1>2. result \in Result /\ shown.id \in Pids
  BY <1>1 DEF Typed, ScreenTyped, Shown
<1>3. result' \in Result
  BY <1>1, <1>2 DEF Result
<1>4. recon' \in Recon /\ recon'.res = result
  BY <1>1, <1>2 DEF Recon
<1>5. ReconTyped'
  BY <1>1, <1>4 DEF ReconTyped
<1>6. QED
  BY <1>1, <1>3, <1>5 DEF Typed, ScreenTyped, CacheTyped, ServerTyped, Somewhere, queries

(* What is read of an outcome that is asked again. *)
LEMMA ReconFieldsTyped ==
  ASSUME Typed, recon # None
  PROVE  /\ recon \in Recon /\ recon.pid \in Pids /\ recon.res \in Result
         /\ recon.net \in Snap \cup {Asked} /\ recon.res.att \in Turn /\ shown # None
BY DEF Typed, ReconTyped, Recon, Result, Somewhere

LEMMA ReconcileFailsTyped ==
  ASSUME Typed, ReconcileFails
  PROVE  Typed'
<1>1. recon # None /\ recon' = None
      /\ UNCHANGED <<srv, route, visits, shown, active, narrating, gen, cancel, buf, streams, queries>>
  BY DEF ReconcileFails
<1>2. result' \in Result \cup {None}
  <2>1. CASE SameResult(recon.res)
    <3>1. result \in Result /\ recon.res.status \in {"submitting", "reconciling", "retryable", "terminal"}
      BY <1>1, <2>1, ReconFieldsTyped DEF SameResult, Typed, ScreenTyped, Result
    <3>2. result' = [result EXCEPT !.status = recon.res.status]
      BY <2>1 DEF ReconcileFails
    <3>3. QED
      BY <3>1, <3>2 DEF Result
  <2>2. CASE ~SameResult(recon.res)
    BY <2>2 DEF ReconcileFails, Typed, ScreenTyped
  <2>3. QED
    BY <2>1, <2>2
<1>3. QED
  BY <1>1, <1>2 DEF Typed, ScreenTyped, CacheTyped, ServerTyped, ReconTyped, Somewhere, queries

LEMMA ReconcileGoneTyped ==
  ASSUME Typed, ReconcileGone
  PROVE  Typed'
<1>1. /\ recon # None /\ recon.net # Asked /\ recon' = None /\ narrating' = FALSE
      /\ pdata' = [pdata EXCEPT ![recon.pid] = recon.net]
      /\ Effect(recon.pid, recon.net, tdata[recon.pid], shown, recon.net.pend, None)
      /\ UNCHANGED <<srv, route, visits, gen, cancel, buf, streams, pnet, tdata, tnet>>
  BY DEF ReconcileGone
<1>2. recon.pid \in Pids /\ recon.net \in Snap /\ recon.net.pend \in Turn /\ shown # None
  BY <1>1, ReconFieldsTyped DEF Snap
<1>3. tdata[recon.pid] \in -1..MaxTurns /\ shown \in Shown \cup {None}
  BY <1>2 DEF Typed, CacheTyped, ScreenTyped
<1>4. shown' \in Shown \cup {None} /\ active' \in Turn /\ result' \in Result \cup {None} /\ shown' # None
  BY <1>1, <1>2, <1>3, EffectTyped
<1>5. CacheTyped'
  BY <1>1, <1>2 DEF Typed, CacheTyped
<1>6. QED
  BY <1>1, <1>4, <1>5 DEF Typed, ScreenTyped, ServerTyped, ReconTyped, Somewhere

LEMMA ReconcileResendsTyped ==
  ASSUME Kept, Typed, ReconcileResends
  PROVE  Typed'
<1> DEFINE captured == recon.res
           next == IF captured.status = "terminal"
                   THEN [captured EXCEPT !.id = gen + 1, !.tag = "timeout", !.attempts = 1,
                                         !.status = "submitting", !.fallback = TRUE]
                   ELSE IF SameResult(captured)
                        THEN [result EXCEPT !.attempts = captured.attempts + 1,
                                            !.status = "submitting"]
                        ELSE result
<1>1. /\ recon # None /\ recon.net # Asked /\ recon' = None
      /\ pdata' = [pdata EXCEPT ![recon.pid] = recon.net]
      /\ Effect(recon.pid, recon.net, tdata[recon.pid], shown, active, next)
      /\ StartStream(recon.pid, captured.att)
      /\ UNCHANGED <<srv, route, visits, pnet, tdata, tnet>>
  BY DEF ReconcileResends
<1>2. recon.pid \in Pids /\ recon.net \in Snap /\ captured \in Result /\ captured.att \in Turn /\ shown # None
  BY <1>1, ReconFieldsTyped
<1>3. tdata[recon.pid] \in -1..MaxTurns /\ shown \in Shown \cup {None} /\ active \in Turn
  BY <1>2 DEF Typed, CacheTyped, ScreenTyped
<1>4. /\ narrating' \in BOOLEAN /\ gen' \in Gen /\ cancel' \in Gen /\ gen + 1 \in Gen
      /\ buf' \in [img: Gen, sum: Gen, trig: Turn, trigOf: Gen, end: Gen, cut: BOOLEAN]
      /\ streams' \in SUBSET Stream
  BY <1>1, <1>2, StartStreamTyped
<1>5. next \in Result \cup {None}
  <2>1. CASE captured.status = "terminal"
    <3>1. next = [captured EXCEPT !.id = gen + 1, !.tag = "timeout", !.attempts = 1,
                                  !.status = "submitting", !.fallback = TRUE]
      BY <2>1
    <3> HIDE DEF next, captured
    <3>2. QED
      BY <1>2, <1>4, <3>1, Bounds DEF Result
  <2>2. CASE captured.status # "terminal" /\ SameResult(captured)
    <3>1. next = [result EXCEPT !.attempts = captured.attempts + 1, !.status = "submitting"]
      BY <2>2
    <3>2. result \in Result
      BY <2>2 DEF SameResult, Typed, ScreenTyped
    <3>3. captured.status = "retryable" => captured.attempts < MaxAttempts
      BY <1>1 DEF Typed, ReconTyped
    <3>4. captured.status = "retryable"
      BY <1>1, <2>2 DEF Kept, IsRecon
    <3> HIDE DEF next, captured
    <3>5. captured.attempts + 1 \in 1..MaxAttempts
      BY <1>2, <3>3, <3>4, Bounds DEF Result
    <3>6. QED
      BY <3>1, <3>2, <3>5 DEF Result
  <2>3. CASE captured.status # "terminal" /\ ~SameResult(captured)
    BY <2>3 DEF Typed, ScreenTyped
  <2>4. QED
    BY <2>1, <2>2, <2>3
<1> HIDE DEF next
<1>6. shown' \in Shown \cup {None} /\ active' \in Turn /\ result' \in Result \cup {None} /\ shown' # None
  BY <1>1, <1>2, <1>3, <1>5, EffectTyped
<1>7. CacheTyped'
  BY <1>1, <1>2 DEF Typed, CacheTyped
<1>8. QED
  BY <1>1, <1>4, <1>6, <1>7 DEF Typed, ScreenTyped, ServerTyped, ReconTyped, Somewhere

LEMMA SnapTyped ==
  ASSUME Typed, NEW p \in Pids
  PROVE  /\ SnapOf(p) \in Snap /\ SnapOf(p) # None /\ SnapOf(p) # Asked
         /\ srv[p].turns \in Turn
         /\ PageOf(srv[p].turns) \in 0..srv[p].turns
         /\ PageOf(srv[p].turns) <= PageSize
         /\ PageOf(srv[p].turns) \in {srv[p].turns, PageSize}
<1>1. srv[p] \in [turns: Turn, pend: Turn, ended: BOOLEAN]
  BY DEF Typed, ServerTyped
<1>2. SnapOf(p) \in Snap
  BY <1>1 DEF SnapOf, Snap
<1>3. srv[p].turns \in Turn
  BY <1>1
<1>4. QED
  BY <1>2, <1>3, NoneApart, PlayAssumption DEF PageOf, Turn

LEMMA ReadsTyped ==
  ASSUME Typed, NEW p \in Pids, ServerReads(p)
  PROVE  Typed'
<1>1. CASE /\ pnet[p] = Asked /\ pnet' = [pnet EXCEPT ![p] = SnapOf(p)]
           /\ UNCHANGED <<srv, route, visits, store, streams, pdata, tdata, tnet, recon>>
  <2>1. CacheTyped'
    BY <1>1, SnapTyped DEF Typed, CacheTyped
  <2>2. QED
    BY <1>1, <2>1 DEF Typed, ScreenTyped, ServerTyped, ReconTyped, Somewhere, store
<1>2. CASE /\ tnet[p] = NoTurns /\ tnet' = [tnet EXCEPT ![p] = PageOf(srv[p].turns)]
           /\ UNCHANGED <<srv, route, visits, store, streams, pdata, pnet, tdata, recon>>
  <2>1. PageOf(srv[p].turns) \in -2..MaxTurns
    BY SnapTyped, Bounds DEF Turn
  <2>2. CacheTyped'
    BY <1>2, <2>1 DEF Typed, CacheTyped
  <2>3. QED
    BY <1>2, <2>2 DEF Typed, ScreenTyped, ServerTyped, ReconTyped, Somewhere, store
<1>3. CASE /\ recon # None /\ recon.pid = p /\ recon.net = Asked
           /\ recon' = [recon EXCEPT !.net = SnapOf(p)]
           /\ UNCHANGED <<srv, route, visits, store, streams, queries>>
  <2>1. recon' \in Recon /\ recon'.res = recon.res
    BY <1>3, ReconFieldsTyped, SnapTyped DEF Recon
  <2>2. QED
    BY <1>3, <2>1 DEF Typed, ScreenTyped, CacheTyped, ServerTyped, ReconTyped, Somewhere, store, queries
<1>4. QED
  BY <1>1, <1>2, <1>3 DEF ServerReads

LEMMA PlaythroughTyped ==
  ASSUME Typed, NEW p \in Pids, PlaythroughArrives(p)
  PROVE  Typed' /\ pnet[p] \in Snap
<1>1. /\ pnet[p] \notin {None, Asked}
      /\ pdata' = [pdata EXCEPT ![p] = pnet[p]] /\ pnet' = [pnet EXCEPT ![p] = None]
      /\ Effect(p, pnet[p], tdata[p], shown, active, result)
      /\ UNCHANGED <<srv, route, visits, narrating, gen, cancel, buf, streams, tdata, tnet, recon>>
  BY DEF PlaythroughArrives
<1>2. /\ pnet[p] \in Snap /\ tdata[p] \in -1..MaxTurns
      /\ shown \in Shown \cup {None} /\ active \in Turn /\ result \in Result \cup {None}
  BY <1>1 DEF Typed, CacheTyped, ScreenTyped
<1>3. /\ shown' \in Shown \cup {None} /\ active' \in Turn /\ result' \in Result \cup {None}
      /\ shown' = None => shown = None
  BY <1>1, <1>2, EffectTyped
<1>4. CacheTyped'
  BY <1>1, <1>2 DEF Typed, CacheTyped
<1>5. QED
  BY <1>1, <1>2, <1>3, <1>4 DEF Typed, ScreenTyped, ServerTyped, ReconTyped, Somewhere

LEMMA TurnsTyped ==
  ASSUME Typed, NEW p \in Pids, TurnsArrive(p)
  PROVE  Typed' /\ tnet[p] \in 0..MaxTurns
<1>1. /\ tnet[p] \notin {Idle, NoTurns}
      /\ tdata' = [tdata EXCEPT ![p] = tnet[p]] /\ tnet' = [tnet EXCEPT ![p] = Idle]
      /\ Effect(p, pdata[p], tnet[p], shown, active, result)
      /\ UNCHANGED <<srv, route, visits, narrating, gen, cancel, buf, streams, pdata, pnet, recon>>
  BY DEF TurnsArrive
<1>2. tnet[p] \in 0..MaxTurns /\ tnet[p] \in -1..MaxTurns /\ Idle \in -2..MaxTurns
  <2>1. tnet[p] \in -2..MaxTurns
    BY DEF Typed, CacheTyped
  <2>2. QED
    BY <1>1, <2>1, Bounds DEF Idle, NoTurns
<1>3. /\ pdata[p] \in Snap \cup {None}
      /\ shown \in Shown \cup {None} /\ active \in Turn /\ result \in Result \cup {None}
  BY DEF Typed, CacheTyped, ScreenTyped
<1>4. /\ shown' \in Shown \cup {None} /\ active' \in Turn /\ result' \in Result \cup {None}
      /\ shown' = None => shown = None
  BY <1>1, <1>2, <1>3, EffectTyped
<1>5. CacheTyped'
  BY <1>1, <1>2 DEF Typed, CacheTyped
<1>6. QED
  BY <1>1, <1>2, <1>4, <1>5 DEF Typed, ScreenTyped, ServerTyped, ReconTyped, Somewhere

(* OpenPage shows what is cached as an arrival would, or leaves the screen.     *)
LEMMA OpenPageShows ==
  ASSUME Typed, NEW p \in Pids, OpenPage(p)
  PROVE  \/ /\ pdata[p] \in Snap /\ shown' = Build(p, pdata[p], tdata[p]) /\ active' = pdata[p].pend
            /\ result' = IF pdata[p].pend = 0 THEN None ELSE result
         \/ UNCHANGED <<shown, active, result>>
<1>1. pdata[p] \in Snap \cup {None}
  BY DEF Typed, CacheTyped
<1>2. QED
  BY <1>1 DEF OpenPage

LEMMA OpenPageTyped ==
  ASSUME Typed, NEW p \in Pids, OpenPage(p)
  PROVE  Typed'
<1>1. /\ route' = {p} /\ visits' = visits + 1 /\ visits < MaxVisits
      /\ pnet' = [pnet EXCEPT ![p] = Asked] /\ tnet' = [tnet EXCEPT ![p] = NoTurns]
      /\ UNCHANGED <<srv, narrating, gen, cancel, buf, streams, pdata, tdata, recon>>
  BY DEF OpenPage
<1>2. NoTurns \in -2..MaxTurns
  BY Bounds DEF NoTurns
<1>3. CacheTyped'
  BY <1>1, <1>2 DEF Typed, CacheTyped
<1>4. tdata[p] \in -1..MaxTurns /\ result \in Result \cup {None}
  BY DEF Typed, CacheTyped, ScreenTyped
<1>5. /\ shown' \in Shown \cup {None} /\ active' \in Turn /\ result' \in Result \cup {None}
      /\ shown' = None => shown = None
  <2>1. CASE UNCHANGED <<shown, active, result>>
    BY <2>1 DEF Typed, ScreenTyped
  <2>2. CASE /\ pdata[p] \in Snap /\ shown' = Build(p, pdata[p], tdata[p]) /\ active' = pdata[p].pend
             /\ result' = IF pdata[p].pend = 0 THEN None ELSE result
    <3> DEFINE b == Build(p, pdata[p], tdata[p])
    <3>1. pdata[p] \in Snap /\ pdata[p].pend \in Turn
      BY <2>2 DEF Snap
    <3>2. \A snap \in Snap, n \in -1..MaxTurns : Build(p, snap, n) \in Shown /\ Build(p, snap, n) # None
      BY BuildTyped
    <3>3. b \in Shown /\ b # None
      BY <1>4, <3>1, <3>2
    <3> HIDE DEF b
    <3>4. QED
      BY <1>4, <2>2, <3>1, <3>3 DEF b
  <2>3. QED
    BY <2>1, <2>2, OpenPageShows
<1>6. ServerTyped'
  BY <1>1, PlayAssumption DEF Typed, ServerTyped
<1>7. QED
  BY <1>1, <1>3, <1>5, <1>6 DEF Typed, ScreenTyped, ReconTyped, Somewhere

LEMMA StepTyped == Kept /\ Typed /\ [Next]_vars => Typed'
<1> SUFFICES ASSUME Kept, Typed, [Next]_vars PROVE Typed'
  OBVIOUS
<1>1. CASE \E s \in streams : StreamStep(s)
  BY <1>1, StreamStepTyped
<1>2. CASE \E s \in streams : \E how \in {"error", "close"} : Break(s, how)
  BY <1>2, BreakTyped
<1>3. CASE SubmitTurn \/ StopGeneration \/ \E tag \in {"played", "timeout"} : SubmitMinigameResult(tag)
  BY <1>3, SubmitTyped, SubmitResultTyped
<1>4. CASE ReconcileFails \/ ReconcileGone \/ ReconcileResends
  BY <1>4, ReconcileFailsTyped, ReconcileGoneTyped, ReconcileResendsTyped
<1>5. CASE \E status \in {"retryable", "terminal"} : AskAgain(status)
  BY <1>5, AskAgainTyped
<1>6. CASE \E p \in Pids : OpenPage(p) \/ PlaythroughArrives(p) \/ TurnsArrive(p) \/ ServerReads(p)
  BY <1>6, OpenPageTyped, PlaythroughTyped, TurnsTyped, ReadsTyped
<1>7. CASE LeavePage \/ UNCHANGED vars
  BY <1>7 DEF LeavePage, vars, store, queries, Typed, ScreenTyped, CacheTyped, ServerTyped, ReconTyped, Somewhere
<1>8. QED
  BY <1>1, <1>2, <1>3, <1>4, <1>5, <1>6, <1>7 DEF Next, NetStep, UserStep

-----------------------------------------------------------------------------
(* What waits on a stream.  Before the service has answered, and after the      *)
(* terminal event was handled, there is at most the end of the connection; a   *)
(* done event names a turn that the service has.                               *)

QueueSound(s, n) ==
    /\ s.over => s.answered
    /\ ~s.answered \/ s.over => \A i \in DOMAIN s.q : s.q[i].e \in {"error", "close"}
    /\ Ordered(s.q, s.att)
    /\ \A i \in DOMAIN s.q : s.q[i].e = "done" => s.q[i].n <= n

Queued == \A s \in streams : QueueSound(s, srv[s.pid].turns)

LEMMA EmptyQueue ==
  ASSUME NEW s, s.q = <<>>, s.over => s.answered, NEW n
  PROVE  QueueSound(s, n)
<1>1. DOMAIN s.q = {}
  OBVIOUS
<1>2. QED
  BY <1>1 DEF QueueSound, Ordered

LEMMA MoreTurns ==
  ASSUME NEW s \in Stream, NEW m \in Turn, NEW n \in Turn, m <= n, QueueSound(s, m)
  PROVE  QueueSound(s, n)
<1>1. ASSUME NEW i \in DOMAIN s.q, s.q[i].e = "done" PROVE s.q[i].n <= n
  <2>1. s.q[i] \in Event
    BY StreamFields
  <2>2. s.q[i].n \in Turn /\ s.q[i].n <= m
    BY <1>1, <2>1, EventTyped DEF QueueSound
  <2>3. QED
    BY <2>2, Bounds DEF Turn
<1>2. QED
  BY <1>1 DEF QueueSound

LEMMA DeliveredQueue ==
  ASSUME NEW s \in Stream, NEW n, QueueSound(s, n), s.q # <<>>,
         NEW over \in BOOLEAN, over => s.over \/ Head(s.q).e \in {"done", "degraded"}
  PROVE  LET t == [s EXCEPT !.q = Tail(s.q), !.over = over]
         IN  /\ t \in Stream /\ t.g = s.g /\ t.pid = s.pid /\ t.att = s.att /\ t.open = s.open /\ t.over = over
             /\ QueueSound(t, n)
<1> DEFINE t == [s EXCEPT !.q = Tail(s.q), !.over = over]
           q == s.q
<1>1. q \in Seq(Event) /\ q # <<>>
  BY StreamFields
<1>2. /\ Tail(q) \in Seq(Event) /\ Len(q) \in Nat /\ Len(q) >= 1 /\ Len(Tail(q)) = Len(q) - 1
      /\ Head(q) = q[1] /\ \A i \in 1..Len(q) - 1 : Tail(q)[i] = q[i + 1]
  BY <1>1
<1>3. DOMAIN q = 1..Len(q) /\ DOMAIN Tail(q) = 1..Len(q) - 1
  BY <1>1, <1>2
<1>4. \A i \in DOMAIN Tail(q) : Tail(q)[i] = q[i + 1] /\ i + 1 \in DOMAIN q /\ 1 < i + 1 /\ 1 \in DOMAIN q
  BY <1>2, <1>3
<1>5. /\ t \in Stream /\ t.g = s.g /\ t.pid = s.pid /\ t.att = s.att /\ t.open = s.open /\ t.over = over
      /\ t.answered = s.answered /\ t.q = Tail(q)
  BY <1>2 DEF Stream
<1> HIDE DEF t
<1>6. Ordered(t.q, t.att)
  <2>1. \A i, j \in DOMAIN Tail(q) : i < j => i + 1 < j + 1
    BY <1>2, <1>3
  <2>2. QED
    BY <1>4, <1>5, <2>1 DEF QueueSound, Ordered
<1>7. \A i \in DOMAIN t.q : t.q[i].e = "done" => t.q[i].n <= n
  BY <1>4, <1>5 DEF QueueSound
<1>8. t.over => t.answered
  <2>1. CASE s.over
    BY <1>5, <2>1 DEF QueueSound
  <2>2. CASE over /\ q[1].e \in {"done", "degraded"}
    <3>1. s.answered
      BY <1>2, <1>3, <2>2 DEF QueueSound
    <3>2. QED
      BY <1>5, <3>1
  <2>3. QED
    BY <1>2, <1>5, <2>1, <2>2
<1>9. ASSUME ~t.answered \/ t.over, NEW i \in DOMAIN t.q PROVE t.q[i].e \in {"error", "close"}
  <2>1. CASE ~s.answered \/ s.over
    BY <1>4, <1>5, <1>9, <2>1 DEF QueueSound
  <2>2. CASE over /\ q[1].e \in {"done", "degraded"}
    <3>1. q[1].e \in Last
      BY <2>2 DEF Last
    <3>2. q[i + 1].e = "close"
      BY <1>4, <1>5, <1>9, <3>1 DEF QueueSound, Ordered
    <3>3. QED
      BY <1>4, <1>5, <1>9, <3>2
  <2>3. QED
    BY <1>2, <1>5, <1>9, <2>1, <2>2
<1>10. QED
  BY <1>5, <1>6, <1>7, <1>8, <1>9 DEF QueueSound, t

LEMMA AnsweredQueue ==
  ASSUME NEW s \in Stream, NEW m \in Turn, NEW n \in Turn, m <= n, QueueSound(s, m), ~s.answered,
         NEW events \in Seq(Event), Ordered(events, s.att),
         \A i \in DOMAIN events : events[i].e = "done" => events[i].n <= n
  PROVE  LET t == [s EXCEPT !.answered = TRUE, !.q = IF s.q = <<>> THEN events ELSE @]
         IN  QueueSound(t, n) /\ t.pid = s.pid
<1> DEFINE q == IF s.q = <<>> THEN events ELSE s.q
           t == [s EXCEPT !.answered = TRUE, !.q = IF s.q = <<>> THEN events ELSE @]
<1>1. t.pid = s.pid /\ t.att = s.att /\ t.answered /\ t.over = s.over /\ t.q = q
  BY Answered
<1>2. ~s.over /\ QueueSound(s, n)
  BY MoreTurns DEF QueueSound
<1>3. Ordered(q, s.att) /\ \A i \in DOMAIN q : q[i].e = "done" => q[i].n <= n
  BY <1>2 DEF QueueSound
<1> HIDE DEF q, t
<1>4. QueueSound(t, n)
  BY <1>1, <1>2, <1>3 DEF QueueSound
<1>5. QED
  BY <1>1, <1>4 DEF t

LEMMA BrokenQueue ==
  ASSUME NEW s \in Stream, NEW n, QueueSound(s, n), NEW how \in {"error", "close"}
  PROVE  LET t == [s EXCEPT !.q = <<[e |-> how]>>]
         IN  QueueSound(t, n) /\ t.pid = s.pid
<1> DEFINE b == <<[e |-> how]>>
           t == [s EXCEPT !.q = b]
<1>1. b \in Seq(Event) /\ DOMAIN b = {1} /\ b[1].e = how
  <2>1. [e |-> how] \in Event
    BY DEF Event
  <2>2. QED
    BY <2>1
<1> HIDE DEF b
<1>2. t.pid = s.pid /\ t.att = s.att /\ t.answered = s.answered /\ t.over = s.over /\ t.q = b
  BY <1>1 DEF Stream
<1> HIDE DEF t
<1>3. \A i \in DOMAIN b : b[i].e = how /\ \A j \in DOMAIN b : ~(i < j)
  BY <1>1
<1>4. how # "scene" /\ how # "done" /\ how \in {"error", "close"}
  OBVIOUS
<1>5. QueueSound(t, n)
  BY <1>2, <1>3, <1>4 DEF QueueSound, Ordered
<1>6. QED
  BY <1>2, <1>5 DEF t, b

LEMMA SameRows ==
  ASSUME Queued, UNCHANGED <<streams, srv>>
  PROVE  Queued'
BY DEF Queued, QueueSound, Ordered, Last

LEMMA AbortedQueues ==
  ASSUME Typed, Queued, NEW a \in Abort(streams, cancel)
  PROVE  a \in Stream /\ QueueSound(a, srv[a.pid].turns)
<1>1. PICK s \in streams : a = IF s.g = cancel THEN [s EXCEPT !.open = FALSE, !.q = <<>>] ELSE s
  BY DEF Abort
<1>2. s \in Stream /\ QueueSound(s, srv[s.pid].turns)
  BY DEF Typed, Queued
<1>3. CASE s.g = cancel
  <2> DEFINE t == [s EXCEPT !.open = FALSE, !.q = <<>>]
  <2>1. t \in Stream /\ t.q = <<>> /\ (t.over => t.answered)
    BY <1>2, Closed DEF QueueSound
  <2>2. a = t
    BY <1>1, <1>3
  <2> HIDE DEF t
  <2>3. QED
    BY <2>1, <2>2, EmptyQueue
<1>4. CASE s.g # cancel
  BY <1>1, <1>2, <1>4
<1>5. QED
  BY <1>3, <1>4

LEMMA SubmissionsQueued ==
  ASSUME Typed, Queued, UNCHANGED srv,
         StopGeneration \/ \E p \in Pids : \E att \in Turn : StartStream(p, att)
  PROVE  Queued'
<1>1. ASSUME NEW s \in streams', s \in Abort(streams, cancel) PROVE QueueSound(s, srv'[s.pid].turns)
  BY <1>1, AbortedQueues
<1>2. CASE StopGeneration
  <2>1. streams' \subseteq Abort(streams, cancel)
    BY <1>2 DEF StopGeneration
  <2>2. \A s \in streams' : QueueSound(s, srv'[s.pid].turns)
    BY <1>1, <2>1
  <2>3. QED
    BY <2>2 DEF Queued, QueueSound, Ordered, Last
<1>3. ASSUME NEW p \in Pids, NEW att \in Turn, StartStream(p, att) PROVE Queued'
  <2>1. streams' \subseteq Abort(streams, cancel) \cup {Post(p, att)}
    BY <1>3 DEF StartStream
  <2>2. Post(p, att).q = <<>> /\ Post(p, att).over = FALSE
    BY DEF Post
  <2>3. \A s \in streams' : QueueSound(s, srv'[s.pid].turns)
    BY <1>1, <2>1, <2>2, EmptyQueue
  <2>4. QED
    BY <2>3 DEF Queued, QueueSound, Ordered, Last
<1>4. QED
  BY <1>2, <1>3

LEMMA ReplyQueued ==
  ASSUME Typed, Queued, NEW s \in streams, ~s.answered, NEW n \in Turn, srv[s.pid].turns <= n,
         NEW events \in Seq(Event), Ordered(events, s.att),
         \A i \in DOMAIN events : events[i].e = "done" => events[i].n <= n,
         Reply(s, events), ServerTyped', srv'[s.pid].turns = n, \A p \in Pids \ {s.pid} : srv'[p] = srv[p]
  PROVE  Queued'
<1> DEFINE t == [s EXCEPT !.answered = TRUE, !.q = IF s.q = <<>> THEN events ELSE @]
<1>1. s \in Stream /\ s.pid \in Pids /\ srv[s.pid].turns \in Turn /\ QueueSound(s, srv[s.pid].turns)
  BY StreamFields DEF Typed, ServerTyped, Queued
<1>2. QueueSound(t, n) /\ t.pid = s.pid
  BY <1>1, AnsweredQueue
<1>3. streams' \subseteq streams \cup {t}
  BY DEF Reply
<1> HIDE DEF t
<1>4. ASSUME NEW r \in streams PROVE QueueSound(r, srv'[r.pid].turns)
  <2>1. r \in Stream /\ r.pid \in Pids /\ srv[r.pid].turns \in Turn /\ QueueSound(r, srv[r.pid].turns)
    BY StreamFields DEF Typed, ServerTyped, Queued
  <2>2. CASE r.pid = s.pid
    BY <1>1, <2>1, <2>2, MoreTurns
  <2>3. CASE r.pid # s.pid
    BY <2>1, <2>3
  <2>4. QED
    BY <2>2, <2>3
<1>5. \A r \in streams' : QueueSound(r, srv'[r.pid].turns)
  BY <1>2, <1>3, <1>4
<1>6. QED
  BY <1>5 DEF Queued, QueueSound, Ordered, Last

LEMMA DeliverQueued ==
  ASSUME Typed, Queued, NEW s \in streams, Deliver(s)
  PROVE  Queued'
<1> DEFINE ev == Head(s.q)
           over == s.over \/ (Own(s) /\ ev.e \in {"done", "degraded"})
           closed == [s EXCEPT !.open = FALSE, !.q = <<>>]
           next == [s EXCEPT !.q = Tail(s.q), !.over = over]
<1>1. s \in Stream /\ QueueSound(s, srv[s.pid].turns) /\ s.q # <<>> /\ UNCHANGED srv
  BY DEF Typed, Queued, Deliver
<1>2. over \in BOOLEAN /\ (over => s.over \/ ev.e \in {"done", "degraded"})
  BY <1>1, StreamFields
<1>3. streams' \subseteq streams \cup {closed, next}
  <2>1. next = [s EXCEPT !.q = Tail(@), !.over = @ \/ (Own(s) /\ ev.e \in {"done", "degraded"})]
    BY <1>1 DEF Stream
  <2>2. QED
    BY <2>1 DEF Deliver
<1> HIDE DEF over
<1>4. QueueSound(next, srv[s.pid].turns) /\ next.pid = s.pid
  BY <1>1, <1>2, DeliveredQueue
<1>5. QueueSound(closed, srv[s.pid].turns) /\ closed.pid = s.pid
  <2>1. closed.q = <<>> /\ closed.pid = s.pid /\ (closed.over => closed.answered)
    BY <1>1, Closed DEF QueueSound
  <2> HIDE DEF closed
  <2>2. QED
    BY <2>1, EmptyQueue
<1> HIDE DEF next, closed
<1>6. \A r \in streams' : QueueSound(r, srv'[r.pid].turns)
  BY <1>1, <1>3, <1>4, <1>5 DEF Queued
<1>7. QED
  BY <1>6 DEF Queued, QueueSound, Ordered, Last

LEMMA StreamStepQueued ==
  ASSUME Typed, Queued, NEW s \in streams, StreamStep(s)
  PROVE  Queued'
<1>1. s \in Stream /\ s.pid \in Pids /\ srv[s.pid].turns \in Turn
  BY StreamFields DEF Typed, ServerTyped
<1>2. CASE Deliver(s)
  BY <1>2, DeliverQueued
<1>3. CASE ServerRefuses(s)
  <2> DEFINE q == <<[e |-> "error"]>>
  <2>1. q \in Seq(Event) /\ DOMAIN q = {1} /\ q[1].e = "error"
    <3>1. [e |-> "error"] \in Event
      BY DEF Event
    <3>2. QED
      BY <3>1
  <2>2. ~s.answered /\ Reply(s, q) /\ UNCHANGED <<srv, route, visits>>
    BY <1>3 DEF ServerRefuses
  <2> HIDE DEF q
  <2>3. Ordered(q, s.att) /\ \A i \in DOMAIN q : q[i].e = "done" => q[i].n <= srv[s.pid].turns
    BY <2>1 DEF Ordered
  <2>4. ServerTyped' /\ srv[s.pid].turns <= srv[s.pid].turns
    BY <1>1, <2>2, Bounds DEF Typed, ServerTyped, Turn
  <2>5. QED
    BY <1>1, <2>1, <2>2, <2>3, <2>4, ReplyQueued
<1>4. ASSUME NEW seen \in BOOLEAN, ServerDegrades(s, seen) PROVE Queued'
  <2> DEFINE q == Scene(s, seen) \o <<[e |-> "degraded"], [e |-> "close"]>>
  <2>1. q \in Seq(Event) /\ Ordered(q, s.att) /\ \A i \in DOMAIN q : q[i].e # "done"
    BY <1>1, DegradedAnswer
  <2>2. ~s.answered /\ Reply(s, q) /\ UNCHANGED <<srv, route, visits>>
    BY <1>4 DEF ServerDegrades
  <2> HIDE DEF q
  <2>3. ServerTyped' /\ srv[s.pid].turns <= srv[s.pid].turns
    BY <1>1, <2>2, Bounds DEF Typed, ServerTyped, Turn
  <2>4. QED
    BY <1>1, <2>1, <2>2, <2>3, ReplyQueued
<1>5. ASSUME NEW trigger \in BOOLEAN, NEW ends \in BOOLEAN, NEW seen \in BOOLEAN,
             ServerCommits(s, trigger, ends, seen)
      PROVE  Queued'
  <2> DEFINE n == srv[s.pid].turns + 1
  <2>1. n \in Turn /\ ServerTyped' /\ srv'[s.pid].turns = n /\ \A p \in Pids \ {s.pid} : srv'[p] = srv[p]
    BY <1>5, CommitRow
  <2>2. PICK x \in {<<>>, <<[e |-> "minigame", n |-> n]>>}, y \in {<<>>, <<[e |-> "ended"]>>} :
         Reply(s, Scene(s, seen) \o <<[e |-> "summary"]>> \o x \o y \o <<[e |-> "done", n |-> n], [e |-> "close"]>>)
    BY <1>5 DEF ServerCommits
  <2> DEFINE q == Scene(s, seen) \o <<[e |-> "summary"]>> \o x \o y \o <<[e |-> "done", n |-> n], [e |-> "close"]>>
  <2>3. ~s.answered /\ srv[s.pid].turns <= n /\ n <= n
    BY <1>1, <1>5, Bounds DEF ServerCommits, Turn
  <2> HIDE DEF n
  <2>4. n \in Turn
    BY <2>1
  <2>5. q \in Seq(Event) /\ Ordered(q, s.att) /\ Names(q, n)
    BY <1>1, <2>4, CommittedAnswer
  <2> HIDE DEF q
  <2>6. Reply(s, q)
    BY <2>2 DEF q
  <2>7. \A i \in DOMAIN q : q[i].e = "done" => q[i].n <= n
    BY <2>3, <2>5 DEF Names
  <2>8. QED
    BY <1>1, <2>1, <2>3, <2>5, <2>6, <2>7, ReplyQueued
<1>6. QED
  BY <1>2, <1>3, <1>4, <1>5 DEF StreamStep

LEMMA BreakQueued ==
  ASSUME Typed, Queued, NEW s \in streams, NEW how \in {"error", "close"}, Break(s, how)
  PROVE  Queued'
<1> DEFINE t == [s EXCEPT !.q = <<[e |-> how]>>]
<1>1. QueueSound(t, srv[s.pid].turns) /\ t.pid = s.pid
  BY BrokenQueue DEF Typed, Queued
<1>2. streams' \subseteq streams \cup {t} /\ UNCHANGED srv
  BY DEF Break
<1> HIDE DEF t
<1>3. \A r \in streams' : QueueSound(r, srv'[r.pid].turns)
  BY <1>1, <1>2 DEF Queued
<1>4. QED
  BY <1>3 DEF Queued, QueueSound, Ordered, Last

LEMMA SubmissionStarts ==
  ASSUME Typed, SubmitTurn \/ (\E tag \in {"played", "timeout"} : SubmitMinigameResult(tag)) \/ ReconcileResends
  PROVE  UNCHANGED srv /\ \E p \in Pids : \E att \in Turn : StartStream(p, att)
<1>1. CASE SubmitTurn
  <2>1. shown.id \in Pids /\ StartStream(shown.id, 0) /\ UNCHANGED srv
    BY <1>1 DEF SubmitTurn, Typed, ScreenTyped, Shown
  <2>2. QED
    BY <2>1, Bounds
<1>2. ASSUME NEW tag \in {"played", "timeout"}, SubmitMinigameResult(tag)
      PROVE  UNCHANGED srv /\ \E p \in Pids : \E att \in Turn : StartStream(p, att)
  <2>1. shown.id \in Pids /\ active \in Turn /\ StartStream(shown.id, active) /\ UNCHANGED srv
    BY <1>2 DEF SubmitMinigameResult, Typed, ScreenTyped, Shown
  <2>2. QED
    BY <2>1
<1>3. CASE ReconcileResends
  <2>1. recon # None /\ StartStream(recon.pid, recon.res.att) /\ UNCHANGED srv
    BY <1>3 DEF ReconcileResends
  <2>2. recon.pid \in Pids /\ recon.res.att \in Turn
    BY <2>1, ReconFieldsTyped
  <2>3. QED
    BY <2>1, <2>2
<1>4. QED
  BY <1>1, <1>2, <1>3

LEMMA InitQueued == Init => Queued
BY DEF Init, Queued

LEMMA StepQueued == Typed /\ Queued /\ [Next]_vars => Queued'
<1> SUFFICES ASSUME Typed, Queued, [Next]_vars PROVE Queued'
  OBVIOUS
<1>1. CASE \E s \in streams : StreamStep(s)
  BY <1>1, StreamStepQueued
<1>2. CASE \E s \in streams : \E how \in {"error", "close"} : Break(s, how)
  BY <1>2, BreakQueued
<1>3. CASE SubmitTurn \/ (\E tag \in {"played", "timeout"} : SubmitMinigameResult(tag)) \/ ReconcileResends
  BY <1>3, SubmissionStarts, SubmissionsQueued
<1>4. CASE StopGeneration
  BY <1>4, SubmissionsQueued DEF StopGeneration
<1>5. CASE ReconcileFails \/ ReconcileGone
  BY <1>5, SameRows DEF ReconcileFails, ReconcileGone
<1>6. CASE \E status \in {"retryable", "terminal"} : AskAgain(status)
  BY <1>6, SameRows DEF AskAgain
<1>7. CASE \E p \in Pids : OpenPage(p) \/ PlaythroughArrives(p) \/ TurnsArrive(p) \/ ServerReads(p)
  BY <1>7, SameRows DEF OpenPage, PlaythroughArrives, TurnsArrive, ServerReads
<1>8. CASE LeavePage \/ UNCHANGED vars
  BY <1>8, SameRows DEF LeavePage, vars
<1>9. QED
  BY <1>1, <1>2, <1>3, <1>4, <1>5, <1>6, <1>7, <1>8 DEF Next, NetStep, UserStep

-----------------------------------------------------------------------------
(* The draft of the turn. Until a submission replaces a running stream, what    *)
(* is buffered was received on the stream of the current generation, nothing   *)
(* is left when there is no stream to abort, and a result's turn has no image. *)

Clean == buf.img = 0 /\ buf.sum = 0 /\ buf.trigOf = 0 /\ buf.end = 0

Mine == buf.img \in {0, gen} /\ buf.sum \in {0, gen} /\ buf.trigOf \in {0, gen} /\ buf.end \in {0, gen}

DraftOwned ==
    buf.cut = FALSE =>
        /\ Mine
        /\ cancel = 0 => Clean
        /\ \A s \in streams : s.g = gen /\ s.att # 0 => buf.img = 0

LEMMA EmptyDraft ==
  ASSUME buf' = EmptyBuf
  PROVE  DraftOwned'
<1>1. buf'.img = 0 /\ buf'.sum = 0 /\ buf'.trigOf = 0 /\ buf'.end = 0
  BY DEF EmptyBuf
<1>2. QED
  BY <1>1 DEF DraftOwned, Clean, Mine

(* A stream that another takes the place of had its number and its attempt.    *)
LEMMA SameDraft ==
  ASSUME DraftOwned, UNCHANGED <<buf, gen, cancel>>,
         \A t \in streams' : \E s \in streams : t.g = s.g /\ t.att = s.att
  PROVE  DraftOwned'
BY DEF DraftOwned, Clean, Mine

LEMMA StartStreamDraft ==
  ASSUME Typed, DraftOwned, NEW p, NEW att, StartStream(p, att)
  PROVE  DraftOwned'
<1> DEFINE new == buf.cut \/ cancel # 0
<1>1. buf \in [img: Gen, sum: Gen, trig: Turn, trigOf: Gen, end: Gen, cut: BOOLEAN] /\ new \in BOOLEAN
  BY DEF Typed, ScreenTyped
<1>2. buf' = [buf EXCEPT !.cut = new]
  BY <1>1 DEF StartStream
<1>3. new = FALSE => buf.cut = FALSE /\ cancel = 0
  BY <1>1
<1> HIDE DEF new
<1>4. /\ buf'.img = buf.img /\ buf'.sum = buf.sum /\ buf'.trigOf = buf.trigOf /\ buf'.end = buf.end
      /\ buf'.cut = new
  BY <1>1, <1>2
<1>5. buf'.cut = FALSE => buf'.img = 0 /\ buf'.sum = 0 /\ buf'.trigOf = 0 /\ buf'.end = 0
  BY <1>3, <1>4 DEF DraftOwned, Clean
<1>6. QED
  BY <1>5 DEF DraftOwned, Clean, Mine

LEMMA FailDraft ==
  ASSUME Typed, DraftOwned, NEW s \in streams, Own(s), Fail(s)
  PROVE  DraftOwned'
<1>1. CASE buf' = EmptyBuf
  BY <1>1, EmptyDraft
<1>2. CASE s.att # 0 /\ buf' = [EmptyBuf EXCEPT !.img = buf.img, !.cut = buf.cut]
  <2>1. /\ buf'.img = buf.img /\ buf'.sum = 0 /\ buf'.trigOf = 0 /\ buf'.end = 0 /\ buf'.cut = buf.cut
    BY <1>2 DEF EmptyBuf
  <2>2. buf.cut = FALSE => buf.img = 0
    BY <1>2 DEF DraftOwned, Own
  <2>3. QED
    BY <2>1, <2>2 DEF DraftOwned, Clean, Mine
<1>3. QED
  BY <1>1, <1>2 DEF Fail

LEMMA BufferDraft ==
  ASSUME IInv, Typed, Queued, DraftOwned, NEW s \in streams, Own(s), Deliver(s), Buffer(s, Head(s.q)),
         Head(s.q).e \in {"scene", "summary", "minigame", "ended"},
         \A t \in streams' : \E r \in streams : t.g = r.g /\ t.att = r.att
  PROVE  DraftOwned'
<1> DEFINE ev == Head(s.q)
<1>1. /\ s \in Stream /\ s.q \in Seq(Event) /\ s.q # <<>> /\ s.open /\ s.g = gen
      /\ QueueSound(s, srv[s.pid].turns)
  BY StreamFields DEF Typed, Queued, Deliver, Own
<1>2. 1 \in DOMAIN s.q /\ ev = s.q[1]
  BY <1>1
<1>3. Live(s) /\ (ev.e = "scene" => s.att = 0)
  BY <1>1, <1>2 DEF QueueSound, Ordered, Live
<1>4. cancel = gen /\ gen # 0 /\ UNCHANGED <<gen, cancel>>
  BY <1>1, <1>3 DEF IInv, Cancellable, Numbered, IsStream, Buffer
<1>5. \A t \in streams' : t.g = gen => t.att = s.att
  BY <1>1 DEF IInv, Numbered
<1>6. buf \in [img: Gen, sum: Gen, trig: Turn, trigOf: Gen, end: Gen, cut: BOOLEAN]
  BY DEF Typed, ScreenTyped
<1>7. /\ buf'.cut = buf.cut
      /\ buf'.img = (IF ev.e = "scene" THEN gen ELSE buf.img)
      /\ buf'.sum \in {buf.sum, gen} /\ buf'.trigOf \in {buf.trigOf, gen} /\ buf'.end \in {buf.end, gen}
  <2>1. CASE ev.e = "scene"
    BY <1>1, <1>6, <2>1 DEF Buffer
  <2>2. CASE ev.e = "summary"
    BY <1>1, <1>6, <2>2 DEF Buffer
  <2>3. CASE ev.e = "minigame"
    BY <1>1, <1>6, <2>3 DEF Buffer
  <2>4. CASE ev.e = "ended"
    BY <1>1, <1>6, <2>4 DEF Buffer
  <2>5. QED
    BY <2>1, <2>2, <2>3, <2>4
<1> HIDE DEF ev
<1>8. ASSUME buf.cut = FALSE PROVE Mine' /\ \A t \in streams' : t.g = gen /\ t.att # 0 => buf'.img = 0
  <2>1. Mine /\ (s.att # 0 => buf.img = 0)
    BY <1>1, <1>8 DEF DraftOwned
  <2>2. Mine'
    BY <1>4, <1>7, <2>1 DEF Mine
  <2>3. ASSUME NEW t \in streams', t.g = gen, t.att # 0 PROVE buf'.img = 0
    BY <1>3, <1>5, <1>7, <2>1, <2>3
  <2>4. QED
    BY <2>2, <2>3
<1>9. QED
  BY <1>4, <1>7, <1>8 DEF DraftOwned

LEMMA DeliverDraft ==
  ASSUME IInv, Typed, Queued, DraftOwned, NEW s \in streams, Deliver(s)
  PROVE  DraftOwned'
<1> DEFINE ev == Head(s.q)
           over == s.over \/ (Own(s) /\ ev.e \in {"done", "degraded"})
           closed == [s EXCEPT !.open = FALSE, !.q = <<>>]
           next == [s EXCEPT !.q = Tail(s.q), !.over = over]
<1>1. s \in Stream /\ ev \in Event /\ Handle(s, ev)
  <2>1. s \in Stream /\ s.q \in Seq(Event) /\ s.q # <<>> /\ Handle(s, Head(s.q))
    BY StreamFields DEF Typed, Deliver
  <2>2. QED
    BY <2>1
<1>2. \A t \in streams' : \E r \in streams : t.g = r.g /\ t.att = r.att
  <2>1. next = [s EXCEPT !.q = Tail(@), !.over = @ \/ (Own(s) /\ ev.e \in {"done", "degraded"})]
    BY <1>1 DEF Stream
  <2>2. streams' \subseteq streams \cup {closed, next}
    BY <2>1 DEF Deliver
  <2> HIDE DEF over
  <2>3. next.g = s.g /\ next.att = s.att /\ closed.g = s.g /\ closed.att = s.att
    BY <1>1 DEF Stream
  <2> HIDE DEF next, closed
  <2>4. QED
    BY <2>2, <2>3
<1> HIDE DEF over, closed, next
<1>3. CASE ~Own(s) \/ (ev.e = "close" /\ s.over)
  <2>1. UNCHANGED <<buf, gen, cancel>>
    BY <1>1, <1>3 DEF Handle, Quiet, store
  <2>2. QED
    BY <1>2, <2>1, SameDraft
<1>4. CASE Own(s) /\ ev.e = "done"
  <2>1. buf' = EmptyBuf
    BY <1>1, <1>4 DEF Handle, Commit
  <2>2. QED
    BY <2>1, EmptyDraft
<1>5. CASE Own(s) /\ (ev.e \in {"degraded", "error"} \/ (ev.e = "close" /\ ~s.over))
  <2>1. Fail(s)
    BY <1>1, <1>5 DEF Handle
  <2>2. QED
    BY <1>5, <2>1, FailDraft
<1>6. CASE Own(s) /\ ev.e \notin {"done", "degraded", "error", "close"}
  <2>1. Buffer(s, ev) /\ ev.e \in {"scene", "summary", "minigame", "ended"}
    BY <1>1, <1>6, EventTyped DEF Handle
  <2>2. QED
    BY <1>2, <1>6, <2>1, BufferDraft
<1>7. QED
  BY <1>3, <1>4, <1>5, <1>6

LEMMA AnswerDraft ==
  ASSUME Typed, DraftOwned, NEW s \in streams, NEW events \in Seq(Event), Reply(s, events), UNCHANGED store
  PROVE  DraftOwned'
<1> DEFINE t == [s EXCEPT !.answered = TRUE, !.q = IF s.q = <<>> THEN events ELSE @]
<1>1. t.g = s.g /\ t.att = s.att
  BY Answered DEF Typed
<1>2. streams' \subseteq streams \cup {t}
  BY DEF Reply
<1> HIDE DEF t
<1>3. \A r \in streams' : \E q \in streams : r.g = q.g /\ r.att = q.att
  BY <1>1, <1>2
<1>4. QED
  BY <1>3, SameDraft DEF store

LEMMA StreamStepDraft ==
  ASSUME IInv, Typed, Queued, DraftOwned, NEW s \in streams, StreamStep(s)
  PROVE  DraftOwned'
<1>1. s \in Stream /\ s.pid \in Pids /\ srv[s.pid].turns \in Turn
  BY StreamFields DEF Typed, ServerTyped
<1>2. CASE Deliver(s)
  BY <1>2, DeliverDraft
<1>3. CASE ServerRefuses(s)
  <2> DEFINE q == <<[e |-> "error"]>>
  <2>1. [e |-> "error"] \in Event
    BY DEF Event
  <2>2. q \in Seq(Event)
    BY <2>1
  <2>3. Reply(s, q) /\ UNCHANGED store
    BY <1>3 DEF ServerRefuses
  <2> HIDE DEF q
  <2>4. QED
    BY <2>2, <2>3, AnswerDraft
<1>4. ASSUME NEW seen \in BOOLEAN, ServerDegrades(s, seen) PROVE DraftOwned'
  <2> DEFINE q == Scene(s, seen) \o <<[e |-> "degraded"], [e |-> "close"]>>
  <2>1. q \in Seq(Event)
    BY <1>1, DegradedAnswer
  <2>2. Reply(s, q) /\ UNCHANGED store
    BY <1>4 DEF ServerDegrades
  <2> HIDE DEF q
  <2>3. QED
    BY <2>1, <2>2, AnswerDraft
<1>5. ASSUME NEW trigger \in BOOLEAN, NEW ends \in BOOLEAN, NEW seen \in BOOLEAN,
             ServerCommits(s, trigger, ends, seen)
      PROVE  DraftOwned'
  <2> DEFINE n == srv[s.pid].turns + 1
  <2>1. n \in Turn
    BY <1>5, CommitRow
  <2>2. PICK x \in {<<>>, <<[e |-> "minigame", n |-> n]>>}, y \in {<<>>, <<[e |-> "ended"]>>} :
         Reply(s, Scene(s, seen) \o <<[e |-> "summary"]>> \o x \o y \o <<[e |-> "done", n |-> n], [e |-> "close"]>>)
    BY <1>5 DEF ServerCommits
  <2> DEFINE q == Scene(s, seen) \o <<[e |-> "summary"]>> \o x \o y \o <<[e |-> "done", n |-> n], [e |-> "close"]>>
  <2> HIDE DEF n
  <2>3. q \in Seq(Event)
    BY <1>1, <2>1, CommittedAnswer
  <2>4. Reply(s, q)
    BY <2>2
  <2>5. UNCHANGED store
    BY <1>5 DEF ServerCommits
  <2> HIDE DEF q
  <2>6. QED
    BY <2>3, <2>4, <2>5, AnswerDraft
<1>6. QED
  BY <1>2, <1>3, <1>4, <1>5 DEF StreamStep

LEMMA BreakDraft ==
  ASSUME Typed, DraftOwned, NEW s \in streams, NEW how \in {"error", "close"}, Break(s, how)
  PROVE  DraftOwned'
<1> DEFINE t == [s EXCEPT !.q = <<[e |-> how]>>]
<1>1. t.g = s.g /\ t.att = s.att
  BY DEF Typed, Stream
<1>2. streams' \subseteq streams \cup {t} /\ UNCHANGED <<buf, gen, cancel>>
  BY DEF Break, store
<1> HIDE DEF t
<1>3. \A r \in streams' : \E q \in streams : r.g = q.g /\ r.att = q.att
  BY <1>1, <1>2
<1>4. QED
  BY <1>2, <1>3, SameDraft

LEMMA InitDraft == Init => DraftOwned
BY DEF Init, DraftOwned, Clean, Mine, EmptyBuf

LEMMA StepDraft == IInv /\ Typed /\ Queued /\ DraftOwned /\ [Next]_vars => DraftOwned'
<1> SUFFICES ASSUME IInv, Typed, Queued, DraftOwned, [Next]_vars PROVE DraftOwned'
  OBVIOUS
<1>1. CASE \E s \in streams : StreamStep(s)
  BY <1>1, StreamStepDraft
<1>2. CASE \E s \in streams : \E how \in {"error", "close"} : Break(s, how)
  BY <1>2, BreakDraft
<1>3. CASE SubmitTurn \/ (\E tag \in {"played", "timeout"} : SubmitMinigameResult(tag)) \/ ReconcileResends
  BY <1>3, SubmissionStarts, StartStreamDraft
<1>4. CASE StopGeneration
  BY <1>4, EmptyDraft DEF StopGeneration
<1>5. CASE UNCHANGED <<streams, buf, gen, cancel>>
  <2>1. \A t \in streams' : \E s \in streams : t.g = s.g /\ t.att = s.att
    BY <1>5
  <2>2. QED
    BY <1>5, <2>1, SameDraft
<1>6. CASE ReconcileFails \/ ReconcileGone
  BY <1>5, <1>6 DEF ReconcileFails, ReconcileGone
<1>7. CASE \E status \in {"retryable", "terminal"} : AskAgain(status)
  BY <1>5, <1>7 DEF AskAgain
<1>8. CASE \E p \in Pids : OpenPage(p) \/ PlaythroughArrives(p) \/ TurnsArrive(p) \/ ServerReads(p)
  BY <1>5, <1>8 DEF OpenPage, PlaythroughArrives, TurnsArrive, ServerReads, store
<1>9. CASE LeavePage \/ UNCHANGED vars
  BY <1>5, <1>9 DEF LeavePage, vars, store
<1>10. QED
  BY <1>1, <1>2, <1>3, <1>4, <1>6, <1>7, <1>8, <1>9 DEF Next, NetStep, UserStep

(* What a commit attaches.                                                      *)
LEMMA CommitDraft ==
  IInv /\ Typed /\ Queued /\ DraftOwned /\ [Next]_vars =>
    [\A s \in streams : ~buf.cut /\ Deliver(s) /\ Own(s) /\ Head(s.q).e = "done"
          => {buf.img, buf.sum, buf.trigOf, buf.end} \subseteq {0, s.g}]_vars
<1> SUFFICES ASSUME Typed, DraftOwned, NEW s \in streams, ~buf.cut, Own(s)
             PROVE  {buf.img, buf.sum, buf.trigOf, buf.end} \subseteq {0, s.g}
  OBVIOUS
<1>1. buf.cut = FALSE
  BY DEF Typed, ScreenTyped
<1>2. QED
  BY <1>1 DEF DraftOwned, Mine, Own

-----------------------------------------------------------------------------
(* The latest answer is on screen as long as the screen lists no more turns     *)
(* than a page of GET /turns, each of its own story and once: no answer lists   *)
(* more than a page, so a screen that does drops every later one.               *)

(* What was read of the log is a page of it at most, and a fetch under way      *)
(* brings no fewer turns than the cache has.                                    *)
Fetched(p) ==
    /\ tdata[p] <= srv[p].turns /\ tnet[p] <= srv[p].turns
    /\ tdata[p] <= PageSize /\ tnet[p] <= PageSize
    /\ tnet[p] >= 0 => tdata[p] <= tnet[p]

Brief(p) == shown # None /\ shown.id = p /\ InOrder /\ Len(shown.list) <= PageSize

(* An answer that has yet to arrive has all the turns on screen, so it will be  *)
(* applied; what has arrived was applied.                                       *)
Fits(p) ==
    /\ Len(shown.list) <= srv[p].turns
    /\ p \in route /\ tnet[p] = Idle => Len(shown.list) <= Count(tdata[p])
    /\ p \in route /\ tnet[p] >= 0 => Len(shown.list) <= tnet[p]
    /\ p \in route /\ pnet[p] = None /\ tnet[p] = Idle /\ pdata[p] # None => shown.asOf = pdata[p].turns

ListedOf(p) == Fetched(p) /\ (Brief(p) => Fits(p))
Listed == \A p \in Pids : ListedOf(p)

LEMMA Sizes ==
  ASSUME Typed, NEW p \in Pids
  PROVE  /\ tdata[p] \in Int /\ -1 <= tdata[p] /\ tdata[p] <= MaxTurns /\ tdata[p] \in -1..MaxTurns
         /\ tnet[p] \in Int /\ srv[p].turns \in Nat
         /\ Count(tdata[p]) \in Nat
         /\ shown # None => shown \in Shown /\ shown.list \in Seq(Turn) /\ Len(shown.list) \in Nat
<1>1. tdata[p] \in -1..MaxTurns /\ tnet[p] \in -2..MaxTurns /\ srv[p].turns \in Turn
  BY DEF Typed, CacheTyped, ServerTyped
<1>2. Count(tdata[p]) \in Nat
  BY <1>1, Bounds DEF Count, NoTurns
<1>3. shown # None => shown \in Shown /\ shown.list \in Seq(Turn) /\ Len(shown.list) \in Nat
  BY DEF Typed, ScreenTyped, Shown
<1>4. QED
  BY <1>1, <1>2, <1>3, Bounds DEF Turn

(* The effect leaves the screen alone or shows the two answers, and it does     *)
(* show them when they list at least what is on screen.                         *)
LEMMA EffectShows ==
  ASSUME Typed, NEW p \in Pids, NEW snap \in Snap \cup {None}, NEW n \in -1..MaxTurns, NEW act, NEW res,
         Effect(p, snap, n, shown, act, res)
  PROVE  /\ \/ shown' = shown
            \/ /\ snap \in Snap /\ shown' # None /\ shown'.id = p
               /\ Len(shown'.list) = Count(n) /\ shown'.asOf = snap.turns
         /\ p \in route /\ snap # None /\ (shown # None => Len(shown.list) <= Count(n)) => shown'.asOf = snap.turns
<1>1. CASE SnapshotApplies(p, snap, n, shown)
  <2>1. snap \in Snap /\ shown' = Build(p, snap, n)
    BY <1>1 DEF SnapshotApplies, Effect
  <2>2. /\ Build(p, snap, n) # None /\ Build(p, snap, n).id = p
        /\ Len(Build(p, snap, n).list) = Count(n) /\ Build(p, snap, n).asOf = snap.turns
    BY <2>1, BuildTyped
  <2> HIDE DEF Build
  <2>3. QED
    BY <2>1, <2>2
<1>2. CASE ~SnapshotApplies(p, snap, n, shown)
  <2>1. shown' = shown
    BY <1>2 DEF Effect
  <2>2. ASSUME p \in route, snap # None, shown # None => Len(shown.list) <= Count(n) PROVE FALSE
    <3>1. snap \in Snap
      BY <2>2
    <3>2. Len(Build(p, snap, n).list) = Count(n) /\ Count(n) \in Nat
      <4>1. Len(Build(p, snap, n).list) = Count(n) /\ Count(n) \in 0..MaxTurns
        BY <3>1, BuildTyped
      <4>2. QED
        BY <4>1, Bounds
    <3>3. shown # None => Len(shown.list) \in Nat
      BY Sizes
    <3>4. QED
      BY <1>2, <2>2, <3>2, <3>3 DEF SnapshotApplies
  <2>3. QED
    BY <2>1, <2>2
<1>3. QED
  BY <1>1, <1>2

LEMMA SameList ==
  ASSUME Listed, UNCHANGED <<srv, route, shown, queries>>
  PROVE  Listed'
BY DEF Listed, ListedOf, Fetched, Brief, Fits, InOrder, queries

(* A story whose answers and row stay, while the screen stays or turns to       *)
(* another story.                                                               *)
LEMMA OtherListed ==
  ASSUME Listed, NEW p \in Pids, NEW q \in Pids, p # q, UNCHANGED srv,
         pdata'[q] = pdata[q], pnet'[q] = pnet[q], tdata'[q] = tdata[q], tnet'[q] = tnet[q],
         q \in route' => q \in route,
         shown' = shown \/ shown'.id = p
  PROVE  ListedOf(q)'
<1>1. Fetched(q) /\ (Brief(q) => Fits(q))
  BY DEF Listed, ListedOf
<1>2. Fetched(q)'
  BY <1>1 DEF Fetched
<1>3. ASSUME Brief(q)' PROVE Fits(q)'
  <2>1. shown' = shown /\ Brief(q)
    BY <1>3 DEF Brief, InOrder
  <2>2. QED
    BY <1>1, <2>1 DEF Fits
<1>4. QED
  BY <1>2, <1>3 DEF ListedOf

LEMMA LongerLog ==
  ASSUME Typed, Listed, ServerTyped', \A p \in Pids : srv[p].turns <= srv'[p].turns,
         UNCHANGED <<route, shown, queries>>
  PROVE  Listed'
<1> SUFFICES ASSUME NEW p \in Pids PROVE ListedOf(p)'
  BY DEF Listed
<1>1. srv'[p].turns \in Nat /\ srv[p].turns \in Nat /\ tdata[p] \in Int /\ tnet[p] \in Int
  BY Sizes, Bounds DEF ServerTyped, Turn
<1>2. Fetched(p) /\ (Brief(p) => Fits(p))
  BY DEF Listed, ListedOf
<1>3. Fetched(p)'
  BY <1>1, <1>2 DEF Fetched, queries
<1>4. ASSUME Brief(p)' PROVE Fits(p)'
  <2>1. Brief(p) /\ Len(shown.list) \in Nat
    BY <1>4, Sizes DEF Brief, InOrder
  <2>2. QED
    BY <1>1, <1>2, <2>1 DEF Fits, queries
<1>5. QED
  BY <1>3, <1>4 DEF ListedOf

LEMMA CommitListed ==
  ASSUME Typed, Listed, shown # None, NEW n \in Turn,
         n # 0 => n <= srv[shown.id].turns,
         Commit(n), UNCHANGED <<srv, route>>
  PROVE  Listed'
<1> SUFFICES ASSUME NEW p \in Pids PROVE ListedOf(p)'
  BY DEF Listed
<1>1. Fetched(p) /\ (Brief(p) => Fits(p))
  BY DEF Listed, ListedOf
<1>2. shown.id \in Pids /\ shown.list \in Seq(Turn)
  BY DEF Typed, ScreenTyped, Shown
<1>3. Invalidate(shown.id)
  BY DEF Commit
<1>4. shown'.list = Append(shown.list, n) /\ shown'.id = shown.id
  BY CommitTyped DEF Typed
<1>5. CASE p # shown.id
  <2>1. tdata'[p] = tdata[p] /\ tnet'[p] = tnet[p]
    BY <1>2, <1>3, <1>5 DEF Invalidate, Typed, CacheTyped
  <2>2. Fetched(p)'
    BY <1>1, <2>1 DEF Fetched
  <2>3. ~Brief(p)'
    BY <1>4, <1>5 DEF Brief
  <2>4. QED
    BY <2>2, <2>3 DEF ListedOf
<1>6. CASE p = shown.id
  <2>1. /\ tdata'[p] = tdata[p] /\ pdata'[p] = pdata[p]
        /\ tnet'[p] = (IF p \in route THEN NoTurns ELSE tnet[p])
    BY <1>3, <1>6 DEF Invalidate, Typed, CacheTyped
  <2>2. Fetched(p)'
    BY <1>1, <2>1, Sizes, PlayAssumption DEF Fetched, NoTurns
  <2>3. ASSUME InOrder' PROVE Len(shown'.list) <= srv[p].turns
    <3>1. /\ Len(shown'.list) = Len(shown.list) + 1 /\ shown'.list[Len(shown.list) + 1] = n
          /\ Len(shown.list) + 1 \in DOMAIN shown'.list /\ Len(shown.list) \in Nat
      BY <1>2, <1>4
    <3>2. n = Len(shown.list) + 1
      BY <2>3, <3>1 DEF InOrder
    <3>3. QED
      BY <1>6, <3>1, <3>2
  <2>4. ASSUME Brief(p)' PROVE Fits(p)'
    <3>1. Len(shown'.list) <= srv[p].turns
      BY <2>3, <2>4 DEF Brief
    <3>2. QED
      BY <2>1, <3>1 DEF Fits, NoTurns, Idle
  <2>5. QED
    BY <2>2, <2>4 DEF ListedOf
<1>7. QED
  BY <1>5, <1>6

LEMMA DeliverListed ==
  ASSUME Typed, Queued, Listed, NEW s \in streams, Deliver(s)
  PROVE  Listed'
<1> DEFINE ev == Head(s.q)
<1>1. /\ s \in Stream /\ s.q \in Seq(Event) /\ s.q # <<>> /\ s.pid \in Pids
      /\ Handle(s, ev) /\ UNCHANGED <<srv, route>> /\ shown # None
  BY StreamFields DEF Typed, Deliver, Somewhere
<1>2. ev = s.q[1] /\ 1 \in DOMAIN s.q /\ ev \in Event
  BY <1>1
<1> HIDE DEF ev
<1>3. CASE Own(s) /\ ev.e = "done"
  <2>1. ev.n \in Turn /\ ev.n <= srv[s.pid].turns /\ Commit(Narrated(s, ev.n))
    BY <1>1, <1>2, <1>3, EventTyped DEF Queued, QueueSound, Handle
  <2>2. /\ Narrated(s, ev.n) \in Turn
        /\ Narrated(s, ev.n) # 0 => Narrated(s, ev.n) <= srv[shown.id].turns
    BY <2>1, Bounds DEF Narrated
  <2>3. QED
    BY <1>1, <2>1, <2>2, CommitListed
<1>4. CASE ~(Own(s) /\ ev.e = "done")
  <2>1. Quiet \/ Fail(s) \/ Buffer(s, ev)
    BY <1>1, <1>4 DEF Handle
  <2>2. UNCHANGED <<shown, queries>>
    BY <2>1 DEF Quiet, Fail, Buffer, store
  <2>3. QED
    BY <1>1, <2>2, SameList
<1>5. QED
  BY <1>3, <1>4

LEMMA StreamStepListed ==
  ASSUME Typed, Queued, Listed, NEW s \in streams, StreamStep(s)
  PROVE  Listed'
<1>1. CASE Deliver(s)
  BY <1>1, DeliverListed
<1>2. CASE ServerRefuses(s) \/ \E seen \in BOOLEAN : ServerDegrades(s, seen)
  <2>1. UNCHANGED <<srv, route, shown, queries>>
    BY <1>2 DEF ServerRefuses, ServerDegrades, store
  <2>2. QED
    BY <2>1, SameList
<1>3. ASSUME NEW trigger \in BOOLEAN, NEW ends \in BOOLEAN, NEW seen \in BOOLEAN,
             ServerCommits(s, trigger, ends, seen)
      PROVE  Listed'
  <2>1. /\ srv'[s.pid].turns = srv[s.pid].turns + 1 /\ ServerTyped'
        /\ \A p \in Pids \ {s.pid} : srv'[p] = srv[p]
    BY <1>3, CommitRow
  <2>2. \A p \in Pids : srv[p].turns \in Nat
    BY Sizes
  <2>3. \A p \in Pids : srv[p].turns <= srv'[p].turns
    BY <2>1, <2>2
  <2>4. UNCHANGED <<route, shown, queries>>
    BY <1>3 DEF ServerCommits, store
  <2>5. QED
    BY <2>1, <2>3, <2>4, LongerLog
<1>4. QED
  BY <1>1, <1>2, <1>3 DEF StreamStep

(* A reconciliation that got an answer: the playthrough is replaced.            *)
LEMMA ReconcileListed ==
  ASSUME Typed, Listed, ReconcileGone \/ ReconcileResends
  PROVE  Listed'
<1>0. PICK p \in Pids : p = recon.pid
  BY ReconFieldsTyped DEF ReconcileGone, ReconcileResends
<1>1. /\ recon # None /\ recon.net # Asked /\ pdata' = [pdata EXCEPT ![p] = recon.net]
      /\ \E act, res : Effect(p, recon.net, tdata[p], shown, act, res)
      /\ UNCHANGED <<srv, route, pnet, tdata, tnet>>
  BY <1>0 DEF ReconcileGone, ReconcileResends
<1>2. recon.net \in Snap /\ recon.net # None
  BY <1>1, ReconFieldsTyped, NoneApart
<1>3. pdata'[p] = recon.net /\ \A q \in Pids \ {p} : pdata'[q] = pdata[q]
  BY <1>1, <1>2 DEF Typed, CacheTyped
<1>4. Fetched(p) /\ (Brief(p) => Fits(p))
  BY <1>2 DEF Listed, ListedOf
<1>5. Fetched(p)'
  BY <1>1, <1>4 DEF Fetched
<1>6. /\ \/ shown' = shown
         \/ shown' # None /\ shown'.id = p /\ Len(shown'.list) = Count(tdata[p]) /\ shown'.asOf = recon.net.turns
      /\ p \in route /\ (shown # None => Len(shown.list) <= Count(tdata[p])) => shown'.asOf = recon.net.turns
  BY <1>1, <1>2, Sizes, EffectShows
<1>7. ASSUME shown' = shown, Brief(p)' PROVE Fits(p)'
  <2>1. Brief(p)
    BY <1>7 DEF Brief, InOrder
  <2>2. QED
    BY <1>1, <1>2, <1>3, <1>4, <1>6, <1>7, <2>1 DEF Fits
<1>8. ASSUME shown' # None, Len(shown'.list) = Count(tdata[p]), shown'.asOf = recon.net.turns PROVE Fits(p)'
  <2>1. Count(tdata[p]) <= srv[p].turns /\ (tnet[p] >= 0 => Count(tdata[p]) <= tnet[p])
    BY <1>2, <1>4, Sizes DEF Fetched, Count, NoTurns
  <2>2. QED
    BY <1>1, <1>3, <1>8, <2>1 DEF Fits
<1>9. \A q \in Pids \ {p} : ListedOf(q)'
  BY <1>1, <1>2, <1>3, <1>6, OtherListed
<1>10. ListedOf(p)'
  BY <1>5, <1>6, <1>7, <1>8 DEF ListedOf
<1>11. QED
  BY <1>9, <1>10 DEF Listed

LEMMA PlaythroughListed ==
  ASSUME Typed, Listed, NEW p \in Pids, PlaythroughArrives(p)
  PROVE  Listed'
<1>1. /\ pdata'[p] = pnet[p] /\ pnet[p] \in Snap /\ pnet[p] # None
      /\ Effect(p, pnet[p], tdata[p], shown, active, result)
      /\ UNCHANGED <<srv, route, tdata, tnet>>
      /\ \A q \in Pids \ {p} : pdata'[q] = pdata[q] /\ pnet'[q] = pnet[q]
  BY PlaythroughTyped, NoneApart DEF PlaythroughArrives, Typed, CacheTyped
<1>2. Fetched(p) /\ (Brief(p) => Fits(p))
  BY DEF Listed, ListedOf
<1>3. Fetched(p)'
  BY <1>1, <1>2 DEF Fetched
<1>4. /\ \/ shown' = shown
         \/ shown' # None /\ shown'.id = p /\ Len(shown'.list) = Count(tdata[p]) /\ shown'.asOf = pnet[p].turns
      /\ p \in route /\ (shown # None => Len(shown.list) <= Count(tdata[p])) => shown'.asOf = pnet[p].turns
  BY <1>1, Sizes, EffectShows
<1>5. ASSUME shown' = shown, Brief(p)' PROVE Fits(p)'
  <2>1. Brief(p)
    BY <1>5 DEF Brief, InOrder
  <2>2. QED
    BY <1>1, <1>2, <1>4, <1>5, <2>1 DEF Fits
<1>6. ASSUME shown' # None, Len(shown'.list) = Count(tdata[p]), shown'.asOf = pnet[p].turns PROVE Fits(p)'
  <2>1. Count(tdata[p]) <= srv[p].turns /\ (tnet[p] >= 0 => Count(tdata[p]) <= tnet[p])
    BY <1>2, Sizes DEF Fetched, Count, NoTurns
  <2>2. QED
    BY <1>1, <1>6, <2>1 DEF Fits
<1>7. \A q \in Pids \ {p} : ListedOf(q)'
  BY <1>1, <1>4, OtherListed
<1>8. QED
  BY <1>3, <1>4, <1>5, <1>6, <1>7 DEF Listed, ListedOf

LEMMA TurnsListed ==
  ASSUME Typed, Listed, NEW p \in Pids, TurnsArrive(p)
  PROVE  Listed'
<1>1. /\ tdata'[p] = tnet[p] /\ tnet'[p] = Idle /\ tnet[p] \in 0..MaxTurns /\ tnet[p] \in -1..MaxTurns
      /\ Effect(p, pdata[p], tnet[p], shown, active, result)
      /\ UNCHANGED <<srv, route, pdata, pnet>>
      /\ \A q \in Pids \ {p} : tdata'[q] = tdata[q] /\ tnet'[q] = tnet[q]
  BY TurnsTyped, Bounds DEF TurnsArrive, Typed, CacheTyped
<1>2. Fetched(p) /\ (Brief(p) => Fits(p)) /\ pdata[p] \in Snap \cup {None}
  BY DEF Listed, ListedOf, Typed, CacheTyped
<1>3. Count(tnet[p]) = tnet[p] /\ tnet[p] >= 0 /\ ~(Idle >= 0) /\ Idle <= 0
  BY <1>1, Bounds DEF Count, NoTurns, Idle
<1>4. Fetched(p)'
  BY <1>1, <1>2, <1>3, Sizes, PlayAssumption DEF Fetched, Idle
<1>5. /\ \/ shown' = shown
         \/ /\ pdata[p] \in Snap /\ shown' # None /\ shown'.id = p
            /\ Len(shown'.list) = tnet[p] /\ shown'.asOf = pdata[p].turns
      /\ p \in route /\ pdata[p] # None /\ (shown # None => Len(shown.list) <= tnet[p])
           => shown'.asOf = pdata[p].turns
  BY <1>1, <1>2, <1>3, EffectShows
<1>6. ASSUME shown' = shown, Brief(p)' PROVE Fits(p)'
  <2>1. Brief(p)
    BY <1>6 DEF Brief, InOrder
  <2>2. QED
    BY <1>1, <1>2, <1>3, <1>5, <1>6, <2>1 DEF Fits
<1>7. ASSUME shown' # None, Len(shown'.list) = tnet[p], shown'.asOf = pdata[p].turns PROVE Fits(p)'
  <2>1. tnet[p] <= tnet[p] /\ tnet[p] <= srv[p].turns
    BY <1>2, <1>3, Sizes DEF Fetched
  <2>2. QED
    BY <1>1, <1>3, <1>7, <2>1 DEF Fits
<1>8. \A q \in Pids \ {p} : ListedOf(q)'
  BY <1>1, <1>5, OtherListed
<1>9. QED
  BY <1>4, <1>5, <1>6, <1>7, <1>8 DEF Listed, ListedOf

LEMMA OpenPageListed ==
  ASSUME Typed, Listed, NEW p \in Pids, OpenPage(p)
  PROVE  Listed'
<1>1. /\ tnet'[p] = NoTurns /\ pnet'[p] = Asked /\ UNCHANGED <<srv, pdata, tdata>> /\ route' = {p}
      /\ \A q \in Pids \ {p} : tnet'[q] = tnet[q] /\ pnet'[q] = pnet[q]
  BY DEF OpenPage, Typed, CacheTyped
<1>2. Fetched(p) /\ (Brief(p) => Fits(p))
  BY DEF Listed, ListedOf
<1>3. Fetched(p)'
  BY <1>1, <1>2, Sizes, PlayAssumption DEF Fetched, NoTurns
<1>4. shown' = shown \/ (shown'.id = p /\ Len(shown'.list) = Count(tdata[p]))
  <2>1. shown' = shown \/ (pdata[p] \in Snap /\ shown' = Build(p, pdata[p], tdata[p]))
    BY OpenPageShows
  <2>2. ASSUME pdata[p] \in Snap, shown' = Build(p, pdata[p], tdata[p])
        PROVE  shown'.id = p /\ Len(shown'.list) = Count(tdata[p])
    <3>1. \A snap \in Snap, n \in -1..MaxTurns : Len(Build(p, snap, n).list) = Count(n) /\ Build(p, snap, n).id = p
      BY BuildTyped
    <3>2. QED
      BY <2>2, <3>1, Sizes
  <2>3. QED
    BY <2>1, <2>2
<1>5. Count(tdata[p]) <= srv[p].turns
  BY <1>2, Sizes DEF Fetched, Count, NoTurns
<1>6. ASSUME Brief(p)' PROVE Len(shown'.list) <= srv[p].turns
  <2>1. CASE shown' = shown
    <3>1. Brief(p)
      BY <1>6, <2>1 DEF Brief, InOrder
    <3>2. QED
      BY <1>2, <2>1, <3>1 DEF Fits
  <2>2. QED
    BY <1>4, <1>5, <2>1
<1>7. ~(NoTurns >= 0) /\ NoTurns # Idle
  BY DEF NoTurns, Idle
<1>8. Asked # None
  BY NoneApart
<1>9. ASSUME Brief(p)' PROVE Fits(p)'
  BY <1>1, <1>6, <1>7, <1>8, <1>9 DEF Fits
<1>10. \A q \in Pids \ {p} : ListedOf(q)'
  BY <1>1, <1>4, OtherListed
<1>11. QED
  BY <1>3, <1>9, <1>10 DEF Listed, ListedOf

LEMMA ReadsListed ==
  ASSUME Typed, Listed, NEW p \in Pids, ServerReads(p)
  PROVE  Listed'
<1>1. Fetched(p) /\ (Brief(p) => Fits(p))
  BY DEF Listed, ListedOf
<1>2. CASE pnet' = [pnet EXCEPT ![p] = SnapOf(p)] /\ UNCHANGED <<srv, route, store, pdata, tdata, tnet>>
  <2>1. pnet'[p] = SnapOf(p) /\ SnapOf(p) # None /\ shown' = shown /\ \A q \in Pids \ {p} : pnet'[q] = pnet[q]
    BY <1>2, SnapTyped DEF Typed, CacheTyped, store
  <2>2. ListedOf(p)'
    BY <1>1, <1>2, <2>1 DEF ListedOf, Fetched, Brief, Fits, InOrder
  <2>3. \A q \in Pids \ {p} : ListedOf(q)'
    BY <1>2, <2>1, OtherListed
  <2>4. QED
    BY <2>2, <2>3 DEF Listed
<1>3. CASE tnet' = [tnet EXCEPT ![p] = PageOf(srv[p].turns)] /\ UNCHANGED <<srv, route, store, pdata, pnet, tdata>>
  <2> DEFINE n == PageOf(srv[p].turns)
  <2>1. /\ n \in Nat /\ n <= srv[p].turns /\ n <= PageSize /\ n \in {srv[p].turns, PageSize}
        /\ srv[p].turns \in Nat /\ PageSize \in Nat /\ n # Idle
    BY SnapTyped, Sizes, PlayAssumption DEF Idle
  <2> HIDE DEF n
  <2>2. tnet'[p] = n /\ shown' = shown /\ \A q \in Pids \ {p} : tnet'[q] = tnet[q]
    BY <1>3 DEF Typed, CacheTyped, store, n
  <2>3. Fetched(p)'
    BY <1>1, <1>3, <2>1, <2>2, Sizes DEF Fetched
  <2>4. ASSUME Brief(p)' PROVE Fits(p)'
    <3>1. Brief(p)
      BY <2>2, <2>4 DEF Brief, InOrder
    <3>2. Len(shown.list) <= n /\ Len(shown.list) <= srv[p].turns
      BY <1>1, <2>1, <3>1, Sizes DEF Brief, Fits
    <3>3. QED
      BY <1>3, <2>1, <2>2, <3>2 DEF Fits
  <2>5. \A q \in Pids \ {p} : ListedOf(q)'
    BY <1>3, <2>2, OtherListed
  <2>6. QED
    BY <2>3, <2>4, <2>5 DEF Listed, ListedOf
<1>4. CASE UNCHANGED <<srv, route, store, queries>>
  BY <1>4, SameList DEF store
<1>5. QED
  BY <1>2, <1>3, <1>4 DEF ServerReads

LEMMA InitListed == Init => Listed
BY PlayAssumption DEF Init, Listed, ListedOf, Fetched, Brief, NoTurns, Idle

LEMMA StepListed == Typed /\ Queued /\ Listed /\ [Next]_vars => Listed'
<1> SUFFICES ASSUME Typed, Queued, Listed, [Next]_vars PROVE Listed'
  OBVIOUS
<1>1. CASE \E s \in streams : StreamStep(s)
  BY <1>1, StreamStepListed
<1>2. CASE UNCHANGED <<srv, route, shown, queries>>
  BY <1>2, SameList
<1>3. CASE \E s \in streams : \E how \in {"error", "close"} : Break(s, how)
  BY <1>2, <1>3 DEF Break, store
<1>4. CASE SubmitTurn \/ StopGeneration \/ \E tag \in {"played", "timeout"} : SubmitMinigameResult(tag)
  BY <1>2, <1>4 DEF SubmitTurn, StopGeneration, SubmitMinigameResult
<1>5. CASE ReconcileFails \/ \E status \in {"retryable", "terminal"} : AskAgain(status)
  BY <1>2, <1>5 DEF ReconcileFails, AskAgain
<1>6. CASE ReconcileGone \/ ReconcileResends
  BY <1>6, ReconcileListed
<1>7. CASE \E p \in Pids : OpenPage(p) \/ PlaythroughArrives(p) \/ TurnsArrive(p) \/ ServerReads(p)
  BY <1>7, OpenPageListed, PlaythroughListed, TurnsListed, ReadsListed
<1>8. CASE UNCHANGED vars
  BY <1>2, <1>8 DEF vars, store
<1>9. CASE LeavePage
  BY <1>9 DEF LeavePage, Listed, ListedOf, Fetched, Brief, Fits, InOrder, store, queries
<1>10. QED
  BY <1>1, <1>3, <1>4, <1>5, <1>6, <1>7, <1>8, <1>9 DEF Next, NetStep, UserStep
-----------------------------------------------------------------------------
(* The results. *)

LEMMA TypesHold == Spec => [](IInv /\ Kept /\ Typed)
<1>1. Init => Kept
  BY DEF Init, Kept
<1>2. QED
  BY InitHolds, InitTyped, StepKeeps, StepKept, StepTyped, <1>1, PTL DEF Spec

\* Whatever the player submits, stops, retries or leaves and whatever fails,
\* every variable keeps its type, at most one stream is waited for, the screen
\* never says "narrating" without one, and an outcome that is being saved has a
\* stream or a read that will say how it went.
THEOREM OwnedStreams == Spec => []StreamOwnership
<1>1. IInv /\ Kept /\ Typed => StreamOwnership
  BY TypedIsTypeOK DEF IInv, Numbered, Cancellable, NarratingOwned, OneLive, Kept, Carried, SavingMoves, Own,
     StreamOwnership
<1>2. QED
  BY TypesHold, <1>1, PTL

\* When every answer has arrived, a screen that lists no more turns than a page,
\* each of its own story and once, shows the state of the latest snapshot: the
\* answers of the two queries, of the reconciliation reads and the commits of
\* the stream may come in any order, the story may be longer than a page, and
\* the player may have visited others.
THEOREM SnapshotShown == Spec => []ScreenSound
<1>1. Init => Queued /\ Listed
  BY InitQueued, InitListed
<1>2. Typed /\ Queued /\ Listed /\ [Next]_vars => Queued' /\ Listed'
  BY StepQueued, StepListed
<1>3. Typed /\ Listed => SnapshotIsShown
  <2> SUFFICES ASSUME Typed, Listed, NEW p \in route, NothingInFlight, shown # None, pdata[p] # None, shown.id = p,
                      InOrder, Len(shown.list) <= PageSize
               PROVE  shown.asOf = pdata[p].turns
    BY DEF SnapshotIsShown
  <2>1. p \in Pids /\ pnet[p] = None /\ tnet[p] = Idle
    BY DEF Typed, ServerTyped, NothingInFlight
  <2>2. Brief(p)
    BY DEF Brief
  <2>3. QED
    BY <2>1, <2>2 DEF Listed, ListedOf, Fits
<1>4. QED
  BY TypesHold, OwnedStreams, <1>1, <1>2, <1>3, PTL DEF Spec, ScreenSound

\* What a commit attaches to the turn was received on the stream it commits.
THEOREM DraftIsOwn == Spec => OwnDraft
<1>1. Init => Queued /\ DraftOwned
  BY InitQueued, InitDraft
<1>2. QED
  BY TypesHold, StepQueued, StepDraft, CommitDraft, <1>1, PTL DEF Spec, OwnDraft
=============================================================================
