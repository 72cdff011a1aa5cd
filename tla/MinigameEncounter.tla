-------------------------- MODULE MinigameEncounter --------------------------
(* What happens in the browser between the trigger of a minigame and the      *)
(* recording of its outcome: MinigameOverlay over either DodgeMinigame (the   *)
(* useGameLoop simulation, counted in frames) or ReplitEmbedMinigame (the     *)
(* postMessage handshake with a sandboxed frame).  PlayClient is what happens *)
(* to the outcome afterwards.                                                 *)
EXTENDS Naturals, Sequences

CONSTANTS
    Encounters,    \* bound on the attempts the player meets
    Duration,      \* frames of a dodge encounter
    MaxHp,         \* its hit points
    Invulnerable,  \* frames without damage after a hit
    Clamp,         \* frames of time one ticker call may count (50 ms)
    MaxMsgs        \* bound on the messages in flight from frames

ASSUME EncounterAssumption ==
    /\ Encounters \in Nat /\ Duration \in Nat \ {0} /\ MaxHp \in Nat \ {0}
    /\ Invulnerable \in Nat /\ Clamp \in Nat \ {0} /\ MaxMsgs \in Nat

VARIABLES
    next,     \* attempts triggered so far
    enc,      \* attempt of active_minigame, 0 for none
    mounted,  \* attempt for which the overlay mounted its component
    kind,     \* its minigame_type
    recorded, \* the outcome the play store holds for it
    calls,    \* how often the component has reported an outcome of enc
    ui, loop, hp, elapsed, safeUntil, paused, skip, beat, \* DodgeMinigame
    frame, status, outcome, resolved, retried, armed, msgs, \* ReplitEmbedMinigame
    trusted   \* its address is of a trusted host

overlay == <<next, enc, mounted, kind, recorded, calls>>
dodge == <<ui, loop, hp, elapsed, safeUntil, paused, skip, beat>>
replit == <<frame, status, outcome, resolved, retried, armed, msgs, trusted>>
vars == <<overlay, dodge, replit>>

Kinds == {"dodge", "replit_embed"}
None == [tag |-> "none", score |-> 0]
Outcome == [tag: {"win", "lose", "timeout"}, score: 0..MaxHp]
Sent == [from: Nat, tag: {"ready", "win", "lose", "junk"}]

\* The address of an embedded minigame is of any host.
Host == trusted' \in BOOLEAN /\ (kind' = "dodge" => trusted')

\* A component that has just been mounted.
MountDodge ==
    /\ ui' = "instructions" /\ loop' = "setup" /\ hp' = MaxHp /\ elapsed' = 0
    /\ safeUntil' = 0 /\ paused' = FALSE /\ skip' = FALSE /\ beat' = "unset"
MountReplit ==
    /\ frame' = 0 /\ status' = "waiting" /\ outcome' = None
    /\ resolved' = FALSE /\ retried' = FALSE /\ armed' = TRUE /\ msgs' = <<>>
    /\ Host

Init ==
    /\ next = 0 /\ enc = 0 /\ mounted = 0 /\ kind \in Kinds /\ recorded = None /\ calls = 0
    /\ ui = "instructions" /\ loop = "setup" /\ hp = MaxHp /\ elapsed = 0
    /\ safeUntil = 0 /\ paused = FALSE /\ skip = FALSE /\ beat = "unset"
    /\ frame = 0 /\ status = "waiting" /\ outcome = None
    /\ resolved = FALSE /\ retried = FALSE /\ armed = TRUE /\ msgs = <<>> /\ trusted = TRUE

-----------------------------------------------------------------------------
(* The overlay and the store. *)

\* Mutant: a second outcome of the encounter replaces the first.
Submit_Last(o) == recorded' = IF enc # 0 THEN o ELSE recorded

\* submitMinigameResult: an outcome is recorded once per encounter.
Submit(o) ==
    recorded' = IF enc # 0 /\ recorded = None THEN o ELSE recorded

Report(o) == Submit(o) /\ calls' = calls + 1

\* The forfeit button, which stays above the panel of the pending result, and
\* its confirmation.
Forfeit ==
    /\ enc # 0
    /\ Submit([tag |-> "timeout", score |-> 0])
    /\ UNCHANGED <<next, enc, mounted, kind, calls, dodge, replit>>

\* A turn triggers a minigame: the overlay mounts its component.
Trigger(k) ==
    /\ enc = 0 /\ next < Encounters
    /\ next' = next + 1 /\ enc' = next + 1 /\ mounted' = next + 1
    /\ kind' = k /\ recorded' = None /\ calls' = 0
    /\ MountDodge /\ MountReplit

\* The service has consumed the result and no minigame is pending.
Dismissed ==
    /\ enc # 0 /\ recorded # None
    /\ enc' = 0 /\ recorded' = None
    /\ UNCHANGED <<next, mounted, kind, calls, dodge, replit>>

\* The turn of the result triggers the next minigame at once, so that
\* active_minigame is never null in between: React keeps the component when the
\* type is the same, and its effects run again when the difficulty or the
\* address of the frame is another.  The turn takes longer than the beat.
ChainedTrigger(k, reruns) ==
    /\ enc # 0 /\ recorded # None /\ next < Encounters /\ beat # "armed"
    /\ next' = next + 1 /\ enc' = next + 1
    /\ kind' = k /\ recorded' = None /\ calls' = 0
    /\ IF k # kind
       THEN mounted' = next + 1 /\ MountDodge /\ MountReplit
       ELSE /\ UNCHANGED <<mounted, ui, beat, resolved, retried, msgs>>
            /\ IF reruns
               THEN /\ Host /\ frame' = IF trusted' /\ ~trusted THEN frame + 1 ELSE frame
                    /\ loop' = "setup" /\ hp' = MaxHp /\ elapsed' = 0 /\ safeUntil' = 0
                    /\ paused' = FALSE /\ skip' = FALSE
                    /\ status' = "waiting" /\ outcome' = None /\ armed' = TRUE
               ELSE UNCHANGED <<loop, hp, elapsed, safeUntil, paused, skip, frame, status, outcome, armed, trusted>>

-----------------------------------------------------------------------------
(* DodgeMinigame. *)

Playing == enc # 0 /\ kind = "dodge"

\* The awaited app.init is over: the refs hold the real start, pause and resume.
SetupDone ==
    /\ Playing /\ loop = "setup"
    /\ loop' = "ready"
    /\ UNCHANGED <<overlay, ui, hp, elapsed, safeUntil, paused, skip, beat, replit>>

\* begin: before the set-up is done, start does nothing.
Begin ==
    /\ Playing /\ recorded = None /\ ui = "instructions"
    /\ ui' = "playing"
    /\ loop' = IF loop = "ready" THEN "running" ELSE loop
    /\ UNCHANGED <<overlay, hp, elapsed, safeUntil, paused, skip, beat, replit>>

\* Mutant: the loop pauses and the component does not show it.
Blur_Silent ==
    /\ Playing /\ loop = "running"
    /\ paused' = TRUE
    /\ UNCHANGED <<overlay, ui, loop, hp, elapsed, safeUntil, skip, beat, replit>>

\* The window loses the focus.
Blur ==
    /\ Playing /\ loop = "running"
    /\ paused' = TRUE
    /\ ui' = IF ui = "playing" THEN "paused" ELSE ui
    /\ UNCHANGED <<overlay, loop, hp, elapsed, safeUntil, skip, beat, replit>>

ContinueGame ==
    /\ Playing /\ recorded = None /\ ui = "paused"
    /\ ui' = "playing"
    /\ IF loop = "running" THEN paused' = FALSE /\ skip' = TRUE ELSE UNCHANGED <<paused, skip>>
    /\ UNCHANGED <<overlay, loop, hp, elapsed, safeUntil, beat, replit>>

\* resolve and handleInternalComplete: the loop is over and the beat starts.
Resolve(over) ==
    IF over
    THEN /\ loop' = "over" /\ ui' = "resolved"
         /\ beat' = IF beat = "unset" THEN "armed" ELSE beat
    ELSE UNCHANGED <<loop, ui, beat>>

\* Mutant: every hazard that touches the player hurts.
Tick_NoInvulnerability(hit, raw) ==
    /\ Playing /\ loop = "running" /\ ~paused
    /\ IF skip
       THEN skip' = FALSE /\ ~hit /\ UNCHANGED <<elapsed, hp, safeUntil, loop, ui, beat>>
       ELSE LET now == elapsed + (IF raw > Clamp THEN Clamp ELSE raw)
                left == IF hit THEN hp - 1 ELSE hp
            IN /\ elapsed' = now /\ hp' = left
               /\ UNCHANGED <<safeUntil, skip>>
               /\ Resolve(left <= 0 \/ now >= Duration)
    /\ UNCHANGED <<overlay, paused, replit>>

\* One call of the ticker after raw frames of time, or more; hit says whether a
\* hazard touches the player.
Tick(hit, raw) ==
    /\ Playing /\ loop = "running" /\ ~paused
    /\ IF skip
       THEN skip' = FALSE /\ ~hit /\ UNCHANGED <<elapsed, hp, safeUntil, loop, ui, beat>>
       ELSE LET now == elapsed + (IF raw > Clamp THEN Clamp ELSE raw)
                hurt == hit /\ now >= safeUntil
                left == IF hurt THEN hp - 1 ELSE hp
            IN /\ elapsed' = now /\ hp' = left
               /\ safeUntil' = IF hurt THEN now + Invulnerable ELSE safeUntil
               /\ Resolve(left <= 0 \/ now >= Duration)
               /\ UNCHANGED skip
    /\ UNCHANGED <<overlay, paused, replit>>

\* What resolve hands on: a loss takes precedence over a win of the same frame.
LoopOutcome ==
    IF hp <= 0 THEN [tag |-> "lose", score |-> 0] ELSE [tag |-> "win", score |-> hp]

\* The 500 ms after the end are over.
BeatEnds ==
    /\ Playing /\ beat = "armed"
    /\ beat' = "fired"
    /\ Report(LoopOutcome)
    /\ UNCHANGED <<next, enc, mounted, kind, ui, loop, hp, elapsed, safeUntil, paused, skip, replit>>

\* The effect that depends on the audio configuration and the default track is
\* cleaned up when one of them changes, and its clean-up clears the beat's timer.
AudioInputsChange ==
    /\ Playing /\ beat = "armed"
    /\ beat' = "cleared"
    /\ UNCHANGED <<overlay, ui, loop, hp, elapsed, safeUntil, paused, skip, replit>>

-----------------------------------------------------------------------------
(* ReplitEmbedMinigame, useReplitHandshake and the frame's MinigameSDK. *)

Embedded == enc # 0 /\ kind = "replit_embed"

\* The current frame posts: ready, a result, or something else.  There is none
\* for a host that is not trusted.
Post(tag) ==
    /\ Embedded /\ trusted /\ Len(msgs) < MaxMsgs
    /\ msgs' = Append(msgs, [from |-> frame, tag |-> tag])
    /\ UNCHANGED <<overlay, dodge, frame, status, outcome, resolved, retried, armed, trusted>>

\* The effect on outcome: the first one is reported.
OnOutcome(o) ==
    IF o # None /\ ~resolved
    THEN resolved' = TRUE /\ Report(o)
    ELSE UNCHANGED <<resolved, recorded, calls>>

\* handleMessage: only the mounted frame is heard.
Receive ==
    LET m == Head(msgs)
        heard == trusted /\ m.from = frame IN
    /\ Embedded /\ msgs # <<>>
    /\ msgs' = Tail(msgs)
    /\ IF heard /\ m.tag = "ready"
       THEN status' = "ready" /\ UNCHANGED <<outcome, resolved, recorded, calls>>
       ELSE IF heard /\ m.tag \in {"win", "lose"}
       THEN /\ outcome' = [tag |-> m.tag, score |-> 0]
            /\ OnOutcome([tag |-> m.tag, score |-> 0])
            /\ UNCHANGED status
       ELSE UNCHANGED <<status, outcome, resolved, recorded, calls>>
    /\ UNCHANGED <<next, enc, mounted, kind, dodge, frame, retried, armed, trusted>>

\* Mutant: the second timeout is not reported.
HandshakeTimeout_Once ==
    /\ Embedded /\ armed
    /\ armed' = FALSE
    /\ status' = IF status = "ready" THEN status ELSE "timed_out"
    /\ UNCHANGED <<resolved, recorded, calls, next, enc, mounted, kind, dodge, frame, outcome, retried, msgs, trusted>>

\* The handshake timer; the second one, after the retry, ends the encounter.
HandshakeTimeout ==
    /\ Embedded /\ armed
    /\ armed' = FALSE
    /\ IF status = "ready" THEN UNCHANGED <<status, resolved, recorded, calls>>
       ELSE /\ status' = "timed_out"
            /\ IF retried /\ ~resolved
               THEN resolved' = TRUE /\ Report([tag |-> "timeout", score |-> 0])
               ELSE UNCHANGED <<resolved, recorded, calls>>
    /\ UNCHANGED <<next, enc, mounted, kind, dodge, frame, outcome, retried, msgs, trusted>>

\* handleRetry: a new frame, a new listener and a new timer.  For a host that is
\* not trusted a notice stands in the place of the frame and of the button.
Retry ==
    /\ Embedded /\ trusted /\ recorded = None /\ status = "timed_out" /\ ~retried
    /\ retried' = TRUE /\ frame' = frame + 1
    /\ status' = "waiting" /\ outcome' = None /\ armed' = TRUE
    /\ UNCHANGED <<overlay, dodge, resolved, msgs, trusted>>

-----------------------------------------------------------------------------
Hits == \E hit \in BOOLEAN, raw \in {1, Clamp + 1} : Tick(hit, raw)

Next ==
    \/ SetupDone \/ BeatEnds \/ Receive \/ HandshakeTimeout \/ Hits
    \/ Begin \/ ContinueGame \/ Retry \/ Forfeit \/ Blur \/ AudioInputsChange \/ Dismissed
    \/ \E tag \in {"ready", "win", "lose", "junk"} : Post(tag)
    \/ \E k \in Kinds : Trigger(k) \/ (\E reruns \in BOOLEAN : ChainedTrigger(k, reruns))

\* The browser fires its timers and runs the ticker.
Fairness == WF_vars(Hits) /\ WF_vars(BeatEnds) /\ WF_vars(HandshakeTimeout)

Spec == Init /\ [][Next]_vars /\ Fairness

-----------------------------------------------------------------------------
(* Every variable keeps its type. *)
TypeOK ==
    /\ next \in 0..Encounters /\ enc \in 0..Encounters /\ mounted \in 0..Encounters
    /\ kind \in Kinds /\ recorded \in Outcome \cup {None} /\ calls \in Nat
    /\ ui \in {"instructions", "playing", "paused", "resolved"}
    /\ loop \in {"setup", "ready", "running", "over"}
    /\ hp \in 0..MaxHp /\ elapsed \in Nat /\ safeUntil \in Nat
    /\ paused \in BOOLEAN /\ skip \in BOOLEAN /\ beat \in {"unset", "armed", "fired", "cleared"}
    /\ frame \in Nat /\ status \in {"waiting", "ready", "timed_out"}
    /\ outcome \in Outcome \cup {None}
    /\ resolved \in BOOLEAN /\ retried \in BOOLEAN /\ armed \in BOOLEAN /\ trusted \in BOOLEAN
    /\ msgs \in Seq(Sent)

\* What is recorded is what happened: a win took the whole duration and carries
\* the health that is left, a loss has none left, also when both happen in one
\* frame, and the frame's play ends with no timeout of the component unless the
\* player has retried.
OutcomeFits ==
    /\ enc # 0 /\ kind = "dodge" /\ recorded.tag = "win"
          => elapsed >= Duration /\ hp >= 1 /\ recorded.score = hp
    /\ enc # 0 /\ kind = "dodge" /\ recorded.tag = "lose" => hp = 0
    /\ loop = "running" => hp >= 1 /\ elapsed < Duration

\* Two hits are an invulnerability apart, so that a loss takes its time.
HitsApart == hp < MaxHp => (MaxHp - hp - 1) * Invulnerable <= elapsed

\* The panels of the component, kept in React state, agree with the simulation,
\* kept in refs and closures: the paused panel with its only Resume button is
\* there exactly when the simulation stands still, and the result panel when it
\* is over.  Playing may be shown before the arena is set up: that Start is lost.
UiMatchesLoop ==
    enc # 0 /\ kind = "dodge" /\ mounted = enc =>
        /\ (ui = "paused") <=> (loop = "running" /\ paused)
        /\ (ui = "resolved") <=> (loop = "over")
        /\ (loop = "running") => ui \in {"playing", "paused"}

\* One encounter is reported once, whichever of the frame's messages, the
\* second handshake timeout and the end of the resolution beat come together.
ReportedOnce == calls <= 1

\* What an encounter shows, what its simulation is and what it reports agree.
EncounterSound == TypeOK /\ OutcomeFits /\ UiMatchesLoop /\ ReportedOnce

\* The first outcome of an encounter is the one that is submitted.
FirstOutcomeStays ==
    [][recorded # None => recorded' = recorded \/ enc' # enc]_vars

\* "So the turn is never stuck": a running simulation that is not paused ends
\* and is recorded, unless the audio inputs change in the half second after it,
\* and a frame of a trusted host that stays silent is recorded as a timeout or
\* offers the retry.  For any other host only a forfeit ends the encounter.
EncounterEnds ==
    /\ (enc # 0 /\ kind = "dodge" /\ mounted = enc /\ loop = "running")
          ~> (recorded # None \/ paused \/ beat = "cleared")
    /\ (enc # 0 /\ kind = "replit_embed" /\ mounted = enc /\ trusted)
          ~> (recorded # None \/ status = "ready" \/ (status = "timed_out" /\ ~retried))

\* The comment without its exceptions: a frame that is not ready after the
\* retry is resolved.
NeverStuck ==
    (enc # 0 /\ kind = "replit_embed" /\ retried /\ status = "timed_out") ~> (enc = 0 \/ recorded # None)
=============================================================================
