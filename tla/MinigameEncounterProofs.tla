----------------------- MODULE MinigameEncounterProofs -----------------------
(* Safety of MinigameEncounter for every number of encounters, hit points and *)
(* frames: EncounterSound, HitsApart and FirstOutcomeStays.  None of them is  *)
(* inductive; IInv adds what ties the parts together: an encounter that is    *)
(* not started is untouched, the beat follows the end of the simulation, a    *)
(* component that has not reported has not used its one report, and the time  *)
(* until which the player is safe grows with the damage.                      *)
EXTENDS MinigameEncounter, TLAPS

\* Attempts are numbered, and the overlay mounted one of them.
Numbered == enc <= next /\ mounted <= next

\* Until it is started an encounter is untouched.
Fresh == loop \in {"setup", "ready"} => hp = MaxHp /\ elapsed = 0 /\ ~paused

\* It is over for a reason, and only then do the beat and its outcome come.
Ended ==
    /\ loop = "over" => hp = 0 \/ elapsed >= Duration
    /\ kind = "dodge" /\ (beat = "armed" \/ recorded.tag \in {"win", "lose"}) => loop = "over"

\* A report that is still to come has not been made.
ReportLeft ==
    /\ kind = "dodge" /\ beat \in {"unset", "armed"} => calls = 0
    /\ kind = "replit_embed" /\ ~resolved => calls = 0

\* Every hit has moved the end of the invulnerability.
SafeGrows == (MaxHp - hp) * Invulnerable <= safeUntil

Panels == Numbered /\ Fresh /\ UiMatchesLoop
Outcomes == Fresh /\ Ended /\ OutcomeFits
Reports == ReportLeft /\ ReportedOnce
Damage == SafeGrows /\ HitsApart

IInv == TypeOK /\ Panels /\ Outcomes /\ Reports /\ Damage

-----------------------------------------------------------------------------
(* Every action keeps the invariant. *)

LEMMA SetupDoneKeeps ==
  ASSUME IInv, SetupDone
  PROVE  IInv'
<1>1. TypeOK'
  BY EncounterAssumption DEF IInv, TypeOK, SetupDone, Playing, overlay, dodge, replit
<1>2. Panels'
  BY DEF IInv, Panels, Numbered, Fresh, UiMatchesLoop, TypeOK, Kinds, SetupDone, Playing,
         overlay, dodge, replit
<1>3. Outcomes'
  BY EncounterAssumption DEF IInv, Outcomes, Fresh, Ended, OutcomeFits, TypeOK, Kinds,
                             SetupDone, Playing, overlay, dodge, replit
<1>4. Reports'
  BY DEF IInv, Reports, ReportLeft, ReportedOnce, TypeOK, Kinds, SetupDone, Playing, overlay,
         dodge, replit
<1>5. Damage'
  BY EncounterAssumption DEF IInv, Outcomes, Fresh, Damage, SafeGrows, HitsApart, TypeOK,
                             Kinds, SetupDone, Playing, overlay, dodge, replit
<1>6. QED
  BY <1>1, <1>2, <1>3, <1>4, <1>5 DEF IInv

LEMMA BeatEndsKeeps ==
  ASSUME IInv, BeatEnds
  PROVE  IInv'
<1>1. TypeOK'
  BY EncounterAssumption DEF IInv, TypeOK, Outcome, BeatEnds, Playing, Report, Submit,
                             LoopOutcome, overlay, dodge, replit
<1>2. Panels'
  BY DEF IInv, Panels, Numbered, Fresh, UiMatchesLoop, TypeOK, Kinds, BeatEnds, Playing,
         Report, Submit, LoopOutcome, overlay, dodge, replit
<1>3. Outcomes'
  BY EncounterAssumption DEF IInv, Outcomes, Fresh, Ended, OutcomeFits, TypeOK, Outcome, None,
                             Kinds, BeatEnds, Playing, Report, Submit, LoopOutcome, overlay,
                             dodge, replit
<1>4. Reports'
  BY DEF IInv, Reports, ReportLeft, ReportedOnce, TypeOK, Kinds, BeatEnds, Playing, Report,
         Submit, LoopOutcome, overlay, dodge, replit
<1>5. Damage'
  BY EncounterAssumption DEF IInv, Outcomes, Fresh, Damage, SafeGrows, HitsApart, TypeOK,
                             Kinds, BeatEnds, Playing, Report, Submit, LoopOutcome, overlay,
                             dodge, replit
<1>6. QED
  BY <1>1, <1>2, <1>3, <1>4, <1>5 DEF IInv

LEMMA ReceiveKeeps ==
  ASSUME IInv, Receive
  PROVE  IInv'
<1>1. TypeOK'
  <2>1. /\ next' \in 0..Encounters /\ enc' \in 0..Encounters /\ mounted' \in 0..Encounters
        /\ kind' \in Kinds /\ recorded' \in Outcome \cup {None} /\ calls' \in Nat
    BY EncounterAssumption DEF IInv, TypeOK, Outcome, Sent, Receive, Embedded, OnOutcome,
                               Report, Submit, overlay, dodge, replit
  <2>2. /\ ui' \in {"instructions", "playing", "paused", "resolved"}
        /\ loop' \in {"setup", "ready", "running", "over"}
        /\ hp' \in 0..MaxHp /\ elapsed' \in Nat /\ safeUntil' \in Nat
        /\ beat' \in {"unset", "armed", "fired", "cleared"}
    BY EncounterAssumption DEF IInv, TypeOK, Outcome, Sent, Receive, Embedded, OnOutcome,
                               Report, Submit, overlay, dodge, replit
  <2>3. /\ paused' \in BOOLEAN /\ skip' \in BOOLEAN
        /\ resolved' \in BOOLEAN /\ retried' \in BOOLEAN /\ armed' \in BOOLEAN /\ trusted' \in BOOLEAN
    BY Zenon DEF IInv, TypeOK, Receive, Embedded, OnOutcome, Report, Submit, overlay, dodge,
                 replit
  <2>4. /\ frame' \in Nat /\ status' \in {"waiting", "ready", "timed_out"}
        /\ outcome' \in Outcome \cup {None} /\ msgs' \in Seq(Sent)
    BY EncounterAssumption DEF IInv, TypeOK, Outcome, Sent, Receive, Embedded, OnOutcome,
                               Report, Submit, overlay, dodge, replit
  <2>5. QED
    BY <2>1, <2>2, <2>3, <2>4 DEF TypeOK
<1>2. Panels'
  BY DEF IInv, Panels, Numbered, Fresh, UiMatchesLoop, TypeOK, Kinds, Receive, Embedded,
         OnOutcome, Report, Submit, overlay, dodge, replit
<1>3. Outcomes'
  BY EncounterAssumption DEF IInv, Outcomes, Fresh, Ended, OutcomeFits, TypeOK, Outcome, None,
                             Kinds, Receive, Embedded, OnOutcome, Report, Submit, overlay,
                             dodge, replit
<1>4. Reports'
  BY DEF IInv, Reports, ReportLeft, ReportedOnce, TypeOK, Kinds, Receive, Embedded, OnOutcome,
         Report, Submit, overlay, dodge, replit
<1>5. Damage'
  BY EncounterAssumption DEF IInv, Outcomes, Fresh, Damage, SafeGrows, HitsApart, TypeOK,
                             Kinds, Receive, Embedded, OnOutcome, Report, Submit, overlay,
                             dodge, replit
<1>6. QED
  BY <1>1, <1>2, <1>3, <1>4, <1>5 DEF IInv

LEMMA HandshakeTimeoutKeeps ==
  ASSUME IInv, HandshakeTimeout
  PROVE  IInv'
<1>1. TypeOK'
  <2>1. /\ next' \in 0..Encounters /\ enc' \in 0..Encounters /\ mounted' \in 0..Encounters
        /\ kind' \in Kinds /\ recorded' \in Outcome \cup {None} /\ calls' \in Nat
    BY EncounterAssumption DEF IInv, TypeOK, Outcome, HandshakeTimeout, Embedded, Report,
                               Submit, overlay, dodge, replit
  <2>2. /\ ui' \in {"instructions", "playing", "paused", "resolved"}
        /\ loop' \in {"setup", "ready", "running", "over"}
        /\ hp' \in 0..MaxHp /\ elapsed' \in Nat /\ safeUntil' \in Nat
        /\ beat' \in {"unset", "armed", "fired", "cleared"}
    BY EncounterAssumption DEF IInv, TypeOK, Outcome, HandshakeTimeout, Embedded, Report,
                               Submit, overlay, dodge, replit
  <2>3. /\ paused' \in BOOLEAN /\ skip' \in BOOLEAN
        /\ resolved' \in BOOLEAN /\ retried' \in BOOLEAN /\ armed' \in BOOLEAN /\ trusted' \in BOOLEAN
    BY Zenon DEF IInv, TypeOK, HandshakeTimeout, Embedded, Report, Submit, overlay, dodge,
                 replit
  <2>4. /\ frame' \in Nat /\ status' \in {"waiting", "ready", "timed_out"}
        /\ outcome' \in Outcome \cup {None} /\ msgs' \in Seq(Sent)
    BY EncounterAssumption DEF IInv, TypeOK, Outcome, HandshakeTimeout, Embedded, Report,
                               Submit, overlay, dodge, replit
  <2>5. QED
    BY <2>1, <2>2, <2>3, <2>4 DEF TypeOK
<1>2. Panels'
  BY DEF IInv, Panels, Numbered, Fresh, UiMatchesLoop, TypeOK, Kinds, HandshakeTimeout,
         Embedded, Report, Submit, overlay, dodge, replit
<1>3. Outcomes'
  BY EncounterAssumption DEF IInv, Outcomes, Fresh, Ended, OutcomeFits, TypeOK, Outcome, None,
                             Kinds, HandshakeTimeout, Embedded, Report, Submit, overlay, dodge,
                             replit
<1>4. Reports'
  BY DEF IInv, Reports, ReportLeft, ReportedOnce, TypeOK, Kinds, HandshakeTimeout, Embedded,
         Report, Submit, overlay, dodge, replit
<1>5. Damage'
  BY EncounterAssumption DEF IInv, Outcomes, Fresh, Damage, SafeGrows, HitsApart, TypeOK,
                             Kinds, HandshakeTimeout, Embedded, Report, Submit, overlay, dodge,
                             replit
<1>6. QED
  BY <1>1, <1>2, <1>3, <1>4, <1>5 DEF IInv

LEMMA TickKeeps ==
  ASSUME IInv, NEW hit \in BOOLEAN, NEW raw \in Nat, Tick(hit, raw)
  PROVE  IInv'
<1>1. TypeOK'
  <2>1. /\ next' \in 0..Encounters /\ enc' \in 0..Encounters /\ mounted' \in 0..Encounters
        /\ kind' \in Kinds /\ recorded' \in Outcome \cup {None} /\ calls' \in Nat
    BY EncounterAssumption DEF IInv, TypeOK, Outcomes, OutcomeFits, Tick, Playing, Resolve,
                               overlay, dodge, replit
  <2>2. /\ ui' \in {"instructions", "playing", "paused", "resolved"}
        /\ loop' \in {"setup", "ready", "running", "over"}
        /\ hp' \in 0..MaxHp /\ elapsed' \in Nat /\ safeUntil' \in Nat
        /\ beat' \in {"unset", "armed", "fired", "cleared"}
    BY EncounterAssumption DEF IInv, TypeOK, Outcomes, OutcomeFits, Tick, Playing, Resolve,
                               overlay, dodge, replit
  <2>3. /\ paused' \in BOOLEAN /\ skip' \in BOOLEAN
        /\ resolved' \in BOOLEAN /\ retried' \in BOOLEAN /\ armed' \in BOOLEAN /\ trusted' \in BOOLEAN
    BY Zenon DEF IInv, TypeOK, Tick, Playing, Resolve, overlay, dodge, replit
  <2>4. /\ frame' \in Nat /\ status' \in {"waiting", "ready", "timed_out"}
        /\ outcome' \in Outcome \cup {None} /\ msgs' \in Seq(Sent)
    BY EncounterAssumption DEF IInv, TypeOK, Outcomes, OutcomeFits, Tick, Playing, Resolve,
                               overlay, dodge, replit
  <2>5. QED
    BY <2>1, <2>2, <2>3, <2>4 DEF TypeOK
<1>2. Panels'
  BY DEF IInv, Panels, Numbered, Fresh, UiMatchesLoop, TypeOK, Kinds, Tick, Playing, Resolve,
         overlay, dodge, replit
<1>3. Outcomes'
  BY EncounterAssumption DEF IInv, Outcomes, Fresh, Ended, OutcomeFits, TypeOK, Kinds, Tick,
                             Playing, Resolve, overlay, dodge, replit
<1>4. Reports'
  BY DEF IInv, Reports, ReportLeft, ReportedOnce, TypeOK, Kinds, Tick, Playing, Resolve,
         overlay, dodge, replit
<1>5. Damage'
  BY EncounterAssumption DEF IInv, Outcomes, Fresh, Damage, SafeGrows, HitsApart, TypeOK,
                             Kinds, Tick, Playing, Resolve, overlay, dodge, replit
<1>6. QED
  BY <1>1, <1>2, <1>3, <1>4, <1>5 DEF IInv

LEMMA BeginKeeps ==
  ASSUME IInv, Begin
  PROVE  IInv'
<1>1. TypeOK'
  BY EncounterAssumption DEF IInv, TypeOK, Begin, Playing, overlay, dodge, replit
<1>2. Panels'
  BY DEF IInv, Panels, Numbered, Fresh, UiMatchesLoop, TypeOK, Kinds, Begin, Playing, overlay,
         dodge, replit
<1>3. Outcomes'
  BY EncounterAssumption DEF IInv, Outcomes, Fresh, Ended, OutcomeFits, TypeOK, Kinds, Begin,
                             Playing, overlay, dodge, replit
<1>4. Reports'
  BY DEF IInv, Reports, ReportLeft, ReportedOnce, TypeOK, Kinds, Begin, Playing, overlay,
         dodge, replit
<1>5. Damage'
  BY EncounterAssumption DEF IInv, Outcomes, Fresh, Damage, SafeGrows, HitsApart, TypeOK,
                             Kinds, Begin, Playing, overlay, dodge, replit
<1>6. QED
  BY <1>1, <1>2, <1>3, <1>4, <1>5 DEF IInv

LEMMA ContinueGameKeeps ==
  ASSUME IInv, ContinueGame
  PROVE  IInv'
<1>1. TypeOK'
  <2>1. /\ next' \in 0..Encounters /\ enc' \in 0..Encounters /\ mounted' \in 0..Encounters
        /\ kind' \in Kinds /\ recorded' \in Outcome \cup {None} /\ calls' \in Nat
    BY EncounterAssumption DEF IInv, TypeOK, ContinueGame, Playing, overlay, dodge, replit
  <2>2. /\ ui' \in {"instructions", "playing", "paused", "resolved"}
        /\ loop' \in {"setup", "ready", "running", "over"}
        /\ hp' \in 0..MaxHp /\ elapsed' \in Nat /\ safeUntil' \in Nat
        /\ beat' \in {"unset", "armed", "fired", "cleared"}
    BY EncounterAssumption DEF IInv, TypeOK, ContinueGame, Playing, overlay, dodge, replit
  <2>3. /\ paused' \in BOOLEAN /\ skip' \in BOOLEAN
        /\ resolved' \in BOOLEAN /\ retried' \in BOOLEAN /\ armed' \in BOOLEAN /\ trusted' \in BOOLEAN
    BY Zenon DEF IInv, TypeOK, ContinueGame, Playing, overlay, dodge, replit
  <2>4. /\ frame' \in Nat /\ status' \in {"waiting", "ready", "timed_out"}
        /\ outcome' \in Outcome \cup {None} /\ msgs' \in Seq(Sent)
    BY EncounterAssumption DEF IInv, TypeOK, ContinueGame, Playing, overlay, dodge, replit
  <2>5. QED
    BY <2>1, <2>2, <2>3, <2>4 DEF TypeOK
<1>2. Panels'
  BY DEF IInv, Panels, Numbered, Fresh, UiMatchesLoop, TypeOK, Kinds, ContinueGame, Playing,
         overlay, dodge, replit
<1>3. Outcomes'
  BY EncounterAssumption DEF IInv, Outcomes, Fresh, Ended, OutcomeFits, TypeOK, Kinds,
                             ContinueGame, Playing, overlay, dodge, replit
<1>4. Reports'
  BY DEF IInv, Reports, ReportLeft, ReportedOnce, TypeOK, Kinds, ContinueGame, Playing,
         overlay, dodge, replit
<1>5. Damage'
  BY EncounterAssumption DEF IInv, Outcomes, Fresh, Damage, SafeGrows, HitsApart, TypeOK,
                             Kinds, ContinueGame, Playing, overlay, dodge, replit
<1>6. QED
  BY <1>1, <1>2, <1>3, <1>4, <1>5 DEF IInv

LEMMA RetryKeeps ==
  ASSUME IInv, Retry
  PROVE  IInv'
<1>1. TypeOK'
  BY EncounterAssumption DEF IInv, TypeOK, Retry, Embedded, overlay, dodge, replit
<1>2. Panels'
  BY DEF IInv, Panels, Numbered, Fresh, UiMatchesLoop, TypeOK, Kinds, Retry, Embedded, overlay,
         dodge, replit
<1>3. Outcomes'
  BY EncounterAssumption DEF IInv, Outcomes, Fresh, Ended, OutcomeFits, TypeOK, Kinds, Retry,
                             Embedded, overlay, dodge, replit
<1>4. Reports'
  BY DEF IInv, Reports, ReportLeft, ReportedOnce, TypeOK, Kinds, Retry, Embedded, overlay,
         dodge, replit
<1>5. Damage'
  BY EncounterAssumption DEF IInv, Outcomes, Fresh, Damage, SafeGrows, HitsApart, TypeOK,
                             Kinds, Retry, Embedded, overlay, dodge, replit
<1>6. QED
  BY <1>1, <1>2, <1>3, <1>4, <1>5 DEF IInv

LEMMA ForfeitKeeps ==
  ASSUME IInv, Forfeit
  PROVE  IInv'
<1>1. TypeOK'
  BY EncounterAssumption DEF IInv, TypeOK, Outcome, Forfeit, Submit, overlay, dodge, replit
<1>2. Panels'
  BY DEF IInv, Panels, Numbered, Fresh, UiMatchesLoop, TypeOK, Forfeit, Submit, overlay, dodge,
         replit
<1>3. Outcomes'
  BY EncounterAssumption DEF IInv, Outcomes, Fresh, Ended, OutcomeFits, TypeOK, Outcome, None,
                             Forfeit, Submit, overlay, dodge, replit
<1>4. Reports'
  BY DEF IInv, Reports, ReportLeft, ReportedOnce, TypeOK, Forfeit, Submit, overlay, dodge,
         replit
<1>5. Damage'
  BY EncounterAssumption DEF IInv, Outcomes, Fresh, Damage, SafeGrows, HitsApart, TypeOK,
                             Forfeit, Submit, overlay, dodge, replit
<1>6. QED
  BY <1>1, <1>2, <1>3, <1>4, <1>5 DEF IInv

LEMMA BlurKeeps ==
  ASSUME IInv, Blur
  PROVE  IInv'
<1>1. TypeOK'
  BY EncounterAssumption DEF IInv, TypeOK, Blur, Playing, overlay, dodge, replit
<1>2. Panels'
  BY DEF IInv, Panels, Numbered, Fresh, UiMatchesLoop, TypeOK, Kinds, Blur, Playing, overlay,
         dodge, replit
<1>3. Outcomes'
  BY EncounterAssumption DEF IInv, Outcomes, Fresh, Ended, OutcomeFits, TypeOK, Kinds, Blur,
                             Playing, overlay, dodge, replit
<1>4. Reports'
  BY DEF IInv, Reports, ReportLeft, ReportedOnce, TypeOK, Kinds, Blur, Playing, overlay, dodge,
         replit
<1>5. Damage'
  BY EncounterAssumption DEF IInv, Outcomes, Fresh, Damage, SafeGrows, HitsApart, TypeOK,
                             Kinds, Blur, Playing, overlay, dodge, replit
<1>6. QED
  BY <1>1, <1>2, <1>3, <1>4, <1>5 DEF IInv

LEMMA AudioInputsChangeKeeps ==
  ASSUME IInv, AudioInputsChange
  PROVE  IInv'
<1>1. TypeOK'
  BY EncounterAssumption DEF IInv, TypeOK, AudioInputsChange, Playing, overlay, dodge, replit
<1>2. Panels'
  BY DEF IInv, Panels, Numbered, Fresh, UiMatchesLoop, TypeOK, Kinds, AudioInputsChange,
         Playing, overlay, dodge, replit
<1>3. Outcomes'
  BY EncounterAssumption DEF IInv, Outcomes, Fresh, Ended, OutcomeFits, TypeOK, Kinds,
                             AudioInputsChange, Playing, overlay, dodge, replit
<1>4. Reports'
  BY DEF IInv, Reports, ReportLeft, ReportedOnce, TypeOK, Kinds, AudioInputsChange, Playing,
         overlay, dodge, replit
<1>5. Damage'
  BY EncounterAssumption DEF IInv, Outcomes, Fresh, Damage, SafeGrows, HitsApart, TypeOK,
                             Kinds, AudioInputsChange, Playing, overlay, dodge, replit
<1>6. QED
  BY <1>1, <1>2, <1>3, <1>4, <1>5 DEF IInv

LEMMA DismissedKeeps ==
  ASSUME IInv, Dismissed
  PROVE  IInv'
<1>1. TypeOK'
  BY EncounterAssumption DEF IInv, TypeOK, Dismissed, overlay, dodge, replit
<1>2. Panels'
  BY DEF IInv, Panels, Numbered, Fresh, UiMatchesLoop, TypeOK, Dismissed, overlay, dodge,
         replit
<1>3. Outcomes'
  BY EncounterAssumption DEF IInv, Outcomes, Fresh, Ended, OutcomeFits, TypeOK, Outcome, None,
                             Dismissed, overlay, dodge, replit
<1>4. Reports'
  BY DEF IInv, Reports, ReportLeft, ReportedOnce, TypeOK, Dismissed, overlay, dodge, replit
<1>5. Damage'
  BY EncounterAssumption DEF IInv, Outcomes, Fresh, Damage, SafeGrows, HitsApart, TypeOK,
                             Dismissed, overlay, dodge, replit
<1>6. QED
  BY <1>1, <1>2, <1>3, <1>4, <1>5 DEF IInv

LEMMA PostKeeps ==
  ASSUME IInv, NEW tag \in {"ready", "win", "lose", "junk"}, Post(tag)
  PROVE  IInv'
<1>1. TypeOK'
  BY EncounterAssumption DEF IInv, TypeOK, Sent, Post, Embedded, overlay, dodge, replit
<1>2. Panels'
  BY DEF IInv, Panels, Numbered, Fresh, UiMatchesLoop, TypeOK, Kinds, Post, Embedded, overlay,
         dodge, replit
<1>3. Outcomes'
  BY EncounterAssumption DEF IInv, Outcomes, Fresh, Ended, OutcomeFits, TypeOK, Kinds, Post,
                             Embedded, overlay, dodge, replit
<1>4. Reports'
  BY DEF IInv, Reports, ReportLeft, ReportedOnce, TypeOK, Kinds, Post, Embedded, overlay,
         dodge, replit
<1>5. Damage'
  BY EncounterAssumption DEF IInv, Outcomes, Fresh, Damage, SafeGrows, HitsApart, TypeOK,
                             Kinds, Post, Embedded, overlay, dodge, replit
<1>6. QED
  BY <1>1, <1>2, <1>3, <1>4, <1>5 DEF IInv

LEMMA TriggerKeeps ==
  ASSUME IInv, NEW k \in Kinds, Trigger(k)
  PROVE  IInv'
<1>1. TypeOK'
  <2>1. /\ next' \in 0..Encounters /\ enc' \in 0..Encounters /\ mounted' \in 0..Encounters
        /\ kind' \in Kinds /\ recorded' \in Outcome \cup {None} /\ calls' \in Nat
    BY EncounterAssumption DEF IInv, TypeOK, Trigger, MountDodge, MountReplit, Host, overlay, dodge,
                               replit
  <2>2. /\ ui' \in {"instructions", "playing", "paused", "resolved"}
        /\ loop' \in {"setup", "ready", "running", "over"}
        /\ hp' \in 0..MaxHp /\ elapsed' \in Nat /\ safeUntil' \in Nat
        /\ beat' \in {"unset", "armed", "fired", "cleared"}
    BY EncounterAssumption DEF IInv, TypeOK, Trigger, MountDodge, MountReplit, Host, overlay, dodge,
                               replit
  <2>3. /\ paused' \in BOOLEAN /\ skip' \in BOOLEAN
        /\ resolved' \in BOOLEAN /\ retried' \in BOOLEAN /\ armed' \in BOOLEAN /\ trusted' \in BOOLEAN
    BY Zenon DEF IInv, TypeOK, Trigger, MountDodge, MountReplit, Host, overlay, dodge, replit
  <2>4. /\ frame' \in Nat /\ status' \in {"waiting", "ready", "timed_out"}
        /\ outcome' \in Outcome \cup {None} /\ msgs' \in Seq(Sent)
    BY EncounterAssumption DEF IInv, TypeOK, Trigger, MountDodge, MountReplit, Host, overlay, dodge,
                               replit
  <2>5. QED
    BY <2>1, <2>2, <2>3, <2>4 DEF TypeOK
<1>2. Panels'
  BY DEF IInv, Panels, Numbered, Fresh, UiMatchesLoop, TypeOK, Kinds, Trigger, MountDodge,
         MountReplit, Host, overlay, dodge, replit
<1>3. Outcomes'
  BY EncounterAssumption DEF IInv, Outcomes, Fresh, Ended, OutcomeFits, TypeOK, Outcome, None,
                             Kinds, Trigger, MountDodge, MountReplit, Host, overlay, dodge, replit
<1>4. Reports'
  BY DEF IInv, Reports, ReportLeft, ReportedOnce, TypeOK, Kinds, Trigger, MountDodge,
         MountReplit, Host, overlay, dodge, replit
<1>5. Damage'
  BY EncounterAssumption DEF IInv, Outcomes, Fresh, Damage, SafeGrows, HitsApart, TypeOK,
                             Kinds, Trigger, MountDodge, MountReplit, Host, overlay, dodge, replit
<1>6. QED
  BY <1>1, <1>2, <1>3, <1>4, <1>5 DEF IInv

LEMMA ChainedTriggerKeeps ==
  ASSUME IInv, NEW k \in Kinds, NEW reruns \in BOOLEAN, ChainedTrigger(k, reruns)
  PROVE  IInv'
<1>1. TypeOK'
  <2>1. /\ next' \in 0..Encounters /\ enc' \in 0..Encounters /\ mounted' \in 0..Encounters
        /\ kind' \in Kinds /\ recorded' \in Outcome \cup {None} /\ calls' \in Nat
    BY EncounterAssumption DEF IInv, TypeOK, ChainedTrigger, MountDodge, MountReplit, Host, overlay,
                               dodge, replit
  <2>2. /\ ui' \in {"instructions", "playing", "paused", "resolved"}
        /\ loop' \in {"setup", "ready", "running", "over"}
        /\ hp' \in 0..MaxHp /\ elapsed' \in Nat /\ safeUntil' \in Nat
        /\ beat' \in {"unset", "armed", "fired", "cleared"}
    BY EncounterAssumption DEF IInv, TypeOK, ChainedTrigger, MountDodge, MountReplit, Host, overlay,
                               dodge, replit
  <2>3. /\ paused' \in BOOLEAN /\ skip' \in BOOLEAN
        /\ resolved' \in BOOLEAN /\ retried' \in BOOLEAN /\ armed' \in BOOLEAN /\ trusted' \in BOOLEAN
    BY Zenon DEF IInv, TypeOK, ChainedTrigger, MountDodge, MountReplit, Host, overlay, dodge, replit
  <2>4. /\ frame' \in Nat /\ status' \in {"waiting", "ready", "timed_out"}
        /\ outcome' \in Outcome \cup {None} /\ msgs' \in Seq(Sent)
    <3>1. CASE k # kind
      BY <3>1 DEF IInv, TypeOK, ChainedTrigger, MountReplit, Host
    <3>2. CASE k = kind /\ reruns
      BY <3>2 DEF IInv, TypeOK, ChainedTrigger
    <3>3. CASE k = kind /\ ~reruns
      BY <3>3 DEF IInv, TypeOK, ChainedTrigger
    <3>4. QED
      BY <3>1, <3>2, <3>3
  <2>5. QED
    BY <2>1, <2>2, <2>3, <2>4 DEF TypeOK
<1>2. Panels'
  BY DEF IInv, Panels, Numbered, Fresh, UiMatchesLoop, TypeOK, Kinds, ChainedTrigger,
         MountDodge, MountReplit, Host, overlay, dodge, replit
<1>3. Outcomes'
  BY EncounterAssumption DEF IInv, Outcomes, Fresh, Ended, OutcomeFits, TypeOK, Outcome, None,
                             Kinds, ChainedTrigger, MountDodge, MountReplit, Host, overlay, dodge,
                             replit
<1>4. Reports'
  BY DEF IInv, Reports, ReportLeft, ReportedOnce, TypeOK, Kinds, ChainedTrigger, MountDodge,
         MountReplit, Host, overlay, dodge, replit
<1>5. Damage'
  BY EncounterAssumption DEF IInv, Outcomes, Fresh, Damage, SafeGrows, HitsApart, TypeOK,
                             Kinds, ChainedTrigger, MountDodge, MountReplit, Host, overlay, dodge,
                             replit
<1>6. QED
  BY <1>1, <1>2, <1>3, <1>4, <1>5 DEF IInv
LEMMA InitHolds == Init => IInv
<1> SUFFICES ASSUME Init PROVE IInv
  OBVIOUS
<1>1. TypeOK
  <2>1. hp \in 0..MaxHp /\ next \in 0..Encounters /\ enc \in 0..Encounters /\ mounted \in 0..Encounters
    BY EncounterAssumption DEF Init
  <2>2. msgs \in Seq(Sent)
    BY DEF Init
  <2>3. QED
    BY <2>1, <2>2 DEF Init, TypeOK
<1>2. Panels /\ Outcomes /\ Reports
  BY EncounterAssumption DEF Init, Panels, Numbered, Fresh, UiMatchesLoop, Outcomes, Ended,
                             OutcomeFits,
                             Reports, ReportLeft, ReportedOnce, None, Kinds
<1>3. Damage
  <2>1. hp = MaxHp /\ safeUntil = 0 /\ MaxHp - hp = 0
    BY EncounterAssumption DEF Init
  <2>2. QED
    BY <2>1, EncounterAssumption DEF Damage, SafeGrows, HitsApart
<1>4. QED
  BY <1>1, <1>2, <1>3 DEF IInv

LEMMA StepKeeps == IInv /\ [Next]_vars => IInv'
<1> SUFFICES ASSUME IInv, [Next]_vars PROVE IInv'
  OBVIOUS
<1>1. CASE SetupDone \/ BeatEnds \/ Receive \/ HandshakeTimeout
  BY <1>1, SetupDoneKeeps, BeatEndsKeeps, ReceiveKeeps, HandshakeTimeoutKeeps
<1>2. CASE Hits
  <2> PICK hit \in BOOLEAN, raw \in {1, Clamp + 1} : Tick(hit, raw)
    BY <1>2 DEF Hits
  <2>1. raw \in Nat
    BY EncounterAssumption
  <2>2. QED
    BY <2>1, TickKeeps
<1>3. CASE Begin \/ ContinueGame \/ Retry \/ Forfeit \/ Blur \/ AudioInputsChange \/ Dismissed
  BY <1>3, BeginKeeps, ContinueGameKeeps, RetryKeeps, ForfeitKeeps, BlurKeeps, AudioInputsChangeKeeps, DismissedKeeps
<1>4. CASE \E tag \in {"ready", "win", "lose", "junk"} : Post(tag)
  BY <1>4, PostKeeps
<1>5. CASE \E k \in Kinds : Trigger(k) \/ (\E reruns \in BOOLEAN : ChainedTrigger(k, reruns))
  BY <1>5, TriggerKeeps, ChainedTriggerKeeps
<1>6. CASE UNCHANGED vars
  BY <1>6 DEF vars, overlay, dodge, replit, IInv, TypeOK, Panels, Numbered, Fresh,
              UiMatchesLoop, Outcomes, Ended,
              OutcomeFits, Reports, ReportLeft, ReportedOnce, Damage, SafeGrows, HitsApart
<1>7. QED
  BY <1>1, <1>2, <1>3, <1>4, <1>5, <1>6 DEF Next

\* The inductive invariant of the encounters.
THEOREM Invariant == Spec => []IInv
<1>1. Init => IInv
  BY InitHolds
<1>2. IInv /\ [Next]_vars => IInv'
  BY StepKeeps
<1>3. QED
  BY <1>1, <1>2, PTL DEF Spec

-----------------------------------------------------------------------------
(* The results. *)

\* For every encounter, the panels agree with the simulation, at most one
\* outcome is reported, and it is the one that happened.
THEOREM SoundEncounters == Spec => []EncounterSound
<1>1. IInv => EncounterSound
  BY DEF IInv, Panels, Outcomes, Reports, EncounterSound
<1>2. QED
  BY <1>1, Invariant, PTL

\* Whatever the frame rate, hits are an invulnerability apart.
THEOREM HitsStayApart == Spec => []HitsApart
<1>1. IInv => HitsApart
  BY DEF IInv, Damage
<1>2. QED
  BY <1>1, Invariant, PTL

\* An outcome that is recorded is only replaced by the next encounter.
THEOREM FirstOutcomeKept == Spec => FirstOutcomeStays
<1>1. IInv /\ [Next]_vars => [recorded # None => recorded' = recorded \/ enc' # enc]_vars
  <2> SUFFICES ASSUME IInv, Next, recorded # None PROVE recorded' = recorded \/ enc' # enc
    OBVIOUS
  <2>1. enc \in Nat /\ next \in Nat /\ enc <= next
    BY EncounterAssumption DEF IInv, TypeOK, Panels, Numbered
  <2>2. CASE SetupDone \/ BeatEnds \/ Receive \/ HandshakeTimeout \/ Forfeit
    BY <2>2 DEF SetupDone, BeatEnds, Receive, HandshakeTimeout, Forfeit, OnOutcome, Report,
                Submit, overlay
  <2>3. CASE Begin \/ ContinueGame \/ Retry \/ Blur \/ AudioInputsChange \/ Hits
    BY <2>3 DEF Begin, ContinueGame, Retry, Blur, AudioInputsChange, Hits, Tick, overlay
  <2>4. CASE \E tag \in {"ready", "win", "lose", "junk"} : Post(tag)
    BY <2>4 DEF Post, overlay
  <2>5. CASE Dismissed
    BY <2>5 DEF Dismissed
  <2>6. CASE \E k \in Kinds : Trigger(k) \/ (\E reruns \in BOOLEAN : ChainedTrigger(k, reruns))
    BY <2>1, <2>6 DEF Trigger, ChainedTrigger
  <2>7. QED
    BY <2>2, <2>3, <2>4, <2>5, <2>6 DEF Next
<1>2. QED
  BY <1>1, Invariant, PTL DEF Spec, FirstOutcomeStays
=============================================================================
