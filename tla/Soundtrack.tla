----------------------------- MODULE Soundtrack -----------------------------
(* The music of the play screen: the process-wide AmbientSoundtrackController *)
(* with its two crossfading channels, the play store and PlayPage that drive  *)
(* it, and the audio of a DodgeMinigame (dodgeAudio), which borrows the       *)
(* controller and gives it back.                                              *)
EXTENDS Naturals

CONSTANTS
    Stories,      \* playthroughs whose page is opened
    Moods,        \* moods besides tension
    Tracks,       \* pairs of a story and a mood for which a track is configured
    InitialMood,  \* Stories -> mood
    MaxVisits, MaxTurns, MaxToggles  \* bounds on page visits, turns and toggles

ASSUME SoundAssumption ==
    /\ Tracks \in SUBSET (Stories \X (Moods \cup {"tension"}))
    /\ InitialMood \in [Stories -> Moods] /\ "no mood" \notin Moods
    /\ MaxVisits \in Nat /\ MaxTurns \in Nat /\ MaxToggles \in Nat

VARIABLES
    page,     \* story of the mounted PlayPage, or NoStory
    shown,    \* story of the play store
    visits, turns, toggles,
    turn,     \* the running turn: none, without a mood so far, with one
    snd,      \* the controller: channels, active one, mood, track, cooldown
    gesture,  \* the browser has seen a user gesture and lets media play
    known,    \* the default tension track has been fetched
    dodge,    \* the mounted encounter: what it restores, its own music
    muted,    \* isMuted of the controller
    local, global, \* localMuted and globalMuted of dodgeAudio
    button,   \* the Mute button of the encounter says Unmute
    sfx       \* the gain of the encounters' effects: unset, on or off

audio == <<gesture, known, muted, local, global, button, sfx>>
where == <<page, shown, visits, turns, turn, toggles>>
soundVars == <<where, snd, dodge, audio>>

NoStory == "no story"
NoMood == "no mood"
NoTrack == <<NoStory, NoMood>>
DefaultTension == <<"default", "tension">>
AllMoods == Moods \cup {"tension"}
Track == Tracks \cup {DefaultTension, NoTrack}
Channel == [src: Track, playing: BOOLEAN, fading: BOOLEAN]
Sound == [ch: [0..1 -> Channel], active: 0..1, mood: AllMoods \cup {NoMood}, track: Track,
          cooled: BOOLEAN]
Off == [on |-> FALSE, mood |-> NoMood, track |-> NoTrack, own |-> FALSE, muted |-> FALSE]
Dodge == [on: BOOLEAN, mood: AllMoods \cup {NoMood}, track: Track, own: BOOLEAN, muted: BOOLEAN]

\* A fresh tab; the saved preference of an earlier visit may be muted.
SoundInit ==
    /\ page = NoStory /\ shown = NoStory /\ visits = 0 /\ turns = 0 /\ toggles = 0
    /\ turn = "none"
    /\ snd = [ch |-> [c \in 0..1 |-> [src |-> NoTrack, playing |-> FALSE, fading |-> FALSE]],
              active |-> 0, mood |-> NoMood, track |-> NoTrack, cooled |-> TRUE]
    /\ gesture \in BOOLEAN /\ known = FALSE /\ dodge = Off
    /\ muted \in BOOLEAN
    /\ local = FALSE /\ global = muted /\ button = FALSE /\ sfx = "unset"

-----------------------------------------------------------------------------
(* AmbientSoundtrackController, as functions on its fields. *)

\* getMoodTrackUrl
TrackOf(story, m) == IF <<story, m>> \in Tracks THEN <<story, m>> ELSE NoTrack

Allowed(s, m, force) == m # s.mood /\ (force \/ m = "combat" \/ s.cooled)

\* Mutant: the timer of a channel that is taken again is not cleared.
Crossfade_KeepsTimer(s, t) ==
    LET out == s.active IN
    [s EXCEPT !.active = 1 - out,
              !.ch = [c \in 0..1 |->
                        IF c = out THEN [s.ch[c] EXCEPT !.fading = TRUE]
                        ELSE [src |-> t, playing |-> gesture, fading |-> s.ch[c].fading]]]

\* executeCrossfade: the channel that was active fades out and is paused by a
\* timer; the other one, whose timer is cleared, plays if the browser lets it.
Crossfade(s, t) ==
    LET out == s.active IN
    [s EXCEPT !.active = 1 - out,
              !.ch = [c \in 0..1 |->
                        IF c = out THEN [s.ch[c] EXCEPT !.fading = TRUE]
                        ELSE [src |-> t, playing |-> gesture, fading |-> FALSE]]]

TransitionTo(s, m, t, force) ==
    IF t = NoTrack \/ ~Allowed(s, m, force) THEN s
    ELSE [Crossfade(s, t) EXCEPT !.mood = m, !.track = t, !.cooled = FALSE]

Stop(s) ==
    [s EXCEPT !.ch = [c \in 0..1 |-> [s.ch[c] EXCEPT !.playing = FALSE, !.fading = FALSE]],
              !.mood = NoMood, !.track = NoTrack]

\* The timer of fadeChannelOut.
FadeEnds(c) ==
    /\ snd.ch[c].fading
    /\ snd' = [snd EXCEPT !.ch[c].playing = FALSE, !.ch[c].fading = FALSE]
    /\ UNCHANGED <<where, dodge, audio>>

CooldownEnds ==
    /\ ~snd.cooled /\ snd' = [snd EXCEPT !.cooled = TRUE]
    /\ UNCHANGED <<where, dodge, audio>>

\* The unlock handler resumes the audio context; it does not play the elements.
Gesture ==
    /\ ~gesture /\ gesture' = TRUE
    /\ UNCHANGED <<where, snd, dodge, known, muted, local, global, button, sfx>>

-----------------------------------------------------------------------------
(* DodgeMinigame's audio effect: enterMinigameAudio and what it returns. *)

\* restoreAudio
Restore(s) ==
    IF dodge.mood # NoMood /\ dodge.track # NoTrack
    THEN TransitionTo(s, dodge.mood, dodge.track, TRUE) ELSE s

\* setDodgeMuted: the gain of the effects is set when it exists.
SfxGain(l, g) == IF sfx = "unset" THEN "unset" ELSE IF l \/ g THEN "off" ELSE "on"

\* The effect, on top of the controller s: the local mute is the configured one,
\* then the global preference is read and the controller crossfades.
Enter(s, own, cfg, tension) ==
    /\ local' = cfg /\ sfx' = SfxGain(cfg, global) /\ global' = muted
    /\ dodge' = [on |-> TRUE, mood |-> s.mood, track |-> s.track, own |-> own,
                 muted |-> own /\ (cfg \/ muted)]
    /\ snd' = TransitionTo(s, "tension", IF tension THEN DefaultTension ELSE NoTrack, TRUE)

\* The overlay mounts the encounter of a turn or of a snapshot.
MountDodge(s, own, cfg) ==
    /\ Enter(s, own, cfg, known) /\ button' = cfg
    /\ UNCHANGED <<gesture, known, muted>>

\* The overlay unmounts it.
UnmountDodge(s) ==
    /\ dodge' = Off /\ snd' = Restore(s)
    /\ UNCHANGED audio

\* The default track arrives, or the audio configuration is a new object: the
\* effect is cleaned up and runs again.
InputsChange(url) ==
    /\ url => ~known
    /\ known' = (known \/ url)
    /\ IF dodge.on
       THEN \E cfg \in BOOLEAN : Enter(Restore(snd), dodge.own, cfg, known \/ url)
       ELSE url /\ UNCHANGED <<snd, dodge, local, global, sfx>>
    /\ UNCHANGED <<where, gesture, muted, button>>

\* playHitSfx and the stingers: the first sound creates the gain.
PlaySfx ==
    /\ dodge.on /\ sfx = "unset" /\ turn = "none"
    /\ sfx' = IF local \/ global THEN "off" ELSE "on"
    /\ UNCHANGED <<where, snd, dodge, gesture, known, muted, local, global, button>>

\* The Mute button of the encounter.
ChangeMuted ==
    /\ dodge.on /\ gesture /\ toggles < MaxToggles /\ toggles' = toggles + 1
    /\ button' = ~button /\ local' = ~button /\ sfx' = SfxGain(~button, global)
    /\ dodge' = [dodge EXCEPT !.muted = dodge.own /\ (~button \/ global)]
    /\ UNCHANGED <<page, shown, visits, turns, turn, snd, gesture, known, muted, global>>

-----------------------------------------------------------------------------
(* The play store and PlayPage. *)

\* Mutant: a mounted encounter does not listen.
ToggleMute_Unheard ==
    /\ page # NoStory /\ gesture /\ toggles < MaxToggles /\ toggles' = toggles + 1
    /\ muted' = ~muted
    /\ UNCHANGED <<page, shown, visits, turns, turn, snd, gesture, known, local, button, global, sfx, dodge>>

\* toggleAudioMute, from the header of the play screen; a mounted encounter
\* listens to the change.
ToggleMute ==
    /\ page # NoStory /\ gesture /\ toggles < MaxToggles /\ toggles' = toggles + 1
    /\ muted' = ~muted
    /\ IF dodge.on
       THEN /\ global' = ~muted /\ sfx' = SfxGain(local, ~muted)
            /\ dodge' = [dodge EXCEPT !.muted = dodge.own /\ (local \/ ~muted)]
       ELSE UNCHANGED <<global, sfx, dodge>>
    /\ UNCHANGED <<page, shown, visits, turns, turn, snd, gesture, known, local, button>>

OpenPage(p) ==
    /\ page = NoStory /\ visits < MaxVisits
    /\ page' = p /\ visits' = visits + 1
    /\ UNCHANGED <<shown, turns, turn, toggles, snd, dodge, audio>>

\* setPlaythrough for the first snapshot of a story that the store does not
\* hold, with or without a pending minigame.
SetPlaythrough(pending, own, cfg) ==
    LET m == InitialMood[page]
        new == page # shown
        s == IF new THEN TransitionTo(snd, m, TrackOf(page, m), TRUE) ELSE snd
    IN /\ page # NoStory /\ (new \/ (pending /\ ~dodge.on)) /\ turn = "none" /\ shown' = page
       /\ IF pending THEN ~dodge.on /\ MountDodge(s, own, cfg)
          ELSE snd' = s /\ UNCHANGED <<dodge, audio>>
       /\ UNCHANGED <<page, visits, turns, turn, toggles>>

\* A narrative turn, or the one that carries the encounter's result.
StartTurn ==
    /\ page # NoStory /\ shown = page /\ turn = "none" /\ turns < MaxTurns
    /\ turn' = "started" /\ turns' = turns + 1 /\ gesture' = TRUE
    /\ UNCHANGED <<page, shown, visits, toggles, snd, dodge, known, muted, local, global, button, sfx>>

\* Its mood event; the stream outlives the page.
MoodEvent(m) ==
    /\ turn = "started"
    /\ turn' = "mood"
    /\ snd' = TransitionTo(snd, m, TrackOf(shown, m), FALSE)
    /\ UNCHANGED <<page, shown, visits, turns, toggles, dodge, audio>>

\* It degrades, or it is committed with or without a minigame.
TurnFails ==
    /\ turn # "none" /\ turn' = "none"
    /\ UNCHANGED <<page, shown, visits, turns, toggles, snd, dodge, audio>>

TurnCommits(trigger, own, cfg) ==
    /\ turn # "none" /\ turn' = "none"
    /\ IF page = NoStory \/ (dodge.on = trigger /\ ~trigger) THEN UNCHANGED <<snd, dodge, audio>>
       ELSE IF trigger /\ ~dodge.on THEN MountDodge(snd, own, cfg)
       ELSE IF trigger THEN Enter(Restore(snd), own, cfg, known) /\ UNCHANGED <<gesture, known, muted, button>>
       ELSE UnmountDodge(snd)
    /\ UNCHANGED <<page, shown, visits, turns, toggles>>

\* PlayPage unmounts: its clean-up stops the controller, and then the one of the
\* encounter below it restores what played before.
LeavePage ==
    /\ page # NoStory /\ page' = NoStory
    /\ IF dodge.on THEN UnmountDodge(Stop(snd)) ELSE snd' = Stop(snd) /\ UNCHANGED <<dodge, audio>>
    /\ UNCHANGED <<shown, visits, turns, turn, toggles>>

-----------------------------------------------------------------------------
SoundNext ==
    \/ \E c \in 0..1 : FadeEnds(c)
    \/ CooldownEnds \/ Gesture \/ PlaySfx \/ ChangeMuted \/ ToggleMute \/ StartTurn
    \/ TurnFails \/ LeavePage
    \/ \E p \in Stories : OpenPage(p)
    \/ \E m \in AllMoods : MoodEvent(m)
    \/ \E url \in BOOLEAN : InputsChange(url)
    \/ \E b, own, cfg \in BOOLEAN : SetPlaythrough(b, own, cfg) \/ TurnCommits(b, own, cfg)

SoundSpec == SoundInit /\ [][SoundNext]_soundVars

-----------------------------------------------------------------------------
(* Every variable keeps its type. *)
SoundTypeOK ==
    /\ page \in Stories \cup {NoStory} /\ shown \in Stories \cup {NoStory}
    /\ visits \in 0..MaxVisits /\ turns \in 0..MaxTurns /\ toggles \in 0..MaxToggles
    /\ turn \in {"none", "started", "mood"}
    /\ snd \in Sound /\ dodge \in Dodge
    /\ gesture \in BOOLEAN /\ known \in BOOLEAN /\ muted \in BOOLEAN
    /\ local \in BOOLEAN /\ global \in BOOLEAN /\ button \in BOOLEAN
    /\ sfx \in {"unset", "on", "off"}

\* What is heard is the track of the current mood and, for the time of a
\* crossfade, the one before it: the timer that pauses a channel never hits a
\* channel that has become active again, and after a stop nothing plays.
OneTrackHeard ==
    LET s == snd IN
    /\ SoundTypeOK
    /\ s.mood # NoMood => s.ch[s.active].src = s.track /\ ~s.ch[s.active].fading
    /\ s.mood = NoMood => \A c \in 0..1 : ~s.ch[c].playing
    /\ s.ch[1 - s.active].playing => s.ch[1 - s.active].fading

\* Outside the play page nothing plays once the crossfades are over.
SilentOutside == page = NoStory => snd.mood = NoMood

\* The music an encounter brings follows the header's mute, whenever it is
\* pressed and however often the audio effect runs anew: the copy of the mute
\* the encounter goes by is the controller's.  The effects are another matter
\* (EffectsHonourMute).
EncounterHonoursMute ==
    dodge.on => global = muted /\ (dodge.own /\ muted => dodge.muted)

\* "Honor the player-wide audio preference": the effects of an encounter are
\* silent while the player has muted the sound.  The code does not keep this:
\* the gain is set before the preference is read.
EffectsHonourMute == dodge.on /\ muted => sfx # "on"

\* "Autoplay policy blocked; unlocked on next user gesture": after the gesture
\* the track of the mood plays.
GestureUnlocks == gesture /\ snd.mood # NoMood => snd.ch[snd.active].playing
=============================================================================
