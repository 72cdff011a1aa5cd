# Verification of AI-DND

TLA+ models of AI-DND's services and of the front end's stateful parts, the TLC runs
that check them on small instances, and TLAPS proofs of what holds for every instance.
Paths are relative to the repository (`TRS` = `apps/turn-resolution-service/app`,
`core-api` = `apps/core-api/app`, `memory-layer` = `apps/memory-layer/src`,
`frontend` = `apps/frontend/src`). `PROJECT.json` maps each definition to the lines it
models and lists runs, mutants, findings, hazards and theorems.

Run a check from this directory with

    tlc -workers 2 -config MCTurnPipeline_all.cfg MCTurnPipeline
    tlapm PlaythroughProofs.tla

## 1. The system

AI-DND is a platform for playing and writing interactive stories. Three Python
services share one PostgreSQL database; a React client talks to the first two.

| Part | Owns | Process model |
| --- | --- | --- |
| core-api | users, scenarios and their resources, creation and metadata of playthroughs | FastAPI, one session per request, commits at the end of the request (`core-api/db/connection.py`); background tasks in the same process |
| turn-resolution-service (TRS) | the turn: narration, state writes, endings, notifications | FastAPI, one coroutine per `POST /v1/turn`, one transaction per write; two in-process pub/sub hubs |
| memory-layer | what a story remembers: facts in a graph database, embeddings, a search index | FastAPI in front of `MemoryEngine`, a thread pool that ingests batches, and a journal of jobs in PostgreSQL |
| frontend | the play screen, the studio, the session of a tab | one JavaScript thread; callbacks of streams, queries, timers and media, in any order |

They meet in these places, and the interesting behaviour is there:

* the `playthroughs` row and its `turn_logs`, written by TRS (a turn) and by
  core-api (join, character edit, abandon) with different disciplines: TRS compares
  `turn_count`, core-api mostly writes what it read earlier;
* the JSON `state` inside that row, which conditions, minigames, tool calls, the map and
  the endings of a master-mode scenario change one after the other within a turn;
* the `scenarios` row, written by PATCH, DELETE, publish and by the background publish
  job, and read by the creation of playthroughs;
* HTTP calls to the memory layer (template ingestion, clone, batches) that can time
  out for the caller and go on for the callee;
* the notification and spectator queues, filled by turns and drained by SSE streams;
* the turn's stream and the two cached queries, which all tell one screen what is true;
* the refresh cookie that all tabs share and that every use replaces.

### Components

For each: its state; its operations; what is hard; what makes it correct.

**TRS: turn pipeline** (`TRS/turn/pipeline.py`, `turn/steps/*`, `repositories/*`).
State: the playthrough row, `turn_logs`, `scenarios.play_count`, and the local variables
of each running coroutine. Operations: receive and validate, load, resolve a minigame
result, narrate, write with retries, end, flush to memory, announce. Hard: a
narration takes seconds, so every value read before it is old when used; a commit
may be applied and its reply lost; the client may leave at every await.
Correct when: the log is dense, a submission is a turn at most once, `done` means
saved, the narrative in the row and the log agree, play_count moves once, memory
gets turns under their own numbers, every submission settles, who takes a turn was the one
to play, a pending minigame leaves with a result only, and an ending closes the playthrough
to whatever was not under way; each up to the races that the code admits and the property
names (section 5). Modelled: `TurnPipeline`.

**TRS: narration and tool calls** (`turn/steps/condition_evaluator.py`, `ai_orchestrator.py`,
`state_validator.py`, `expression_evaluator.py`, ...). State: the JSON state of a master-mode
playthrough, and its working copy in a turn. Operations: the intake (result of the pending
minigame, conditions with Effect C), the narrator's function calls with their validation,
map sync, minigame trigger, write, endings. Hard: conditions whose fields did not change
are skipped; the validator changes fields nobody named, by filling in defaults; each later
step looks at a state of its own; the narrator may call anything, any number of times.
Correct when: the world's rules and ranges hold after every turn, skipping loses no true
condition, what is pending, ended or discovered fits the stored state, every turn ends.
Modelled: `ConditionGrammar`, `MasterTurn`.

**core-api: playthroughs in progress** (`core-api/services/playthrough_service.py`).
State: the same row, the participants. Operations: join under `FOR UPDATE`,
character edit, abandon, without a lock. Hard: stale rows written back, two
services on one row, a lock held across steps. Correct when: joins never collide
nor slip past an ending, and what is over stays over.
Modelled: `PlaythroughLifecycle`, composed with `TurnPipeline`. Reading endpoints
and most of the payload built at creation are not modelled.

**core-api: scenario publishing** (`services/publish_service.py`, `scenario_service.py`,
`integrations/memory_client.py`). State: the scenario row, the background jobs, the
template in the memory layer, the playthroughs made from it. Operations: start of a
publish, the job, PATCH, DELETE, play and playtest, restart. Hard: the job decides from
what it read minutes before; PATCH and DELETE act on unlocked reads; the template is
rewritten in two phases and may be cloned between them. Correct when: what is live
passed its checks, listing is stable, playthroughs keep their scenario, an accepted
publish settles. Modelled: `ScenarioLifecycle`.
Bookmarks, reviews and duplication are not.

**TRS: session hubs** (`TRS/session/*`, `routers/session.py`). State: one queue per
participant, a list of queues of spectators. Operations: subscribe, relay, leave,
clean up, notify, publish. Hard: a reconnection overlaps the cleanup of what it
replaces; the list changes while others publish. Correct when: no spectator misses what is
sent, nor does a participant whom no other connection of theirs has displaced, and no queue
outlives its connection. Modelled: `SessionHubs`. Access checks are reads and left out.

**memory-layer: batch ingestion** (`memory-layer/context_memory/ingestion/*`, `engine.py`,
`persistence/postgres.py`). State: the journal of jobs (a state machine per chunk), facts,
embeddings, index, batches, executor queue. Operations: submit, retry, status, and every
stage of `run_batch` with its failures and its compensation. Hard: four stores without a
common transaction, overlapping runs over the same chunks, compensation that
can itself fail half-way, restarts. Correct when: what the journal calls completed is
searchable, what failed is not, no fact is lost, reports are truthful.
Modelled: `MemoryIngestion`. What the model extracts, entity resolution and
`manual_repair` (only set by hand) are not.

**memory-layer: template and clone**. Modelled only as core-api sees it, inside
`ScenarioLifecycle`: retired, then written; a clone takes what is current.

**frontend: play session** (`features/play/stores/play.store.ts`, `pages/PlayPage.tsx`,
`shared/lib/sse-client.ts`). State: the play store, one stream per submission, two cached
queries, a reconciliation read. Operations: submit, stop, retry, reconcile, the timeout
fallback, every callback of a stream, opening and leaving the page. Hard: callbacks of a
replaced stream still run; the connection breaks at any point; three sources write one
screen. Correct when: the screen narrates only while a stream will end it, nothing buffered
leaks into another turn, and the latest answer is shown, which the code keeps for a story of
up to one page of turns. Modelled: `PlayClient`. Character editing, sharing, spectating and panels that
only display are not.

**frontend: minigame encounters** (`MinigameOverlay`, `shared/components/minigames`,
`replit-template/minigame-sdk.js`). State: the overlay, the dodge simulation (refs) and its
panel (React state), the embedded frame, whether its host is trusted, and its handshake.
Hard: two representations of one simulation; late messages, second timeouts, a forfeit on top of a result. Correct
when: panel and simulation agree, one outcome is reported, it is what happened, the first
one stays, and an encounter ends (for an untrusted host by a forfeit only). Modelled:
`MinigameEncounter`.

**frontend: soundtrack** (`shared/lib/audio/ambient-soundtrack.ts`, `dodgeAudio.ts`). State: two
channels with timers, the mood, the mute, what an encounter borrowed. Hard: a timer that
fires when its channel is in use again; playback blocked until a gesture; giving back
what has changed meanwhile. Correct when: what is heard is the current track besides the one
that fades, and the mute covers the music an encounter brings. Modelled: `Soundtrack`.

**frontend: session** (`shared/lib/api-client.ts`, `features/auth`, `shared/hooks/useSSE.ts`). State:
the token of a tab, the shared cookie, the 401 queue, a boot flag, the page. Hard: every
refresh replaces the cookie, so two refreshes at once log the user out; requests wait for
a refresh that may fail; the service answers a refresh that the tab has given up on. Correct
when: a refresh is shared, nobody waits for none, the cookie is the token the service accepts
unless that one was lost or replaced on its way, requests settle, a session is used. Modelled:
`ClientSession`.

**frontend: master-mode studio** (`features/studio/hooks`, `AIChatSidebar`, `OpeningSceneEditor`).
State: an editor's text next to the cached scenario, the assistant's cards and what became
of them, the chat and its storage keys. Hard: closures over an old render across awaits;
callbacks that are dropped when another call overtakes them; two conversations under one
component, and a mode that changes keys in one render and conversations in the next. Correct
when: what is typed is saved and what is saved is shown, a card marked as applied was done or
reported if its target is a supported one, a change of mode leaves each conversation under its
key.
Modelled: `StudioMaster` (one editor; the forms that use the same hook are represented by it).

**Not modelled**: the rate limiter and token verification (an in-memory window and a library
call), prompt assembly, images and the assistant's answers (no state of the service changes),
master-mode resources, sharing, users, uploads, reviews (single-row reads and writes), the
music job, retrieval (reads only), the newbie wizard (a form over one draft; section 5 lists
what was read in it), the remaining user interface (forms, lists, animation, layout), tooling
and vendored material: of 59,000 lines of JavaScript and TypeScript, 26,000 are two identical
copies of a design tool for coding agents.

## 2. The modules

| Module | Models | MC module, configs |
| --- | --- | --- |
| `PlaythroughLog` | abstract: an append-only story, acknowledged after it is in the log | through `TurnPipeline` |
| `TurnPipeline` | one playthrough under racing submissions | `MCTurnPipeline`: `_all` |
| `ConditionGrammar` | the expressions of conditions, rules, triggers and endings | through `MasterTurn` |
| `MasterTurn` | what a master-mode turn does to the game state | `MCMasterTurn`: `_all` |
| `PlaythroughLifecycle` | `TurnPipeline` and core-api's calls over the same row | `MCPlaythroughLifecycle`: `_all` |
| `ScenarioLifecycle` | one scenario, its jobs, its template, its playthroughs | `MCScenarioLifecycle`: `_all` |
| `SessionHubs` | the two hubs and their connections | `MCSessionHubs`: `_all` |
| `MemoryIngestion` | the ingestion of one playthrough's turns | `MCMemoryIngestion`: `_all` |
| `PlayClient` | the play screen of one tab against an abstract service | `MCPlayClient`: `_all` |
| `MinigameEncounter` | an encounter, from its trigger to its outcome | `MCMinigameEncounter`: `_all` |
| `Soundtrack` | the music of the play screen and of encounters | `MCSoundtrack`: `_all` |
| `ClientSession` | tokens, cookie, interceptor and guard of the tabs | `MCClientSession`: `_all` |
| `StudioMaster` | one editor, the cards and the chat of the studio page | `MCStudioMaster`: `_all`, `_fields` |
| `PlaythroughProofs` (the pipeline and the lifecycle), `MasterTurnProofs`, `ScenarioLifecycleProofs`, `SessionHubsProofs`, `MemoryIngestionProofs`, `PlayClientProofs`, `MinigameEncounterProofs`, `FrontendProofs` (the session, the soundtrack and the studio) | theorems | |

How they fit: `PlaythroughLifecycle` EXTENDS `TurnPipeline`, which refines
`PlaythroughLog`. `MasterTurn` opens the one step in which the pipeline's narrator
changes the state, and leaves the races for the row to the pipeline. `PlayClient` sees
the pipeline as a service that refuses, degrades, commits, triggers or ends;
`MinigameEncounter` produces the outcome it submits, and `Soundtrack` hears its moods.

Definitions whose name ends in `_Something` right before the definition they vary
(`Admissible_NoOrder`, `Skips_ForgetActive`...) are mutants: the same
definition with a plausible bug. Each property of a passing run is violated by
one of them, which shows that the property depends on the code it is about.
`Skips_ForgetActive` is a bug this code had: conditions that stay true were skipped.

### How state and steps correspond to the code

**TurnPipeline.** `req[r].pc` is the coroutine's position; the pieces between two
awaits are one action. `seen` is what `request_receiver` read, `loaded` the
`PlaythroughState` of `state_loader` (a second read of the row),
`members` the participants read before narration, `work` the state the narrator is
changing. `Persist` is `_write_once` when its commit is applied: the UPDATE guarded by
`turn_count`, the `turn_logs` insert guarded by its unique constraint, and the
play_count increment, all in one transaction; `WriteCommits`, `WriteCommitsReplyLost`,
`WriteFails` and `WriteConflicts` are what the caller can see of it.
`OptimisticLockError` is not retried; every other error is, `WriteAttempts` times.
The story is the sequence of request identities; the master-mode state is reduced to
whether an end condition holds (`won`), the pending minigame, and the results applied.
`Disconnect` covers a client that leaves and a process that dies. Any number of submissions
may be open at once, also of one participant: neither the service nor the play screen prevents
it. The properties say what stands nevertheless: a submission is `Overtaken` if the row moved on
between its two reads of it.

**ConditionGrammar.** A node has a leaf and at most one connective, so an expression is a
chain: a sequence of nodes, which the evaluator associates to the right. A missing field is
`None`, equal to `None` only and ordered with nothing (the code's NaN). The list and
substring operators (`in`, `contains`, `matches`) are leaves of the same sort and left out.

**MasterTurn.** The state is a function of the paths its schemas define; contents are
integers whatever the field's type, a list is one content, and explicit nulls are not
proposed. `store` is the row, `work` the working copy of the turn, `pc` its position.
`group` says which pydantic model a path belongs to (the top level or one entity): a
mutation checks what is present in its group and fills in the group's defaults
(`Coerced`), which it does not check. `settable` is what `validate_mutation` lets the narrator
touch. `FireCondition` applies Effect C through the same validator; `EffectRaises` is the
ValueError of arithmetic on a text. `CallTools(n)` is a response with n function calls,
`MutateAccepted` any accepted one (also `add_inventory_item` and `adjust_numeric_field`,
whose results are some content), `CallWithoutEffect` a refusal or `roll_dice`. `filled` is
a history variable: contents that came from a default. The playthrough has one
participant, for with more no minigame is triggered, and one turn at a time.

**PlaythroughLifecycle.** A core-api transaction commits at the end of its request, so
its UPDATE and its commit are one step, and the read that precedes it another. The ORM
writes the columns that changed since the read (`FlushRow`), and JSONB `state` is one
column. `lock` is the `FOR UPDATE` lock of join: every UPDATE of the row, also
the pipeline's, waits for it (`TurnNext`).

**ScenarioLifecycle.** Each HTTP call is a process: read, then write. `StartPublish` is one
step (lock, check, own commit). `job[c]` is the background task a publish scheduled, and
`ingest[c]` the memory layer's work on its request, which is independent of the job after
it is sent: `TemplateRetires` and `TemplateWrites` have no deadline, `JobFails` covers a
failed check, a failed ingestion and a timeout. The story is the identity of the
call that changed it last. Initially the scenario is a fresh draft or one that is already
live.

**SessionHubs.** One event loop, so a call of a hub is a step. `Leave` is the client
closing the connection, `Unsubscribe` the `finally` of `_relay` some time later;
in between the connection is `broken` and still registered, and the participant may have come
back. `overlapped` is a history variable: the connections whose registration another connection
of the participant took over or cleaned up.

**MemoryIngestion.** A fact is identified with the attempt that extracted it (identities
are uuid4, so no two attempts share facts) and stands for all facts of that attempt. A fact
has a presence in each store. `work[w]` is the thread's position in `run_batch`; `solo`
says whether the group has one record and takes `run_record`'s path, whose
compensation rules differ. `IsLegal` and `Moved` are the journal's transition rule,
`SafeTransition` the variant that logs and drops. Every stage has a failing twin, and
`UndoFails` lists which parts of a compensation can be left out. Errors and restarts
consume `faults`.

**PlayClient.** `gen` and `cancel` are `stream_generation` and `cancel_stream_fn`; a stream
carries the generation its closure captured, so `Own` is the guard of every handler.
A stream's queue holds the events on their way; `Deliver` takes one through `Handle`, `Break`
ends the connection without a word. `pdata`/`pnet` and `tdata`/`tnet` are the two queries: the
cached answer and the fetch, which answers with what the service held when it read. `buf`
holds the generation each buffered item was received in, and `cut`, a history variable:
since the last commit, a submission replaced a stream that was still delivering. `ReconcileGone` and
`ReconcileResends` are what `retryMinigameResult` and the timeout fallback do with the
authoritative read. The service (`srv`) commits, degrades, refuses, triggers and ends as it
likes.

**MinigameEncounter.** Time is counted in frames of the ticker, capped by `Clamp` as the
loop caps its delta. Hazards touch the player whenever they like (`Hits`): geometry and waves
are drawing. `ui` is the panel, `loop`, `hp` and `paused` the refs; `beat` is the half second
between the end and its report. `frame` numbers the mounted iframes and `msgs` are the
postMessages on their way from them. `trusted` is `isUrlAllowed`: a notice stands where the frame
would be, so nothing is posted and there is no retry, while the handshake's timer runs on.

**Soundtrack.** The controller's methods are functions on a record `snd`; `FadeEnds(c)` is
the timer that pauses a channel. `gesture` is the browser's autoplay permission, `dodge` what
a mounted encounter has to give back.

**ClientSession.** Access token n is issued with refresh token n, and the service accepts
the latest (`latest` is `current_refresh_jti`). `flights` are refreshes under way: the service
checks the token (`CheckRefresh`) and issues a new one (`RotateRefresh`) in two steps, and an
answer sets the cookie when it arrives, also over a newer one. `Timeout` is the client's: a
refresh that the service has not answered is only no longer `waited` for, and is rotated later
all the same. `leader`, `queued` and `refreshing` are the interceptor's; a request may be sent
without a token. `missing` is a history variable: the tokens whose answer was lost, or that an
older answer or a logout took out of the cookie jar. Left out: a reload of a page, and a login
that the service answers after the client gave it up (a login's answer can be lost).

**StudioMaster.** A call in flight carries the hook and the callbacks it will run: those of
the hook always, those given to `mutate` only for the latest call of that observer while it
is mounted (`Overtaken`). A task is one click on a card or on Apply All, with the
`scenario` of the render it was made in. `Render` is `useServerSyncedState` during a render,
`timer` the autosave's. Promise continuations run before any other event (`Calm`). The cards
of a task and those still to come are sets; `BatchOrder` picks the next one as `applyBatch` sorts
them, entities first and otherwise as the reply lists them. `Room` bounds the calls in flight.
A card has any target: one that `applyBlock` does not know is passed over and then marked, one
that cannot be read is refused with a message, and a fact is refused if its subject or its object
is an entity of the reply that has no identity yet (`Unresolved`). The cards that open a form for
the review of an expression (conditions, invariants, end conditions) are not applied in the model,
and a reference is a temporary id, never an entity that existed before the reply. A change of mode
is two steps, as its effects and the render that follows are: `KeyEffects` stores what is on
screen under the new key and reads what was there, `Rerender` shows and stores that again.

`Soundtrack` and `StudioMaster` prefix the names that every module has (`SoundSpec`,
`StudioTypeOK`...), so that one module can prove about several components.

## 3. The runs

A property of a run is a conjunction of named parts where the parts are one question (the
module defines them one by one, each with its comment); one TLC run then answers it at once.

| Run | Shows | Distinct states | Time (about) |
| --- | --- | --- | --- |
| `pipeline_all` | Three submissions of two participants, any two of them open at once: the log, the narrative, `done`, play_count and memory agree (`ConsistentStory`), who plays and which result is applied (`TurnsTaken`), what becomes of pending minigames, endings and outcomes under any races (`OutcomesStand`), refinement of `PlaythroughLog` (`ImplementsLog`), every submission settles (`RequestSettles`) | 466k | 75 s |
| `master_turn` | Three scenarios, turns with any tool calls: what is pending, ended and discovered fits the stored state (`WorldSound`), the world's rules hold (`RulesKept`), no true condition is forgotten (`TrueIsScheduled`), every turn ends (`TurnEnds`) | 545k | 100 s |
| `lifecycle_all` | Two turns and two core-api calls on one row: dense log and one turn per submission (`TurnsLogged`), joins never conflict and only enter active playthroughs (`JoinsSerialized`), what is over stays over (`EndingIsFinal`) | 649k | 25 s |
| `scenario_all` | Three calls of any kind and a restart: two jobs only after a PATCH (`JobsApartUnlessPatched`), what is played was published and is kept (`PlayedIsKept`), live means checked and listing is stable (`ListingIsEarned`), a publish settles (`PublishSettles`) | 430k | 25 s |
| `hubs_all` | Two participants with three connections, two spectators: nothing missed, no queue leaked (`HubsSound`), the end reaches who is connected and not displaced by another connection (`EndReachesConnected`), what is queued is sent (`QueuedIsSeen`) | 542k | 50 s |
| `ingestion_all` | Two runs over two turns in two threads, any three faults: completed is searchable and completed once, failed is not searchable (`BatchesSound`), `NoFactLost`, `ReportsTrue` | 1.52M | 40 s |
| `play_client` | Two turns of one playthrough, three streams, leaving the page: `ScreenSound` (one live stream, owned by the narrating screen; up to one page of turns the latest answer is shown), `OwnDraft`, `NarrationEnds` | 743k | 70 s |
| `encounter` | Three encounters, built-in and embedded, of trusted hosts and others: `EncounterSound`, `HitsApart`, `FirstOutcomeStays`, `EncounterEnds` | 35k | 3 s |
| `soundtrack` | Two visits with two turns each, mute, encounters, blocked autoplay: `OneTrackHeard`, `EncounterHonoursMute` | 603k | 10 s |
| `session` | Two requests of a tab with expiring tokens, and refreshes that fail, overlap or are answered late: `RefreshIsShared`, `CookieIsLatest`, `RequestsSettle`, `SessionIsUsed` | 722k | 105 s |
| `studio` | An editor, its autosave, a reply of seven cards, two modes: `CardsAnswered`, `ChatKept`, `EditorFaithful` | 1.11M | 135 s |
| `studio_fields` | **violated** (`FieldsKept`): an Apply All keeps only one of two cards that patch the scenario | 68 | 1 s |

The parts: `ConsistentStory` is the pipeline's inductive invariant (`TypeOK`, `LogDense`,
`NarrativeMatchesLog`, `OneTurnPerRequest`, `PlayCountedOnce`, `MemoryMatchesLog`,
`SnapshotIsPast` and the others that section 4 explains); `OutcomesStand` is
`PendingLeavesByResult`, `EndingCloses` and `OutcomeFits`; `JoinsSerialized` is the joined types and `JoinNeverConflicts`;
`EndingIsFinal` is `EndedStaysEnded` and `JoinOnlyActive`; `PlayedIsKept` is the types,
`PlayedWasPublished` and `PlaythroughsKeepScenario`; `ListingIsEarned` is `LivePassedChecks` and
`ListingStays`; `HubsSound` is the types, `ViewersMissNothing`, `NoLeakedQueue`; `BatchesSound`
is the types, `CompletedIsSearchable`, `CompletedOnce`, `FailedIsUnsearchable`; `ReportsTrue` is
`SuccessIsReal` and `PendingHasRun`; `WorldSound` is the types, `PendingIsTriggered`,
`EndedByItsState`, `LocationDiscovered`; `ScreenSound` is `StreamOwnership` and
`SnapshotIsShown`.

A violated run states, as one property, what a document, comment or test of the
repository says; `findings` in `PROJECT.json` quotes it and names the line of the code.
Section 5 lists further disagreements, with the property that shows each.

### Bounds, and why they are enough

The races are between pairs of actors around one row, one queue or one screen, so two or
three actors show them.

* `TurnPipeline`: `WriteAttempts = 2` has a first and a last attempt, the only two that the
  retry distinguishes. `PlayCountThreshold = 2` and `MemoryInterval = 2` are reached, and passed,
  with three turns. `MaxOpen = 2` of the three submissions are open at once, of two participants
  or of one: a race is between two, and the third meets what they left behind. `Arrivals` also
  makes them arrive in the order of their numbers, for they are interchangeable.
* `MasterTurn`: `Guarded` (a rule over two paths, ranges, defaults that are filled in, and a
  condition, an effect and a minigame that act on each other), `Open` (a map, no rules, a
  condition that is true at the start) and `Moving` (the same with a minigame that moves the
  player) are three scenarios of a few paths with values 0..2.
  `MaxCalls = 2` calls in a response and `MaxRoundTrips = 2` responses (5 in the code, of
  which the last is the fallback) give a call after a refused one and a turn that runs out.
* `ScenarioLifecycle`: three calls are a publish, what disturbs it, and what observes it.
* `SessionHubs`: three connections are one, its reload, and one more of either participant;
  `MaxNotices = 3` and `MaxEvents = 2` let a message be queued behind another. The two hubs share
  nothing, so `OneHub` explores each while the other is at rest.
* `MemoryIngestion`: `GroupSize = 2` gives groups of two and of one, which take different
  paths; `MaxFaults = 3` is a stage that fails, a compensation that fails and a restart.
* `PlayClient`: `PageSize = 1` with two turns has a full page and a story that outgrows it (20
  in the code); `MaxStreams = 3` is a stream, its replacement and a replacement of that;
  `MaxVisits = 1` leaves and does not return in the run (the larger instance below does);
  `MaxAttempts = 2` polls are a first and a last one.
* `MinigameEncounter`: `Encounters = 3` is one, its successor, and one after a forfeit;
  `MaxHp = 3` with `Invulnerable = 3` frames and `Duration = 8` lets the player die, or survive
  two hits; `Clamp = 2` is a slow frame; `MaxMsgs = 2` a message behind a late one.
* `Soundtrack`: `MaxVisits = 2`, `MaxTurns = 2`, `MaxToggles = 1`: a crossfade that overtakes
  another needs two changes of the mood, and two visits cover what a page leaves behind.
* `ClientSession`: two requests, `MaxIssued = 3` tokens, `MaxSends = 2` attempts: a leader, one
  in its queue, a refresh and a second one that overlaps it. `Logouts` lets a user log out only
  while there are tokens left for another login. The run has one tab; the theorems cover
  any number of tabs.
* `StudioMaster`: seven cards (a fact listed before the two entities it names, a tracked value
  that cannot be read, a target that the applier does not know, a scene, a deletion) and, in
  `studio_fields`, two tracked values; `MaxActs = 3` edits, `MaxTasks = 2` clicks, `MaxStreams = 1` reply and `MaxFaults = 1`
  failing call; two tasks are what can overtake. At most `MaxActs + MaxTasks + 1` calls are in
  flight, one for each edit and click and a save; the theorems need no bound on any of these.

Beyond the committed configs, these larger instances were checked without error:

* `TurnPipeline`, all but `RequestSettles` with all three submissions open at once (1.77M states);
* `PlaythroughLifecycle` with three core-api calls (7.2M);
* `ScenarioLifecycle`, safety with four calls (1.7M, symmetric);
* `SessionHubs`, safety without `OneHub`: three connections and one viewer (6.8M), two of each (1.3M);
* `MemoryIngestion` with three runs and two faults (14.8M), and with two runs, one
  restart and any number of other faults (28.7M);
* `PlayClient` with `PageSize = 2` and two turns (1.05M) or three (2.8M), and, safety only, with
  `MaxVisits = 2` and `MaxAttempts = 1` (2.8M);
* `ClientSession`, safety with two tabs of one request each (1.2M).

Deadlock is not checked: submissions, calls, turns and clicks are finitely many in a model
and the system may rest when all are over. Symmetry is used only in `lifecycle_all` and
`ingestion_all`, whose properties are no liveness; in both, what `CHOOSE` picks (the locals
of a submission that has not begun are a fixed value there, the batch of an idle thread)
is read by no step and no property.

### Assumptions about the environment

* READ COMMITTED PostgreSQL: a statement sees the latest committed rows, and a
  transaction's writes appear together.
* One process per service: the hubs and `MemoryEngine._batches` are in-process, and
  `ARCHITECTURE.md:753` and ADR-10 state the single-instance assumption.
* `MasterTurn`: one turn at a time, which the pipeline's lock on `turn_count` gives for what
  is committed.

### Fairness

All weak, and of single steps the runtime cannot postpone for ever; nothing obliges a
person to act, or a client to submit or to leave.

* `TurnPipeline`: each submission's next step. Every await returns or times out (model
  and HTTP clients have timeouts), so an open coroutine runs on.
* `MasterTurn`: `Progress`, the next step of the running turn, for the same reason; `Submit` and
  `TurnLost` are not fair.
* `ScenarioLifecycle`: the background job only; its calls return or time
  out (`memory_template_timeout_seconds`). The memory layer's own progress is not assumed.
* `SessionHubs`: the event loop resumes a relay whose queue is not empty, and the server
  notices clients that are gone (sse-starlette's ping).
* `MemoryIngestion`: a thread that has work goes on with it.
* `PlayClient`: the steps of the stream that the screen owns, which deliver, break or time out.
  Whether a stream that is not owned ever says anything is left open, as is when queries answer.
* `MinigameEncounter`: hazards keep coming (`Hits`, the fairness of the game's own design: waves
  are spawned until the clock runs out), the half-second timer, the handshake's timer.
* `Soundtrack`: none. `ClientSession`: a refresh that is waited for is answered or times out, a
  request is answered, timers and guards run; whether the service ever turns to a refresh is left
  open. `StudioMaster`: calls are answered, the autosave's timer fires, streams deliver, tasks
  continue, a render that was asked for comes.

## 4. The proofs

All are for every set of requests, calls, participants, tabs and paths and every value of
the settings; the only assumptions are the named `ASSUME`s of the modules (participants
are finite and not empty, settings are positive, flags are Boolean, the placeholder
values are no calls, scenarios are well-formed).

**PlaythroughProofs, the pipeline.** `ConsistentStory` is the inductive invariant. The log's
density and its agreement with the narrative are not inductive by themselves: they need that
what a coroutine loaded is a past of the row (`SnapshotIsPast`), that narration leaves
the narrative alone (`WorkKeepsNarrative`), and that a submission which already has a
turn can never pass the lock again because its `turn_count` is stale
(`TurnComesFromWrite`, the heart of "a retry after a lost reply is harmless").
`WrittenHasTurn` and `BatchIsLogged` carry this to `done` and to the memory batch.
Steps that write no turn (`Quiet`) are separated from `Persist`, which is the only real
case. From the invariant follow `DoneDurable`, `TurnOnce`, `LogIsTheStory`,
`PlayCounted`, `MemoryFaithful`, and the refinement `PipelineImplementsLog`.

A second invariant, `GameInv`, gives `TurnsAreTaken` and `OutcomesAreKept`, however many
submissions are open and whoever sent them. `Kinds` first sorts the steps by what they do to the
submission they move and to the row. `Knows` then says of each submission what it passed at its
validation (`Passed`), that what it read then and what it loaded later are pasts of the row
(`SeenIsPast`, `LoadIsLater`), and that what it is going to write is the state it loaded with
its own result applied (`WorkIsResolved`). A commit passes the lock only over the row that was
loaded (`CommitOverLoaded`), so the row it writes over has the pending minigame and the
outcomes it knows of. What is left open by the two reads of the row is exactly `Overtaken`.

**PlaythroughProofs, the lifecycle.** The pipeline's type proof is reused for its own
steps. `JoinInv` is the inductive invariant of joins: a join that goes on holds the
lock, the lock implies an active row, and a prepared seat is still the next one and its
user still no participant. It needs that no UPDATE happens while the lock is held, and
that only joins insert. It gives `JoinsNeverConflict` and `JoinsOnlyActive`.
`EndedStays` needs only the types and what each kind of UPDATE does to `status`.
`TurnsStayLogged` drops the narrative, which an edit may write back, from the pipeline's
argument: `LogInv` keeps that a submission loaded a past turn count and that one which has its
turn cannot pass the lock again, and core-api's UPDATEs touch neither count nor log
(`CoreLogQuiet`).

**MasterTurnProofs.** Three layers. `Base` has the types, `RulesKept` for the working copy and
the row, and `Tracked`: whatever differs between them is recorded as changed by name or as
filled from a default. Expressions enter only through `HoldsByPaths`: two states that agree
on an expression's paths agree on its value. An accepted mutation is lawful
(`AcceptedIsLawful`) and stays in its group (`AcceptedIsSound`), so the rules hold whatever
the narrator calls: `RulesAreKept`. `Scanned` says that conditions the intake has passed are
settled: false, fired, or never looked at because nothing they mention was touched;
`SkippedIsSettled` is why skipping is safe, and it needs `Tracked`. From it
`NoConditionIsLost`. `Placed` follows the later steps (map, trigger, write, endings) and
gives `WorldStaysSound`.

**ScenarioLifecycleProofs.** `RowMoves` says what one step can do to the row at all, and
is enough for `ListingIsStable`, `LiveIsChecked` and `PlaythroughsKept`. `PlayedPublished` needs
`PublishedStays`: what jobs and calls remember as published is still published.
`JobsApart` needs `JobHoldsStatus`: as long as no PATCH was answered, a running job
means that the status is `publishing` (or the scenario is gone). Without the hypothesis
two jobs can run at once (section 5).

**SessionHubsProofs.** `RegistryAgrees`: a registered queue belongs to a served connection of
that participant, and a served connection is registered unless it was overlapped: unless another
one of its participant was opened, or cleaned up, since. `EndReachesAll` follows, with any
number of connections. `HubsStaySound`: registered queues belong to served connections, the spectators' list holds the queue of each served viewer exactly once
(`ListExact`), and what a viewer got and has queued are the events since it joined (`Whole`).

**MemoryIngestionProofs.** The argument is ownership. An attempt is held by one thread at most
(`Owned`): by what its run still has to embed, persist, verify, undo or report. Every other step
leaves a held attempt alone, except that it may supersede it (`Kept`), so what the three stores
and the journal say of it follows from the stage of its run (`Stage`: embedded before it is
persisted, persisted before it is verified, partly gone while it is undone). An attempt that
nobody holds is `Settled`. `Ownership` is inductive by itself, over any interleaving of runs,
failing stages, failing compensations and restarts, and gives the searchable parts of
`BatchesStaySound`. `Journal` adds that a turn is completed in the journal exactly when one
attempt is, which is `CompletedOnce`: the transition rule refuses a second completion.
`NoneLost` follows each superseded fact to a fact that replaces it (`NoFactIsLost`), and
`Reported` each result to the journal (`ReportsStayTrue`).

**PlayClientProofs.** `OwnedStreams`: while the screen narrates, the stream of the current
generation is open or its end is on its way. The strengthening is `Numbered` (no stream has a
generation that was not handed out), `Cancellable` (the stored cancel function is the current
stream's), `NarratingOwned`, and `Kept` (an outcome that is being saved belongs to the encounter
on screen, and a read that was asked for to the outcome). `DraftIsOwn` needs
the order within a stream's queue (`Ordered`, `QueueSound`: nothing but the close follows a
terminal event) and `DraftOwned`: what is buffered came on the current stream, unless that
stream has yet to say anything, or a submission cut another one off (section 5). `SnapshotShown`
says that when every answer has arrived, in whatever order, the screen shows the latest one, for
any number of playthroughs and turns and any page size, as long as the screen lists the turns of
its own story, once each, and not more than a page of them. `Listed` carries it: while the list
is that (`Brief`), an answer that has yet to arrive has at least the turns on screen, so it will be
applied, and one that arrived was. The limit is the code's, not the proof's: drop it and TLC finds
a screen that keeps an older state than the answers it has (section 5).

**MinigameEncounterProofs.** `IInv` ties panel and refs together (`Panels`), a recorded outcome
to what the loop or the frame produced (`Outcomes`), a report to its beat or its resolved flag
(`Reports`), and the life that was lost to the time that passed (`Damage`). It gives
`SoundEncounters`, `HitsStayApart` (two hits are at least an invulnerability apart) and
`FirstOutcomeKept`.

**FrontendProofs, the soundtrack.** Each method of the controller preserves `InOrder` (the
active channel has the current track and no timer, the other one is fading or silent);
`OneTrack` and `MuteIsHonoured` follow by going through the events.

**FrontendProofs, the session.** `SharedRefreshes`: a queued request has a leader and a leader
has a refresh under way, so nobody waits for none. `RotationIsSafe`: when no answer is on its
way, the cookie is the token that the service accepts, unless that very token is `missing`: its
answer was lost or came after the tab had given up, or an older answer or a logout replaced it.
However many refreshes overlap, in however many tabs, a rotation alone locks nobody out.
`Rotation` carries it: what is known anywhere was issued (`Past`), and the latest token is in one
place, an answer, the cookie jar or `missing` (`OnePlace`).

**FrontendProofs, the studio.** For any reply, with any targets and references, and any number of
clicks, messages and failures (the assumption only says which values are of one type).
`CardsAreAnswered` rests
on `Applications`: a call of an application is the only one it waits for and carries the card
that left its queue last (`InFlight`, `OneCall`); a card that left the queue was written or
reported, or is that one (`CardsLeft`); and in an Apply All an entity that left it is known, was
refused, or is that one (`EntitiesLeft`). So when a fact of an Apply All finds no subject or no
object, `BatchOrder` has taken all entities before it (`BatchOrderIn`), the missing one's creation
among them if it is pressed there too, and it was refused. That a call has an identity of its own (`FreshId`) is a fact about the cardinality of
the calls in flight. `ChatIsKept` speaks of what a conversation holds (`Held`): between the two
effects of a mode change and the next render it is what was read, not what is under the key. It
needs that a mounted page shows what is stored under its key and that a page that is left has no
stream (`Stored`), and exempts only a page left, or a message sent, within that window (`Torn`,
section 5). `EditorFollows` needs `Followed`: an editor that equals the cached
scene has recorded it as synced. It is the safety half of `EditorFaithful`, whose other half is
liveness.

**Only model-checked:** all liveness, since the prover has no ENABLED and no fairness
(`RequestSettles`, `TurnEnds`, `PublishSettles`, `QueuedIsSeen`, `NarrationEnds`,
`EncounterEnds`, `RequestsSettle`, `SessionIsUsed`, and `EditsSaved` of
`EditorFaithful`). Every other property of a passing run is a theorem. What an expression's
evaluator computes is defined by recursion over the chain and is not proved about; the proofs
use that it depends on the expression's paths only.

## 5. Where code and documents disagree

One disagreement has a run: `studio_fields`, in which two cards of one Apply All patch the
same render of the scenario (`useMasterActionApplier.ts:246`, against the test at `:213`). The
others were met while modelling. Where a property is named, its definition is in the module
and TLC finds it violated with the config named, or under the change of bounds given.

*Turns* (all within `pipeline_all`, whose properties name these cases). `DegradedIsUnsaved`: a
turn that the client is told was not saved may be saved. A participant may have two submissions
open: the screen disables its inputs while it narrates, but a submission that was stopped or
whose connection was lost may still run, a second tab knows nothing of the first, and
`TRS/turn/pipeline.py:128` admits what is valid. Such a participant can take two turns in a row,
since the order is validated against the first read only
(`TRS/turn/steps/request_receiver.py:160`; drop `~Overtaken(q)` from `TurnsTaken`), and a second
result that races with the first drops the minigame that the first one's turn triggered
(`minigame_result_resolver.py:65`; drop `Overtaken(q)` from `PendingLeavesByResult`). The outcome
of an ended playthrough can be overwritten by a turn that was already running: `mark_ended` has
no condition on the status (`TRS/repositories/playthrough_repo.py:57`), so `EndingCloses` speaks
of the submissions that were not open, and `OutcomeFits` of an outcome that is the latest turn's.
A minigame is stamped on a playthrough that gets a second participant during the narration
(`TRS/turn/pipeline.py:170`). The `done` of spectators and the next participant's notification
are lost when the client leaves right after the commit. A batch's turns are all attributed to
the participant who flushes (`TRS/turn/steps/memory_writer.py:58`).

*Master mode* (read in the code; the model contains the behaviour and the properties exclude it
by the conjunct named). `_build_initial_state` (`core-api/services/playthrough_service.py:762`)
does not seed the schema's `initial` values; the first accepted mutation of a group fills in the
defaults without recording them as changed, and a condition that is true through a default is
skipped until something names its fields, contrary to `condition_evaluator.py:10-13` (drop
`Paths(e) \cap store.filled = {}` from `TrueIsScheduled`). The mutation of a minigame's outcome,
or of an earlier condition's effect, is not seen by the scoping of the same turn, contrary to
the docstrings of `minigame_result_resolver.py` and `pipeline.py`. `sync_discovered_locations`
compares with the state after the intake, so a location reached by a minigame's outcome is never
discovered (`master-mode-maps.spec.md:13`; drop `~OutcomesMove` from `LocationDiscovered`). A
scenario with one rule over a top-level field and one over an entity's attribute refuses every
mutation for ever, and so does an invariant with an empty expression. `increment` on a text
raises a `ValueError` nobody catches, so a minigame whose result does it can never be resolved,
contrary to `resolve_result`'s "can never get stuck pending"
(`master-mode-minigames.spec.md:43,74`). A minigame whose trigger stays true triggers again
every turn and can postpone an ending for ever. `entity_ref` accepts any string; outcome paths
of minigames are not validated by core-api; the assistant's own example
(`assistant_service.py:128`) uses `current_location_id` in an expression, which core-api refuses
with 422, and the studio's ExpressionBuilder (`availableFields.ts:79`) offers slug paths that it
refuses as well.

*Playthroughs.* A character edit that read before a turn's commit erases that turn from the
narrative (`NarrativeMatchesLog` under `LifecycleSpec`), and a turn that loads before an edit
and commits after it overwrites the edit. An abandoned or completed playthrough can still be
edited (`core-api/services/playthrough_service.py:259`), a completed one abandoned (`:300`), and
a turn committed after an abandonment.

*Scenarios.* Two publish jobs of one scenario can run at once (`OneJobAtATime`). A PATCH that
read before a publish changes the story while it is published; two concurrent story edits
share one version number (`scenario_service.py:285`); an archived scenario is brought back by
the job that finishes after it (`publish_service.py:117`); a scenario set back to draft stays
listed (`scenario_repo.py:115`); a delete that races with a creation ends in an unhandled
`IntegrityError` (`scenario_service.py:300`); a playthrough created while a republish is between
its two phases clones an empty template (`playthrough_service.py:205`). ADR-10 accepts that a
restart leaves a scenario in `publishing`.

*Hubs.* After a reload, the cleanup of the old connection removes the queue of the new one
(`TRS/session/notification_manager.py:35`), and neither a turn nor the end reaches the player any
more; two tabs of a player take the queue from each other in the same way (drop
`c \notin overlapped` from `EndReachesConnected`).

*Memory layer.* A failed verification leaves a job that no replay can complete (`ReplayIsLegal`); a
batch is pending for ever after a restart (`NoEternalPending`). A replay mints new identities
(`ingestion/model_adapters.py:354`), so a retry after a graph write that failed late
duplicates facts, although the orchestrator's header calls it a no-op; a failing graph stage
is not compensated in a group; turns of one group never supersede each other, because all
plans precede all writes; compensation makes a prior fact current again even if another live
fact superseded it; an embedding stored again over a deactivated row stays deactivated; the
in-memory entry of `submit_batch` survives a durable insert that fails. Read in the code and
not modelled: rollback never archives bridge turns, whose `observed_at` is synthetic, and keeps
one prior per fact.

*Play screen.* An outcome can be dropped by a reconciliation that finds the minigame gone
(`OutcomeRetained`); a submission can commit to the story of another page (`CommitsToItsStory`,
with two playthroughs and `MaxVisits = 2`); the timeout fallback can leave the screen where it
was (`FallbackMoves`, with `MaxTurns = 3`, `PageSize = 3`, `MaxStreams = 4`, `MaxVisits = 3`,
`MaxAttempts = 1`). "The API snapshot is authoritative" (`play.store.ts:207`) ends with the first
page of turns: a screen that has committed turn 21 lists more turns than `GET /turns` returns, so
`PlayPage.tsx:69` drops that snapshot and every later one, and a turn of another participant, a
minigame or a changed inventory is not shown until the page is loaded anew (drop
`Len(shown.list) <= PageSize` from `SnapshotIsShown`; drop `InOrder` for a turn listed twice and,
with two playthroughs and `MaxVisits = 2`, for a turn of another story). A snapshot that is read while a turn streams opens the encounter that
this turn triggered (`play.store.ts:210`); submitting its outcome aborts the stream (`:492`),
whose image and minigame stay buffered and are attached to the next commit (drop `~buf.cut` from
`OwnDraft`, with `MaxTurns = 3`, `PageSize = 3`). A turn is shown twice when the first turns
query is read after the commit; `ReconcileGone` ends the narration while a newer stream is open;
a lost `done` leaves the turns query as it was; an error after `done` says the turn may not have
been saved; retrying resubmits a minigame's text as a narrative.

*Encounters and sound.* An embedded encounter that begins under the component of the one before
it inherits its resolved flag, and its outcome is never reported, contrary to "so the turn is
never stuck" (`NeverStuck`; `EncounterEnds` speaks of encounters with a component of their own);
a frame that said ready and then nothing has no timeout; a host that is not trusted gets a notice
without a Retry button (`ReplitEmbedMinigame.tsx:89-97`), so the handshake's timer never fires a
second time and only a forfeit ends the encounter (`EncounterEnds` speaks of trusted hosts); `start()` before the renderer's init
resolved is lost; an effect's cleanup clears the half-second timer; homing orbs never despawn.
Sound effects ignore the mute, against "Honor the player-wide audio preference"
(`EffectsHonourMute`; `EncounterHonoursMute` is about the music only); leaving the page during an encounter
restarts the music (`SilentOutside`); a gesture need not start it (`GestureUnlocks`); the mood
of a result's turn is undone by `restoreAudio`.

*Session.* A refresh that answers after a logout logs in again (`LogoutSticks`), and one that
fails after a login logs out (`LoginSticks`). A 401 of an event stream never refreshes; the tab
that loses a rotation is logged out. A refresh slower than the 8 s timeout (`api-client.ts:33`) is
rotated by the service all the same (`core-api/services/auth_service.py`, `routers/auth.py:98`) and
its cookie is never kept; and an answer that comes after that of a newer token, as a slow boot's
after a login, puts the older cookie back. The next refresh is refused in both: these are the
tokens that `CookieIsLatest` calls `missing`.

*Studio.* Text typed while a save is answered can be overwritten (`NoClobber`), and an
application need not end because its callbacks were dropped (`ApplicationsEnd`). A card of an
unsupported target, `minigame` for one, resolves without a call or a message
(`useMasterActionApplier.ts:302-303`) and is marked as applied (drop
`target \notin Supported` from `AppliedOrReported`); so is one after a reported refusal. A change
of mode first stores the conversation on screen under the new mode's key
(`useAssistantChat.ts:101-108`): a page left before the next render leaves it there, and a message
sent in that window is appended to the wrong conversation (drop `Torn` from `ChatKept`); "All changes saved"
(`SaveStatusIndicator.tsx:19`) is shown after a failed save and during the debounce; a failed
autosave is not retried, and leaving the page drops it; a double click creates an entity twice;
leaving while a reply streams stores an empty reply. In the newbie wizard, which is not
modelled, `hydrateFromScenario` keeps the lore of the previous scenario, and `Step4Review.tsx`
creates a new scenario when one is edited.

## 6. Plan

What a next step would take, in order of importance:

1. `MemoryRollback`: rollback and the supersession chain (which facts are current after any
   sequence of ingestion, compensation and rollback), against an abstract timeline.
2. The composition of `PlayClient` with `TurnPipeline`, for what a stopped and resubmitted turn
   does to the row, and several participants in `MasterTurn`.
3. `TemplateMemory`: the manifest's identity checks across republishes, and clones.
4. The newbie wizard with `usePublish`, and the studio's expression cards.
5. The rate limiter as a pure algorithm; the music job; fact supersession and map pins.
6. Proofs: about the new modules, as they come; in `StudioMaster`, references to entities that
   exist already, and in `ClientSession`, page reloads.
