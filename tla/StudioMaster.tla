---------------------------- MODULE StudioMaster ----------------------------
(* The master-mode studio page of one scenario in one tab: the opening-scene  *)
(* editor with its autosave over useServerSyncedState, the cards that         *)
(* AIChatSidebar applies with useMasterActionApplier, the scenario cache and  *)
(* the save flag of useScenario, and the assistant chat with its persistence. *)
(* A mutation calls the hook's own callbacks always, but the callbacks given  *)
(* to `mutate` only for the latest call of that observer while it is mounted. *)
EXTENDS Integers, Sequences, FiniteSets

CONSTANTS
    Reply,       \* the action blocks of a reply, in the order listed
    Texts,       \* scenes the user may type
    Old,         \* the scene before
    MaxActs,     \* bound on the user's actions
    MaxStreams,  \* bound on the messages sent
    MaxTasks,    \* bound on the applications under way at once
    MaxFaults    \* bound on the calls that fail

Modes == {"newbie", "master"}

\* A block: its target, what it is about (the temporary id of an entity, the
\* subject of a fact, a key, a text, the entity to delete), the object of a fact,
\* and whether its content can be read.  Any word of the assistant is a target;
\* "delete" stands for a deletion.
Targets(target) == {i \in DOMAIN Reply : Reply[i].target = target}
Args(target) == {Reply[i].arg : i \in Targets(target)}
Scenes == Texts \cup {Old} \cup Args("opening_prompt")
Keep == "keep"
NoRef == ""

TextTargets == {"title", "logline", "opening_prompt", "instructions"}
Supported == {"entity", "fact", "state_field", "delete"} \cup TextTargets
Expressions == {"condition", "invariant", "end_condition"}

\* A deletion is about an entity of the service; an entity without a temporary
\* id has one here that nothing refers to.
ASSUME StudioAssumption ==
    /\ MaxActs \in Nat /\ MaxStreams \in Nat /\ MaxTasks \in Nat /\ MaxFaults \in Nat
    /\ Len(Reply) \in Nat /\ DOMAIN Reply = 1..Len(Reply)
    /\ Args("delete") \subseteq Nat /\ NoRef \notin Args("entity")
    /\ Old \in STRING /\ Keep \notin Texts \cup {Old} \cup Args("opening_prompt")

VARIABLES
    db,         \* the service: scene, state_schema, entities made so far, and those that are left
    wrote,      \* cards whose write the service did
    cache,      \* ["scenario", id] of the query client
    calls,      \* mutations and fetches in flight
    isSaving,   \* of the studio store
    mounted,    \* the page is shown
    form, synced, timer,   \* OpeningSceneEditor
    temp,       \* tempIdMapRef: temporary id -> entity id, 0 for none
    tasks,      \* applications of cards under way
    applied,    \* appliedKeys
    reported,   \* what was reported in the chat, and in which application
    messages, saved,       \* useAssistantChat and its localStorage keys
    rereading, read,       \* a conversation is read that the next render will show
    mode, isStreaming, streams, cancel, sent,
    acts, faults,  \* user actions and failures so far
    unsettled   \* a save failed, or calls on the scenario overlapped

database == <<db, wrote>>
editor == <<form, synced, timer>>
applier == <<temp, tasks, applied, reported>>
chat == <<messages, saved, rereading, read, mode, isStreaming, streams, cancel, sent>>
studioVars == <<database, cache, calls, isSaving, mounted, editor, applier, chat, acts, faults, unsettled>>

Cards == (0..MaxStreams) \X DOMAIN Reply
Free == [msg |-> 0, cards |-> {}, all |-> FALSE, queue |-> {}, schema |-> {}, st |-> "free"]

StudioInit ==
    /\ db = [scene |-> Old, schema |-> {}, made |-> 0, left |-> {}]
    /\ wrote = {} /\ cache = [scene |-> Old, schema |-> {}]
    /\ calls = {} /\ isSaving = FALSE
    /\ mounted = TRUE /\ form = Old /\ synced = Old /\ timer = FALSE
    /\ temp = [t \in Args("entity") |-> 0] /\ tasks = [t \in 1..MaxTasks |-> Free]
    /\ applied = {} /\ reported = {}
    /\ saved = [k \in Modes |-> {[id |-> 0, key |-> k, text |-> "reply"]}]
    /\ mode = "newbie" /\ messages = saved["newbie"] /\ rereading = FALSE /\ read = {}
    /\ isStreaming = FALSE /\ streams = {} /\ cancel = 0 /\ sent = 0
    /\ acts = 0 /\ faults = 0 /\ unsettled = FALSE

\* Promise continuations and the effects of a render run before any other event.
Ready == {t \in DOMAIN tasks : tasks[t].st = "ready"}
Calm == Ready = {} /\ (mounted => mode = "master")
Act == Calm /\ mounted /\ acts < MaxActs /\ acts' = acts + 1 /\ faults' = faults

-----------------------------------------------------------------------------
(* The editor: useServerSyncedState, and the autosave effect behind it. *)

\* Mutant: a form that equals the scenario is not recorded as synced.
Render_KeepsSynced(f, s, m) ==
    LET follows == m.scene # f /\ f = s
        shown == IF follows THEN m.scene ELSE f IN
    /\ form' = shown
    /\ synced' = IF follows THEN m.scene ELSE s
    /\ timer' = (shown # m.scene)

\* Mutant: the autosave effect does not depend on the text.
Render_Unarmed(f, s, m) ==
    LET follows == m.scene = f \/ f = s IN
    /\ form' = IF follows THEN m.scene ELSE f
    /\ synced' = IF follows THEN m.scene ELSE s
    /\ timer' = FALSE

Render(f, s, m) ==
    LET follows == m.scene = f \/ f = s
        shown == IF follows THEN m.scene ELSE f IN
    /\ form' = shown
    /\ synced' = IF follows THEN m.scene ELSE s
    /\ timer' = (shown # m.scene)

Edit(text) ==
    /\ Act /\ text # form
    /\ Render(text, synced, cache)
    /\ UNCHANGED <<database, cache, calls, isSaving, mounted, applier, chat, unsettled>>

-----------------------------------------------------------------------------
(* Mutations. *)

ScenarioHooks == {"editor", "applier", "fetch"}
NewId == CHOOSE n \in 1..(Cardinality(calls) + 1) : \A c \in calls : c.n # n
Room == Cardinality(calls) < MaxActs + MaxTasks + 1   \* bound on the calls of a page
Overtaken(hook) == {IF c.hook = hook THEN [c EXCEPT !.last = FALSE] ELSE c : c \in calls}

\* mutate(change): the earlier calls of this observer lose their callbacks.
Call(hook, task, card, change) ==
    [n |-> NewId, hook |-> hook, task |-> task, card |-> card, scene |-> change.scene, schema |-> change.schema,
     id |-> change.id, obj |-> change.obj, st |-> "sent", last |-> TRUE, snap |-> cache]

Mutate(hook, task, card, change) ==
    /\ calls' = Overtaken(hook) \cup {Call(hook, task, card, change)}
    /\ isSaving' = (isSaving \/ hook \in {"editor", "applier"})
    /\ unsettled' = (unsettled \/ (hook \in ScenarioHooks /\ \E c \in calls : c.hook \in ScenarioHooks))

Change == [scene |-> Keep, schema |-> {}, id |-> 0, obj |-> 0]

AutoSave ==
    /\ Calm /\ mounted /\ timer /\ Room
    /\ timer' = FALSE
    /\ Mutate("editor", 0, <<0, 0>>, [Change EXCEPT !.scene = form])
    /\ UNCHANGED <<database, cache, mounted, form, synced, applier, chat, acts, faults>>

\* The button is disabled while the latest save of this editor is pending.
HandleSave ==
    /\ Act /\ Room
    /\ ~\E c \in calls : c.hook = "editor" /\ c.last
    /\ Mutate("editor", 0, <<0, 0>>, [Change EXCEPT !.scene = form])
    /\ UNCHANGED <<database, cache, mounted, editor, applier, chat>>

\* What the service does with a call; a fact needs its entities, a deletion its own.
Writes(c) ==
    CASE c.hook = "entity" -> [db EXCEPT !.made = db.made + 1, !.left = db.left \cup {db.made + 1}]
      [] c.hook = "delete" -> [db EXCEPT !.left = db.left \ {c.id}]
      [] c.hook \in {"fact", "fetch"} -> db
      [] OTHER -> [db EXCEPT !.scene = IF c.scene = Keep THEN db.scene ELSE c.scene,
                             !.schema = IF c.schema = {} THEN db.schema ELSE c.schema]

ServeCall(c) ==
    /\ Calm /\ c.st = "sent"
    /\ c.hook \in {"fact", "delete"} => c.id \in db.left /\ c.obj \in db.left \cup {0}
    /\ db' = Writes(c)
    /\ wrote' = wrote \cup (IF c.task = 0 THEN {} ELSE {c.card})
    /\ calls' = (calls \ {c}) \cup
                {[c EXCEPT !.st = "ok", !.snap = [scene |-> db'.scene, schema |-> db'.schema],
                           !.id = IF c.hook = "entity" THEN db'.made ELSE c.id]}
    /\ UNCHANGED <<cache, isSaving, mounted, editor, applier, chat, acts, faults, unsettled>>

\* A refusal, or an answer that never arrives whatever the service did.
Fail(c) ==
    /\ Calm /\ c.st \in {"sent", "ok"} /\ faults < MaxFaults /\ faults' = faults + 1
    /\ calls' = (calls \ {c}) \cup {[c EXCEPT !.st = "no"]}
    /\ unsettled' = (unsettled \/ c.hook \in ScenarioHooks)
    /\ UNCHANGED <<database, cache, isSaving, mounted, editor, applier, chat, acts>>

\* onSuccess and onError of the hook.
HookCallback(c) ==
    /\ cache' = IF c.st = "ok" /\ c.hook \in ScenarioHooks THEN c.snap ELSE cache
    /\ isSaving' = (isSaving /\ c.hook \notin {"editor", "applier"})
    /\ IF mounted /\ cache' # cache THEN Render(form, synced, cache') ELSE UNCHANGED editor

\* reportApplyError appends to the messages on screen.
Report(t, card, why) == reported' = reported \cup {[card |-> card, why |-> why, all |-> tasks[t].all]}

\* Mutant: onError resolves without a word.
MutateCallback_Silent(c) ==
    IF ~c.last \/ c.task = 0 THEN UNCHANGED <<temp, tasks, reported>>
    ELSE /\ tasks' = [tasks EXCEPT ![c.task].st = "ready"]
         /\ temp' = IF c.st = "ok" /\ c.hook = "entity" THEN [temp EXCEPT ![Reply[c.card[2]].arg] = c.id] ELSE temp
         /\ UNCHANGED reported

\* onSuccess and onError given to mutate by the applier.
MutateCallback(c) ==
    IF ~c.last \/ c.task = 0 THEN UNCHANGED <<temp, tasks, reported>>
    ELSE /\ tasks' = [tasks EXCEPT ![c.task].st = "ready"]
         /\ temp' = IF c.st = "ok" /\ c.hook = "entity" THEN [temp EXCEPT ![Reply[c.card[2]].arg] = c.id] ELSE temp
         /\ IF c.st = "no" THEN Report(c.task, c.card, "refused") ELSE UNCHANGED reported

Answer(c) ==
    /\ Calm /\ c.st \in {"ok", "no"}
    /\ calls' = calls \ {c}
    /\ HookCallback(c) /\ MutateCallback(c)
    /\ UNCHANGED <<database, mounted, applied, chat, acts, faults, unsettled>>

-----------------------------------------------------------------------------
(* Applying cards. *)

\* The scenario of the render in which the button was pressed.
Begin(t, m, cards, all, queue) ==
    /\ tasks[t].st = "free" /\ (\A u \in 1..(t - 1) : tasks[u].st # "free")
    /\ [id |-> m, key |-> mode, text |-> "reply"] \in messages /\ mode = "master"
    /\ tasks' = [tasks EXCEPT ![t] = [msg |-> m, cards |-> cards, all |-> all, queue |-> queue,
                                      schema |-> cache.schema, st |-> "ready"]]
    /\ UNCHANGED <<database, cache, calls, isSaving, mounted, editor, temp, applied, reported, chat, unsettled>>

\* A condition, an invariant or an end condition opens a review form instead.
ApplyBlock(t, m, i) ==
    /\ Act /\ <<m, i>> \notin applied /\ Reply[i].target \notin Expressions
    /\ Begin(t, m, IF Reply[i].target = "delete" THEN {} ELSE {i}, FALSE, {i})

\* Every card but deletions and expressions, those already applied included.
Applicable == {i \in DOMAIN Reply : Reply[i].target \notin {"delete"} \cup Expressions}

ApplyAll(t, m) == Act /\ Begin(t, m, Applicable, TRUE, Applicable)

Least(S) == CHOOSE i \in S : \A j \in S : i <= j

\* Mutant: the blocks in the order the assistant lists them.
BatchOrder_Listed(queue) == Least(queue)

\* applyBatch: entities first, each group in the order of the reply.
BatchOrder(queue) == Least(IF queue \cap Targets("entity") # {} THEN queue \cap Targets("entity") ELSE queue)

\* The entities that a fact names, and what the applier knows of them.
Refs(i) == {Reply[i].arg} \cup ({Reply[i].obj} \ {NoRef})
Resolve(ref) == IF ref \in Args("entity") THEN temp[ref] ELSE 0
Unresolved(i) == Reply[i].target = "fact" /\ \E ref \in Refs(i) : Resolve(ref) = 0

\* Texts are taken as they are, and so is what is not supported.
Unread(i) == ~Reply[i].valid /\ Reply[i].target \in {"entity", "fact", "state_field", "delete"}

BlockChange(t, i) ==
    CASE Reply[i].target = "fact" -> [Change EXCEPT !.id = Resolve(Reply[i].arg), !.obj = Resolve(Reply[i].obj)]
      [] Reply[i].target = "delete" -> [Change EXCEPT !.id = Reply[i].arg]
      [] Reply[i].target = "state_field" -> [Change EXCEPT !.schema = tasks[t].schema \cup {Reply[i].arg}]
      [] Reply[i].target = "opening_prompt" -> [Change EXCEPT !.scene = Reply[i].arg]
      [] OTHER -> Change

HookOf(i) == IF Reply[i].target \in {"state_field"} \cup TextTargets THEN "applier" ELSE Reply[i].target

\* The next block of an application: it is reported, passed over, or one call.
NextBlock(t) ==
    LET i == BatchOrder(tasks[t].queue)
        rest == [tasks[t] EXCEPT !.queue = @ \ {i}] IN
    /\ t \in Ready /\ tasks[t].queue # {}
    /\ \/ /\ Unread(i) \/ Unresolved(i)
          /\ tasks' = [tasks EXCEPT ![t] = rest]
          /\ Report(t, <<tasks[t].msg, i>>, IF Unread(i) THEN "refused" ELSE "unresolved")
          /\ UNCHANGED <<calls, isSaving, unsettled>>
       \/ /\ Reply[i].target \notin Supported
          /\ tasks' = [tasks EXCEPT ![t] = rest]
          /\ UNCHANGED <<calls, isSaving, unsettled, reported>>
       \/ /\ Reply[i].target \in Supported /\ ~Unread(i) /\ ~Unresolved(i)
          /\ tasks' = [tasks EXCEPT ![t] = [rest EXCEPT !.st = "waiting"]]
          /\ Mutate(HookOf(i), t, <<tasks[t].msg, i>>, BlockChange(t, i))
          /\ UNCHANGED reported
    /\ UNCHANGED <<database, cache, mounted, editor, temp, applied, chat, acts, faults>>

\* markApplied, whether or not the blocks were refused, or were of any use.
Finish(t) ==
    /\ t \in Ready /\ tasks[t].queue = {}
    /\ applied' = applied \cup {<<tasks[t].msg, i>> : i \in tasks[t].cards}
    /\ tasks' = [tasks EXCEPT ![t] = Free]
    /\ UNCHANGED <<database, cache, calls, isSaving, mounted, editor, temp, reported, chat, acts, faults, unsettled>>

-----------------------------------------------------------------------------
(* The chat. *)

Quiet == UNCHANGED <<database, cache, calls, isSaving, mounted, editor, unsettled>>

\* setMessages, and the effect that persists what is on screen.
Show(k, msgs) == messages' = msgs /\ saved' = [saved EXCEPT ![k] = msgs]
Forget == rereading' = FALSE /\ read' = {}
Revise(id, text) == {IF m.id = id THEN [m EXCEPT !.text = text] ELSE m : m \in messages}

SendMessage ==
    /\ Act /\ ~isStreaming /\ sent < MaxStreams
    /\ sent' = sent + 1 /\ cancel' = sent + 1
    /\ Show(mode, messages \cup {[id |-> sent + 1, key |-> mode, text |-> ""]})
    /\ isStreaming' = TRUE /\ streams' = streams \cup {[id |-> sent + 1, st |-> "open"]}
    /\ Forget /\ UNCHANGED mode /\ UNCHANGED applier /\ Quiet

\* Events of a stream; after its cancellation there are none.  What they add is
\* put on top of what is being read.
Event(s) ==
    /\ Calm /\ ~rereading /\ s \in streams
    /\ UNCHANGED <<rereading, read, mode, cancel, sent, acts, faults>> /\ UNCHANGED applier /\ Quiet

Chunk(s) ==
    /\ Event(s) /\ s.st = "open"
    /\ [id |-> s.id, key |-> mode, text |-> ""] \in messages
    /\ Show(mode, Revise(s.id, "reply")) /\ UNCHANGED <<isStreaming, streams>>

Done(s) ==
    /\ Event(s) /\ s.st = "open"
    /\ isStreaming' = FALSE /\ streams' = (streams \ {s}) \cup {[s EXCEPT !.st = "done"]}
    /\ UNCHANGED <<messages, saved>>

ErrorEvent(s) ==
    /\ Event(s) /\ s.st = "open"
    /\ isStreaming' = FALSE /\ streams' = (streams \ {s}) \cup {[s EXCEPT !.st = "done"]}
    /\ Show(mode, Revise(s.id, "error"))

OnError(s) ==
    /\ Event(s)
    /\ isStreaming' = FALSE /\ streams' = streams \ {s}
    /\ Show(mode, {IF m.id = s.id /\ m.text = "" THEN [m EXCEPT !.text = "error"] ELSE m : m \in messages})

OnClose(s) == Event(s) /\ isStreaming' = FALSE /\ streams' = streams \ {s} /\ UNCHANGED <<messages, saved>>

\* cancelStreamRef knows the latest stream only.
Cancelled == {s \in streams : s.id # cancel}
Hush == cancel' = 0 /\ streams' = Cancelled /\ isStreaming' = FALSE

StopGeneration ==
    /\ Act /\ isStreaming
    /\ Hush /\ UNCHANGED <<messages, saved, rereading, read, mode, sent>> /\ UNCHANGED applier /\ Quiet

ClearChat == Act /\ Hush /\ Show(mode, {}) /\ Forget /\ UNCHANGED <<mode, sent>> /\ UNCHANGED applier /\ Quiet

\* Mutant: the new key is written before it is read.
KeyEffects_WriteFirst(k) ==
    /\ rereading' = TRUE /\ read' = messages
    /\ saved' = [saved EXCEPT ![k] = messages] /\ UNCHANGED messages

\* setMode(scenario.mode) changes the storage key under a mounted sidebar.  Of
\* the two effects of that render the first reads the new key and asks for a
\* render with what it found, the second writes what is still on screen there.
KeyEffects(k) ==
    /\ rereading' = TRUE /\ read' = saved[k]
    /\ saved' = [saved EXCEPT ![k] = messages] /\ UNCHANGED messages

SetMode ==
    /\ mounted /\ mode = "newbie"
    /\ mode' = "master" /\ KeyEffects("master") /\ Hush
    /\ UNCHANGED <<sent, acts, faults>> /\ UNCHANGED applier /\ Quiet

\* The render that follows, and the effect that persists what it shows.
Rerender ==
    /\ rereading /\ Forget /\ Show(mode, read)
    /\ UNCHANGED <<mode, isStreaming, streams, cancel, sent, acts, faults>> /\ UNCHANGED applier /\ Quiet

-----------------------------------------------------------------------------
(* Leaving the page drops every component's state, the autosave timer         *)
(* included; the query client and what is in flight stay.  Other scenarios may *)
(* be opened in between, which changes the mode of the studio store.           *)

Leave ==
    /\ Act /\ Room
    /\ mounted' = FALSE /\ timer' = FALSE
    /\ calls' = {[c EXCEPT !.last = FALSE, !.task = 0] : c \in calls}
    /\ tasks' = [t \in 1..MaxTasks |-> Free] /\ temp' = [t \in Args("entity") |-> 0]
    /\ applied' = {} /\ reported' = {}
    /\ messages' = {} /\ Forget /\ isStreaming' = FALSE /\ cancel' = 0 /\ streams' = {}
    /\ mode' \in Modes /\ unsettled' = (unsettled \/ form # db.scene)
    /\ UNCHANGED <<database, cache, isSaving, form, synced, saved, sent>>

\* The cached scenario is shown at once and fetched again when it is stale.
Open(stale) ==
    /\ ~mounted /\ mounted' = TRUE
    /\ form' = cache.scene /\ synced' = cache.scene /\ timer' = FALSE
    /\ messages' = saved[mode]
    /\ IF stale THEN Mutate("fetch", 0, <<0, 0>>, Change) ELSE UNCHANGED <<calls, isSaving, unsettled>>
    /\ UNCHANGED <<database, cache, applier, saved, rereading, read, mode, isStreaming, streams, cancel, sent, acts, faults>>

-----------------------------------------------------------------------------
EditorStep == AutoSave \/ HandleSave \/ \E text \in Texts : Edit(text)

CallStep == \E c \in calls : ServeCall(c) \/ Fail(c) \/ Answer(c)

ApplierStep ==
    \E t \in 1..MaxTasks :
        \/ NextBlock(t) \/ Finish(t)
        \/ \E m \in 0..MaxStreams : ApplyAll(t, m) \/ \E i \in DOMAIN Reply : ApplyBlock(t, m, i)

StreamEvents == \E s \in streams : Chunk(s) \/ Done(s) \/ ErrorEvent(s) \/ OnError(s) \/ OnClose(s)

ChatStep == SendMessage \/ StreamEvents \/ StopGeneration \/ ClearChat \/ SetMode \/ Rerender

PageStep == Leave \/ \E stale \in BOOLEAN : Open(stale)

StudioNext == EditorStep \/ CallStep \/ ApplierStep \/ ChatStep \/ PageStep

\* Timers fire, the service answers or the client gives up, continuations and
\* renders run, a stream ends.
StudioFairness ==
    /\ WF_studioVars(SetMode) /\ WF_studioVars(Rerender) /\ WF_studioVars(AutoSave)
    /\ WF_studioVars(CallStep) /\ WF_studioVars(StreamEvents)
    /\ \A t \in 1..MaxTasks : WF_studioVars(NextBlock(t) \/ Finish(t))

StudioSpec == StudioInit /\ [][StudioNext]_studioVars /\ StudioFairness

-----------------------------------------------------------------------------
Message == [id : 0..MaxStreams, key : Modes, text : {"", "reply", "error"}]

(* Every variable keeps its type, every call its own identity, and the        *)
(* autosave timer runs only for an editor that shows something unsaved.       *)
StudioTypeOK ==
    /\ db.scene \in Scenes /\ db.schema \subseteq Args("state_field") /\ db.made \in Nat
    /\ db.left \subseteq 1..db.made /\ wrote \subseteq Cards
    /\ cache.scene \in Scenes /\ cache.schema \subseteq Args("state_field")
    /\ \A c \in calls : c.n \in Nat /\ c.st \in {"sent", "ok", "no"} /\ c.task \in 0..MaxTasks
    /\ \A c, d \in calls : c.n = d.n => c = d
    /\ isSaving \in BOOLEAN /\ mounted \in BOOLEAN
    /\ form \in Scenes /\ synced \in Scenes
    /\ timer \in BOOLEAN /\ (timer => mounted /\ form # cache.scene)
    /\ temp \in [Args("entity") -> Nat]
    /\ \A t \in 1..MaxTasks : tasks[t].st \in {"free", "ready", "waiting"}
    /\ applied \subseteq Cards /\ \A r \in reported : r.card \in Cards
    /\ messages \subseteq Message /\ rereading \in BOOLEAN /\ read \subseteq Message /\ \A k \in Modes : saved[k] \subseteq Message
    /\ mode \in Modes /\ isStreaming \in BOOLEAN /\ cancel \in 0..MaxStreams /\ sent \in 0..MaxStreams
    /\ acts \in 0..MaxActs /\ faults \in 0..MaxFaults /\ unsettled \in BOOLEAN

\* "Apply All" works out the order: a fact of the batch is refused for an entity
\* that "hasn't been created yet" only when one that it names is an entity of no
\* card, or one whose own suggestion was refused.
UnresolvedMeansRefused ==
    \A r \in reported : r.why = "unresolved" /\ r.all =>
        \E ref \in Refs(r.card[2]) : \A i \in Targets("entity") :
            Reply[i].arg = ref => [card |-> <<r.card[1], i>>, why |-> "refused", all |-> TRUE] \in reported

\* A card that the applier supports is marked as applied only when the service
\* did what it says or the chat said that it failed.  A card of any other target
\* (lore, conflict, minigame) is marked although nothing was done and nothing
\* said: applyBlock resolves for it and the sidebar marks what has resolved.
AppliedOrReported ==
    StudioTypeOK /\ \A c \in applied :
        Reply[c[2]].target \in Supported => c \in wrote \/ \E r \in reported : r.card = c

\* The supported cards of a reply: what is marked as applied was done or reported,
\* and what "Apply All" refused for a missing entity had its creation refused.
CardsAnswered == AppliedOrReported /\ UnresolvedMeansRefused

\* What a key holds; while a new key is being read that is what was read, which
\* the render that follows writes back over the conversation on screen.
Held(k) == IF k = mode /\ rereading THEN read ELSE saved[k]
SameMessage(m, n) == m.id = n.id /\ m.key = n.key

\* The page is left, or a message sent, between the effects and that render.
Torn(k) == k = mode /\ rereading /\ (~mounted' \/ sent' # sent)

\* No step brings a message of another conversation under a key, and none takes
\* one away but by clearing.  Another conversation lies under the new key between
\* the effects of a change of mode and the render that follows them, and stays
\* there, in place of the one that was read, only if Torn.
ChatKept ==
    [][\A k \in Modes :
          \/ /\ \A m \in Held(k)' : m.key = k \/ \E n \in Held(k) : SameMessage(m, n)
             /\ \A m \in Held(k) : (\E n \in Held(k)' : SameMessage(m, n)) \/ (k = mode /\ Held(k)' = {} /\ cancel' = 0)
          \/ Torn(k)]_studioVars

\* An editor without unsaved edits follows every change of the scenario that
\* comes from somewhere else.
FollowsScenario == [][mounted /\ mounted' /\ form = cache.scene => form' = cache'.scene \/ cache' = cache]_studioVars

\* What the user typed is saved without a click, as long as no save fails, no
\* other call on the scenario overlaps it and the page stays.
EditsSaved == (mounted /\ form # db.scene) ~> (form = db.scene \/ unsettled)

\* The editor neither shows an old text nor keeps a new one to itself.
EditorFaithful == FollowsScenario /\ EditsSaved

\* An application ends, unless another one overtakes it on the same hook.
ApplicationsEnd == \A t \in 1..MaxTasks : tasks[t].st # "free" ~> tasks[t].st = "free"

\* "Merges a state_field suggestion into the existing state_schema": what the
\* service took stays.
FieldsKept == \A c \in wrote : Reply[c[2]].target = "state_field" => Reply[c[2]].arg \in db.schema

\* "Reconciles cleanly once the user's own save lands in the server value": the
\* answer to a save of the editor does not change what it shows.
NoClobber == [][\A c \in calls \ calls' : c.hook = "editor" /\ mounted' => form' = form]_studioVars
=============================================================================
