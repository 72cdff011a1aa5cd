------------------------------ MODULE MasterTurn ------------------------------
(***************************************************************************)
(* What a master-mode turn does to the game state: the intake              *)
(* (minigame_result_resolver, condition_evaluator), the tool calls of the  *)
(* narrator (ai_orchestrator, tool_handler, state_validator), the map      *)
(* sync, the minigame trigger, the write and the end conditions.  One      *)
(* player submits one turn at a time; how submissions race for the row is  *)
(* TurnPipeline's subject, whose abstract "work" this module opens up.     *)
(*                                                                         *)
(* The state is read through paths, so it is a function of the paths its   *)
(* schemas define, with None for what is missing.  The contents of a       *)
(* field are integers, whatever its type; a list is one such content.      *)
(***************************************************************************)
EXTENDS ConditionGrammar

CONSTANTS
  Fields,     \* the paths of state_schema and of the entities' attributes
  Location,   \* the path current_location_id
  Values,     \* what the narrator's tool calls propose
  Tags,       \* the outcomes of a minigame: win, lose or a tier, timeout
  Snapshots,  \* the scenario snapshots a playthrough may be started from, by name
  MaxRoundTrips,  \* settings.tool_call_max_round_trips
  MaxCalls        \* bound: function calls in one response

ASSUME FieldsAssumption == Location \in Fields /\ None \notin Int /\ Values \subseteq Int
ASSUME BoundsAssumption == MaxRoundTrips \in Nat /\ MaxCalls \in Nat \ {0}

(* StateMutation of core-api: a condition or an outcome carries at most one;  *)
(* a decrement adds the opposite                                              *)
Carries(ms) ==
  /\ \A m, n \in ms : m = n
  /\ \A m \in ms : m.path \in Fields /\ m.op \in {"set", "add"} /\ m.value \in Int

(* What core-api makes sure of when it stores and snapshots a scenario: the  *)
(* expressions name known paths, Effect C does not touch the reserved ones,  *)
(* and any name is a place.                                                  *)
WellFormed(snap) ==
  /\ \A f \in Fields :
       snap.schema[f].legal \subseteq Int /\ snap.schema[f].initial \in Int \cup {None}
  /\ snap.schema[Location].initial = None
  /\ snap.start \in snap.schema[Location].legal \cup {None}
  /\ Len(snap.conditions) \in Nat /\ DOMAIN snap.conditions = 1..Len(snap.conditions)
  /\ \A i \in DOMAIN snap.conditions :
       /\ Paths(snap.conditions[i].when) \subseteq Fields
       /\ Carries(snap.conditions[i].effect)
       /\ \A m \in snap.conditions[i].effect : m.path # Location
  /\ DOMAIN snap.minigames \subseteq Nat \ {0}
  /\ \A k \in DOMAIN snap.minigames, tag \in Tags : Carries(snap.minigames[k].outcome[tag])

ASSUME SnapshotsAssumption == \A name \in DOMAIN Snapshots : WellFormed(Snapshots[name])

VARIABLES
  snapshot,  \* playthroughs.scenario_snapshot, frozen when the playthrough starts
  store,     \* playthroughs.state, turn_count > 0, status
  pc,        \* where the turn is
  work,      \* the state of the turn under way
  next,      \* the condition to look at
  from,      \* current_location_id after the intake
  rounds,    \* round trips to the narrator
  calls      \* function calls of the last response still to be handled

vars == <<snapshot, store, pc, work, next, from, rounds, calls>>

NoMinigame == 0
PendingPath == "_pending_minigame"
DiscoveredPath == "discovered_location_ids"

Snapshot == Snapshots[snapshot]

Def(f) == Snapshot.schema[f]

-----------------------------------------------------------------------------
(* playthrough_service._build_initial_state: nothing but the start pin *)
StartState == [f \in Fields |-> IF f = Location THEN Snapshot.start ELSE None]

(* _active_conditions, _last_changed_fields and _pending_minigame of the     *)
(* state are fields of their own.  "filled" is history: the paths whose      *)
(* content came from a default and was never recorded as a change.           *)
Start ==
  [state |-> StartState, active |-> {}, changed |-> {}, filled |-> {},
   discovered |-> {Snapshot.start} \ {None}, pending |-> NoMinigame,
   played |-> FALSE, status |-> "active"]

(* what a turn starts from *)
Loaded(st) ==
  [state |-> st.state, active |-> {}, changed |-> {}, filled |-> st.filled,
   discovered |-> st.discovered, pending |-> st.pending]

Init ==
  /\ snapshot \in DOMAIN Snapshots
  /\ store = Start
  /\ pc = "idle"
  /\ work = Loaded(store)
  /\ next = 1 /\ from = None /\ rounds = 0 /\ calls = 0

(* the turn is over, or lost: what it had worked out is gone *)
Reset ==
  /\ pc' = "idle"
  /\ work' = Loaded(store')
  /\ next' = 1 /\ from' = None /\ rounds' = 0 /\ calls' = 0

-----------------------------------------------------------------------------
(* state_validator.  The model of the mutated group (the top level, or one   *)
(* entity) checks what is present and fills in the defaults, which it does   *)
(* not check; every rule is evaluated on the result.                         *)

SameGroup(p) == {f \in Fields : Def(f).group = Def(p).group}

WellTyped(s, p) == \A f \in SameGroup(p) : s[f] # None => s[f] \in Def(f).legal

Coerced(s, p) ==
  [f \in Fields |-> IF f \in SameGroup(p) /\ s[f] = None THEN Def(f).initial ELSE s[f]]

RulesHold_OfPath(s, p) == \A r \in Snapshot.rules : p \in Paths(r) => Holds(r, s)

RulesHold(s, p) == \A r \in Snapshot.rules : Holds(r, s)

(* _validate_and_finalize, of the candidate s in which p was changed *)
Accepts(s, p) == WellTyped(s, p) /\ RulesHold(Coerced(s, p), p)

(* the accepted candidate replaces the state; p is recorded, defaults are not *)
Accepted(w, s, p) ==
  [w EXCEPT !.state = Coerced(s, p),
            !.changed = @ \cup {p},
            !.filled = (@ \cup {f \in Fields : s[f] = None /\ Coerced(s, p)[f] # None}) \ {p}]

(* state_paths.apply_mutation: arithmetic starts from 0 where nothing is; on a *)
(* text it raises, and the number it makes of a missing text is refused        *)
Raises(s, m) == m.op = "add" /\ Def(m.path).kind = "text" /\ s[m.path] # None

Applied(s, m) ==
  LET base == IF s[m.path] = None THEN 0 ELSE s[m.path] IN
  [s EXCEPT ![m.path] = IF m.op = "set" THEN m.value ELSE base + m.value]

Admits(s, m) ==
  /\ m.op = "add" => Def(m.path).kind = "number"
  /\ Accepts(Applied(s, m), m.path)

(* Effect C, or the outcome of a minigame: refused, the state stays as it was *)
Effect(w, ms) ==
  IF \E m \in ms : Admits(w.state, m)
  THEN LET m == CHOOSE m \in ms : TRUE IN Accepted(w, Applied(w.state, m), m.path)
  ELSE w

-----------------------------------------------------------------------------
(* The intake: a narrative action, or the result of the pending minigame. *)

Submit ==
  /\ pc = "idle" /\ store.status = "active"
  /\ store.pending = NoMinigame
  /\ pc' = "intake"
  /\ UNCHANGED <<snapshot, store, work, next, from, rounds, calls>>

(* resolve_result; a mutation that raises ends the turn before anything is  *)
(* written, which leaves everything as it is: no step.                      *)
SubmitResult(tag) ==
  LET ms == Snapshot.minigames[store.pending].outcome[tag]
      popped == [work EXCEPT !.pending = NoMinigame]
  IN /\ pc = "idle" /\ store.status = "active"
     /\ store.pending # NoMinigame
     /\ \A m \in ms : ~Raises(popped.state, m)
     /\ work' = Effect(popped, ms)
     /\ pc' = "intake"
     /\ UNCHANGED <<snapshot, store, next, from, rounds, calls>>

Condition == Snapshot.conditions[next]

Skips_ForgetActive(i) ==
  /\ store.played /\ store.changed # {}
  /\ Paths(Snapshot.conditions[i].when) \cap store.changed = {}

(* _should_skip: the paths are those the last turn that changed any recorded *)
Skips(i) ==
  /\ store.played /\ store.changed # {}
  /\ i \notin store.active
  /\ Paths(Snapshot.conditions[i].when) \cap store.changed = {}

AtCondition == pc = "intake" /\ next <= Len(Snapshot.conditions)

PassCondition ==
  /\ AtCondition
  /\ Skips(next) \/ ~Holds(Condition.when, work.state)
  /\ next' = next + 1
  /\ UNCHANGED <<snapshot, store, pc, work, from, rounds, calls>>

Fires == AtCondition /\ ~Skips(next) /\ Holds(Condition.when, work.state)

FireCondition ==
  /\ Fires
  /\ \A m \in Condition.effect : ~Raises(work.state, m)
  /\ work' = Effect([work EXCEPT !.active = @ \cup {next}], Condition.effect)
  /\ next' = next + 1
  /\ UNCHANGED <<snapshot, store, pc, from, rounds, calls>>

EffectRaises ==
  /\ Fires
  /\ \E m \in Condition.effect : Raises(work.state, m)
  /\ UNCHANGED <<snapshot, store>>
  /\ Reset

(* _evaluate_master_mode_intake is over: this is the state the narrator sees *)
IntakeDone ==
  /\ pc = "intake" /\ next > Len(Snapshot.conditions)
  /\ pc' = "narrator"
  /\ from' = work.state[Location]
  /\ UNCHANGED <<snapshot, store, work, next, rounds, calls>>

-----------------------------------------------------------------------------
(* _generate_master_mode: a response is a text, or function calls that are   *)
(* answered together; once the round trips are used up no tools are offered. *)

ToolsOffered == rounds < MaxRoundTrips

CallTools(n) ==
  /\ pc = "narrator" /\ ToolsOffered
  /\ pc' = "tools"
  /\ calls' = n
  /\ UNCHANGED <<snapshot, store, work, next, from, rounds>>

(* set_field, adjust_numeric_field and add_inventory_item propose a content  *)
(* for a path that the schemas define and that is neither derived nor        *)
(* reserved                                                                  *)
MutateAccepted(f, v) ==
  LET s == [work.state EXCEPT ![f] = v]
  IN /\ pc = "tools" /\ calls > 0
     /\ Def(f).settable
     /\ Accepts(s, f)
     /\ work' = Accepted(work, s, f)
     /\ calls' = calls - 1
     /\ UNCHANGED <<snapshot, store, pc, next, from, rounds>>

(* a refused call, answered with the reason, and roll_dice *)
CallWithoutEffect ==
  /\ pc = "tools" /\ calls > 0
  /\ calls' = calls - 1
  /\ UNCHANGED <<snapshot, store, pc, work, next, from, rounds>>

RoundsAfter_Accepted == IF work.changed = {} THEN rounds ELSE rounds + 1

RoundsAfter == rounds + 1

CallsAnswered ==
  /\ pc = "tools" /\ calls = 0
  /\ pc' = "narrator"
  /\ rounds' = RoundsAfter
  /\ UNCHANGED <<snapshot, store, work, next, from, calls>>

Narrate ==
  /\ pc = "narrator"
  /\ pc' = "narrated"
  /\ UNCHANGED <<snapshot, store, work, next, from, rounds, calls>>

-----------------------------------------------------------------------------
(* After the text: map_state_sync, minigame_trigger_evaluator, state_writer, *)
(* end_condition_evaluator.                                                  *)

(* the state before is the one after the intake *)
Moved(w) == w.state[Location] \notin {None, from}

Synced(w) ==
  IF Snapshot.maps /\ Moved(w) /\ w.state[Location] \notin w.discovered
  THEN [w EXCEPT !.discovered = @ \cup {w.state[Location]}, !.changed = @ \cup {DiscoveredPath}]
  ELSE w

Triggered_OnStored(w, k) ==
  /\ w.pending = NoMinigame
  /\ k \in DOMAIN Snapshot.minigames
  /\ Holds(Snapshot.minigames[k].trigger, store.state)
  /\ \A j \in 1..k - 1 : ~Holds(Snapshot.minigames[j].trigger, store.state)

(* the minigames are in the order of their priority: the first match wins *)
Triggered(w, k) ==
  /\ w.pending = NoMinigame
  /\ k \in DOMAIN Snapshot.minigames
  /\ Holds(Snapshot.minigames[k].trigger, w.state)
  /\ \A j \in 1..k - 1 : ~Holds(Snapshot.minigames[j].trigger, w.state)

Settle ==
  /\ pc = "narrated"
  /\ \A k \in DOMAIN Snapshot.minigames : ~Triggered(work, k)
  /\ work' = Synced(work)
  /\ pc' = "writing"
  /\ UNCHANGED <<snapshot, store, next, from, rounds, calls>>

(* _stamp_pending_minigame *)
SettleAndTrigger(k) ==
  /\ pc = "narrated"
  /\ Triggered(work, k)
  /\ work' = [Synced(work) EXCEPT !.pending = k, !.changed = @ \cup {PendingPath}]
  /\ pc' = "writing"
  /\ UNCHANGED <<snapshot, store, next, from, rounds, calls>>

(* write_turn: a turn that changed nothing leaves _last_changed_fields alone *)
Written(w) ==
  [store EXCEPT !.state = w.state, !.active = w.active, !.filled = w.filled,
                !.discovered = w.discovered, !.pending = w.pending,
                !.changed = IF w.changed = {} THEN @ ELSE w.changed,
                !.played = TRUE]

Write ==
  /\ pc = "writing"
  /\ store' = Written(work)
  /\ pc' = "written"
  /\ UNCHANGED <<snapshot, work, next, from, rounds, calls>>

EndConditionHolds == \E e \in Snapshot.endings : Holds(e, store.state)

(* the end conditions are not looked at when a minigame was just triggered *)
EvaluateEndings ==
  /\ pc = "written"
  /\ store' = IF store.pending = NoMinigame /\ EndConditionHolds THEN [store EXCEPT !.status = "completed"] ELSE store
  /\ Reset
  /\ UNCHANGED snapshot

(* Gemini stays unavailable, the write fails or conflicts, the client leaves, *)
(* the process dies: what was not written is gone.                            *)
TurnLost ==
  /\ pc # "idle"
  /\ UNCHANGED <<snapshot, store>>
  /\ Reset

-----------------------------------------------------------------------------
Intake == PassCondition \/ FireCondition \/ EffectRaises \/ IntakeDone

Tools ==
  \/ \E n \in 1..MaxCalls : CallTools(n)
  \/ \E f \in Fields, v \in Values : MutateAccepted(f, v)
  \/ CallWithoutEffect
  \/ CallsAnswered

Aftermath ==
  \/ Settle
  \/ \E k \in DOMAIN Snapshot.minigames : SettleAndTrigger(k)
  \/ Write
  \/ EvaluateEndings

Progress == Intake \/ Tools \/ Narrate \/ Aftermath

Next == Submit \/ (\E tag \in Tags : SubmitResult(tag)) \/ Progress \/ TurnLost

Spec == Init /\ [][Next]_vars

(* the coroutine runs on: every await of a turn returns or raises *)
FairSpec == Spec /\ WF_vars(Progress)

-----------------------------------------------------------------------------
Contents == Int \cup {None}
Steps == {"idle", "intake", "narrator", "tools", "narrated", "writing", "written"}
AllPaths == Fields \cup {PendingPath, DiscoveredPath}

GameState ==
  [state : [Fields -> Contents], active : SUBSET Nat, changed : SUBSET AllPaths,
   filled : SUBSET Fields, discovered : SUBSET Int, pending : Nat]

Stored ==
  [state : [Fields -> Contents], active : SUBSET Nat, changed : SUBSET AllPaths,
   filled : SUBSET Fields, discovered : SUBSET Int, pending : Nat,
   played : BOOLEAN, status : {"active", "completed"}]

TypeOK ==
  /\ snapshot \in DOMAIN Snapshots
  /\ store \in Stored
  /\ work \in GameState
  /\ pc \in Steps
  /\ next \in Nat \ {0} /\ from \in Contents /\ rounds \in Nat /\ calls \in Nat

(* A stored pending minigame is one whose trigger holds in the stored state, *)
(* and a completed playthrough is in one of its endings and waits for no     *)
(* minigame.                                                                 *)
PendingIsTriggered ==
  store.pending # NoMinigame =>
    /\ store.pending \in DOMAIN Snapshot.minigames
    /\ Holds(Snapshot.minigames[store.pending].trigger, store.state)

EndedByItsState ==
  store.status = "completed" => store.pending = NoMinigame /\ EndConditionHolds

(* The place the player is at was discovered, unless an outcome of a minigame *)
(* may have moved the player (the sync does not see what the intake does).    *)
OutcomesMove ==
  \E k \in DOMAIN Snapshot.minigames, tag \in Tags :
    \E m \in Snapshot.minigames[k].outcome[tag] : m.path = Location

LocationDiscovered ==
  Snapshot.maps /\ ~OutcomesMove => store.state[Location] \in store.discovered \cup {None}

WorldSound == TypeOK /\ PendingIsTriggered /\ EndedByItsState /\ LocationDiscovered

(* a state that obeys every rule of its world and every range *)
Lawful(s) ==
  /\ \A r \in Snapshot.rules : Holds(r, s)
  /\ \A f \in Fields : s[f] \in Def(f).legal \cup {None, Def(f).initial}

(* The stored state is the one the playthrough started with, or it obeys     *)
(* every rule of its world and every range, whichever conditions, minigames  *)
(* and tool calls of however many turns brought it about.                    *)
RulesKept == store.state = StartState \/ Lawful(store.state)

(* Skipping conditions whose fields did not change loses none: a condition    *)
(* that is true in the stored state, and not because of a default, was active *)
(* in the last turn or will be looked at in the next one.                     *)
TrueIsScheduled ==
  \A i \in DOMAIN Snapshot.conditions :
    LET e == Snapshot.conditions[i].when IN
    Holds(e, store.state) /\ Paths(e) \cap store.filled = {} =>
      \/ i \in store.active
      \/ ~store.played \/ store.changed = {}
      \/ Paths(e) \cap store.changed # {}

(* Whatever the narrator calls, every turn ends. *)
TurnEnds == pc # "idle" ~> pc = "idle"
=============================================================================
