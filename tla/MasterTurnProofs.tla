--------------------------- MODULE MasterTurnProofs ---------------------------
(***************************************************************************)
(* MasterTurn keeps its invariants for every set of paths, every snapshot  *)
(* core-api lets through, every proposal of the narrator and every bound.  *)
(* The expressions stay closed: all that is used of them is that their     *)
(* truth depends on the paths they name (Holds).                           *)
(***************************************************************************)
EXTENDS MasterTurn, TLAPS

Condit(i) == Snapshot.conditions[i].when

LawfulOrNew(s) == s = StartState \/ Lawful(s)

(* what a turn under way differs in from what is stored is on record *)
Tracked(w) ==
  /\ \A f \in Fields : w.state[f] # store.state[f] => f \in w.changed \cup w.filled
  /\ store.filled \subseteq w.filled \cup w.changed

(* condition i needs no second look in this turn: it is active, or false, or *)
(* its paths are on record                                                   *)
Settled(w, i) ==
  Holds(Condit(i), w.state) =>
    i \in w.active \/ Paths(Condit(i)) \cap (w.changed \cup w.filled) # {}

Known(k) == k \in {NoMinigame} \cup DOMAIN Snapshot.minigames

Sound(w) == w \in GameState /\ LawfulOrNew(w.state) /\ Tracked(w) /\ Known(w.pending)

SnapshotOK == snapshot \in DOMAIN Snapshots

(* The facts of a well-formed snapshot, under the names of this module. *)
LEMMA SnapshotFacts ==
  ASSUME SnapshotOK
  PROVE  /\ \A f \in Fields : Def(f).legal \subseteq Int /\ Def(f).initial \in Contents
         /\ Def(Location).initial = None
         /\ Snapshot.start \in Def(Location).legal \cup {None}
         /\ Len(Snapshot.conditions) \in Nat
         /\ DOMAIN Snapshot.conditions = 1..Len(Snapshot.conditions)
         /\ \A i \in DOMAIN Snapshot.conditions :
              /\ Paths(Condit(i)) \subseteq Fields
              /\ Carries(Snapshot.conditions[i].effect)
              /\ \A m \in Snapshot.conditions[i].effect : m.path # Location
         /\ DOMAIN Snapshot.minigames \subseteq Nat \ {0}
         /\ \A k \in DOMAIN Snapshot.minigames, tag \in Tags :
              Carries(Snapshot.minigames[k].outcome[tag])
BY SnapshotsAssumption DEF SnapshotOK, WellFormed, Snapshot, Def, Contents, Condit

(* An expression is true or false by the paths it names. *)
LEMMA HoldsByPaths ==
  ASSUME NEW e, NEW s, NEW t, \A f \in Paths(e) : s[f] = t[f]
  PROVE  Holds(e, s) <=> Holds(e, t)
<1>1. [f \in Paths(e) |-> s[f]] = [f \in Paths(e) |-> t[f]]
  OBVIOUS
<1>2. QED BY <1>1 DEF Holds

LEMMA CoercedType ==
  ASSUME SnapshotOK, NEW p \in Fields, NEW s \in [Fields -> Contents]
  PROVE  /\ Coerced(s, p) \in [Fields -> Contents]
         /\ \A f \in Fields : s[f] # None => Coerced(s, p)[f] = s[f]
         /\ s[Location] = None => Coerced(s, p)[Location] = None
BY SnapshotFacts, FieldsAssumption DEF Coerced

LEMMA StartIsInRange ==
  ASSUME SnapshotOK
  PROVE  /\ StartState \in [Fields -> Contents]
         /\ \A f \in Fields : StartState[f] \in Def(f).legal \cup {None, Def(f).initial}
BY SnapshotFacts, FieldsAssumption DEF StartState, Contents

(* What the validator accepts is lawful: the ranges of the group were        *)
(* checked, those of the other fields were before.                           *)
LEMMA AcceptedIsLawful ==
  ASSUME SnapshotOK, NEW s \in [Fields -> Contents], LawfulOrNew(s),
         NEW p \in Fields, NEW v \in Int, Accepts([s EXCEPT ![p] = v], p)
  PROVE  Lawful(Coerced([s EXCEPT ![p] = v], p))
<1> DEFINE t == [s EXCEPT ![p] = v]
<1>1. t \in [Fields -> Contents] /\ \A f \in Fields \ {p} : t[f] = s[f]
  BY DEF Contents
<1>2. \A f \in Fields : s[f] \in Def(f).legal \cup {None, Def(f).initial}
  BY StartIsInRange DEF LawfulOrNew, Lawful
<1>3. ASSUME NEW f \in Fields
      PROVE  Coerced(t, p)[f] \in Def(f).legal \cup {None, Def(f).initial}
  <2>1. CASE f \in SameGroup(p)
    BY <2>1, <1>1 DEF Coerced, Accepts, WellTyped
  <2>2. CASE f \notin SameGroup(p)
    <3>1. f # p
      BY <2>2 DEF SameGroup
    <3>2. QED BY <2>2, <3>1, <1>1, <1>2 DEF Coerced
  <2>3. QED BY <2>1, <2>2
<1>4. \A r \in Snapshot.rules : Holds(r, Coerced(t, p))
  BY DEF Accepts, RulesHold
<1>5. QED BY <1>3, <1>4 DEF Lawful

(* An accepted mutation keeps the record complete. *)
LEMMA AcceptedIsSound ==
  ASSUME SnapshotOK, NEW w, Sound(w), store \in Stored,
         NEW p \in Fields, NEW v \in Int,
         Accepts([w.state EXCEPT ![p] = v], p)
  PROVE  LET a == Accepted(w, [w.state EXCEPT ![p] = v], p)
         IN /\ Sound(a)
            /\ \A i \in DOMAIN Snapshot.conditions : Settled(w, i) => Settled(a, i)
            /\ a.active = w.active /\ a.discovered = w.discovered /\ a.pending = w.pending
            /\ p # Location => a.state[Location] = w.state[Location]
<1> DEFINE t == [w.state EXCEPT ![p] = v]
           a == Accepted(w, t, p)
           fresh == {f \in Fields : t[f] = None /\ Coerced(t, p)[f] # None}
<1>1. w.state \in [Fields -> Contents] /\ w.changed \subseteq AllPaths /\ w.filled \subseteq Fields
  BY DEF Sound, GameState
<1>2. t \in [Fields -> Contents] /\ t[p] = v /\ \A f \in Fields \ {p} : t[f] = w.state[f]
  BY <1>1 DEF Contents
<1>3. /\ a.state = Coerced(t, p) /\ a.changed = w.changed \cup {p}
      /\ a.filled = (w.filled \cup fresh) \ {p}
      /\ a.active = w.active /\ a.discovered = w.discovered /\ a.pending = w.pending
  BY DEF Accepted, Sound, GameState
<1>4. a \in GameState
  <2>1. Coerced(t, p) \in [Fields -> Contents]
    BY <1>2, CoercedType
  <2>2. w.changed \cup {p} \in SUBSET AllPaths /\ (w.filled \cup fresh) \ {p} \in SUBSET Fields
    BY <1>1 DEF AllPaths
  <2> HIDE DEF t, fresh
  <2>3. QED BY <2>1, <2>2 DEF Accepted, Sound, GameState, fresh
<1>5. \A f \in Fields : a.state[f] # w.state[f] => f \in {p} \cup fresh
  <2>1. \A f \in Fields : t[f] # None => Coerced(t, p)[f] = t[f]
    BY <1>2, CoercedType
  <2> HIDE DEF a, t
  <2>2. QED BY <2>1, <1>2, <1>3
<1>6. w.changed \cup w.filled \cup {p} \cup fresh \subseteq a.changed \cup a.filled
  BY <1>3
<1>7. Tracked(a)
  <2> HIDE DEF a, fresh
  <2>1. QED BY <1>3, <1>5, <1>6 DEF Tracked, Sound
<1>8. LawfulOrNew(a.state)
  BY <1>1, <1>3, AcceptedIsLawful DEF LawfulOrNew, Sound
<1>9. ASSUME NEW i \in DOMAIN Snapshot.conditions, Settled(w, i) PROVE Settled(a, i)
  <2> DEFINE e == Condit(i)
  <2>0. Paths(e) \subseteq Fields
    BY SnapshotFacts
  <2> HIDE DEF a, fresh, e
  <2>1. CASE Paths(e) \cap ({p} \cup fresh) # {}
    BY <2>1, <1>6 DEF Settled, e
  <2>2. CASE Paths(e) \cap ({p} \cup fresh) = {}
    <3>1. \A f \in Paths(e) : a.state[f] = w.state[f]
      BY <2>0, <2>2, <1>5
    <3>2. Holds(e, a.state) <=> Holds(e, w.state)
      BY <3>1, HoldsByPaths
    <3>3. QED BY <1>9, <3>2, <1>3, <1>6 DEF Settled, e
  <2>3. QED BY <2>1, <2>2
<1>10. p # Location => a.state[Location] = w.state[Location]
  BY <1>2, <1>3, CoercedType, FieldsAssumption
<1>11. QED BY <1>3, <1>4, <1>7, <1>8, <1>9, <1>10 DEF Sound

(* Effect C and the outcomes change nothing, or as an accepted mutation does. *)
LEMMA EffectIsSound ==
  ASSUME SnapshotOK, NEW w, Sound(w), store \in Stored, NEW ms, Carries(ms)
  PROVE  LET a == Effect(w, ms)
         IN /\ Sound(a)
            /\ \A i \in DOMAIN Snapshot.conditions : Settled(w, i) => Settled(a, i)
            /\ a.active = w.active /\ a.discovered = w.discovered /\ a.pending = w.pending
            /\ (\A m \in ms : m.path # Location) => a.state[Location] = w.state[Location]
<1>1. CASE \E m \in ms : Admits(w.state, m)
  <2>1. PICK m \in ms : Admits(w.state, m)
    BY <1>1
  <2> DEFINE base == IF w.state[m.path] = None THEN 0 ELSE w.state[m.path]
             v == IF m.op = "set" THEN m.value ELSE base + m.value
  <2>2. m.path \in Fields /\ m.value \in Int /\ (CHOOSE n \in ms : TRUE) = m
    BY DEF Carries
  <2>3. v \in Int
    BY <2>2 DEF Sound, GameState, Contents
  <2>4. Applied(w.state, m) = [w.state EXCEPT ![m.path] = v]
    BY DEF Applied
  <2>5. Accepts([w.state EXCEPT ![m.path] = v], m.path)
    BY <2>1, <2>4 DEF Admits
  <2>6. Effect(w, ms) = Accepted(w, [w.state EXCEPT ![m.path] = v], m.path)
    BY <1>1, <2>2, <2>4 DEF Effect
  <2> HIDE DEF v
  <2>7. QED BY <2>2, <2>3, <2>5, <2>6, AcceptedIsSound
<1>2. CASE ~ \E m \in ms : Admits(w.state, m)
  <2>1. Effect(w, ms) = w
    BY <1>2 DEF Effect
  <2>2. QED BY <2>1
<1>3. QED BY <1>1, <1>2

-----------------------------------------------------------------------------
(* The first invariant: types, the law, and the record of what changed. *)

Base ==
  /\ TypeOK
  /\ RulesKept
  /\ Sound(work)
  /\ Known(store.pending)
  /\ pc = "idle" => work = Loaded(store)
  /\ pc # "idle" => store.status = "active"

LEMMA SoundAfter ==
  ASSUME UNCHANGED <<snapshot, store>>, NEW w, Sound(w), work' = w
  PROVE  Sound(work)'
BY DEF Sound, LawfulOrNew, Lawful, Tracked, StartState, Snapshot, Def, GameState, Known

LEMMA SameLaw ==
  ASSUME UNCHANGED <<snapshot, store>>, RulesKept, Known(store.pending)
  PROVE  RulesKept' /\ Known(store.pending)'
BY DEF RulesKept, Lawful, StartState, Snapshot, Def, Known

LEMMA LoadedIsSound ==
  ASSUME SnapshotOK, store \in Stored, RulesKept, Known(store.pending)
  PROVE  Sound(Loaded(store))
BY DEF Loaded, Sound, GameState, Stored, LawfulOrNew, Tracked, RulesKept

LEMMA ResetIsSound ==
  ASSUME SnapshotOK', store' \in Stored, RulesKept', Known(store.pending)', Reset
  PROVE  Sound(work)' /\ pc' = "idle" /\ work' = Loaded(store')
BY DEF Reset, Loaded, Sound, GameState, Stored, LawfulOrNew, Tracked, RulesKept, Known

LEMMA BaseInit == Init => Base
<1> SUFFICES ASSUME Init PROVE Base
  OBVIOUS
<1>1. SnapshotOK
  BY DEF Init, SnapshotOK
<1>2. StartState \in [Fields -> Contents]
  BY <1>1, StartIsInRange
<1>3. Snapshot.start \in Contents
  BY <1>1, SnapshotFacts, FieldsAssumption DEF Contents
<1>4. Start \in Stored
  BY <1>2, <1>3 DEF Start, Stored, Contents, NoMinigame
<1>5. store = Start /\ store \in Stored /\ RulesKept /\ Known(store.pending)
  BY <1>4 DEF Init, Start, RulesKept, Known
<1>6. Sound(Loaded(store))
  BY <1>1, <1>5, LoadedIsSound
<1>7. QED
  BY <1>1, <1>5, <1>6 DEF Init, Base, TypeOK, Sound, Start, Steps, SnapshotOK, Contents

(* A step of a turn that leaves the row alone. *)
LEMMA BaseWork ==
  ASSUME Base, UNCHANGED <<snapshot, store>>, NEW w, Sound(w), work' = w,
         pc' \in Steps, next' \in Nat \ {0}, from' \in Contents, rounds' \in Nat, calls' \in Nat,
         pc' # "idle", store.status = "active"
  PROVE  Base'
<1>1. Sound(work)' /\ RulesKept' /\ Known(store.pending)'
  BY SoundAfter, SameLaw DEF Base
<1>2. QED BY <1>1 DEF Base, TypeOK, Sound

LEMMA BaseReset ==
  ASSUME SnapshotOK, UNCHANGED snapshot, store' \in Stored, RulesKept', Known(store.pending)', Reset
  PROVE  Base'
<1>1. SnapshotOK'
  BY DEF SnapshotOK
<1>2. Sound(work)' /\ pc' = "idle" /\ work' = Loaded(store')
  BY <1>1, ResetIsSound
<1>3. work' \in GameState
  BY <1>2 DEF Sound
<1>4. QED BY <1>1, <1>2, <1>3 DEF Base, TypeOK, Reset, Steps, Contents, SnapshotOK

LEMMA BaseNext == Base /\ [Next]_vars => Base'
<1> SUFFICES ASSUME Base, [Next]_vars PROVE Base'
  OBVIOUS
<1>0. SnapshotOK /\ store \in Stored /\ work \in GameState /\ Sound(work) /\ TypeOK /\ RulesKept
      /\ Known(store.pending)
  BY DEF Base, TypeOK, SnapshotOK
<1>1. CASE Submit
  BY <1>0, <1>1, BaseWork DEF Submit, Base, TypeOK, Steps
<1>2. ASSUME NEW tag \in Tags, SubmitResult(tag) PROVE Base'
  <2> DEFINE ms == Snapshot.minigames[store.pending].outcome[tag]
             popped == [work EXCEPT !.pending = NoMinigame]
  <2>1. Sound(popped)
    BY <1>0 DEF Sound, GameState, Tracked, NoMinigame, Known
  <2>2. Carries(ms)
    BY <1>0, <1>2, SnapshotFacts DEF SubmitResult, Known
  <2>3. QED BY <1>0, <1>2, <2>1, <2>2, EffectIsSound, BaseWork DEF SubmitResult, TypeOK, Steps
<1>3. CASE PassCondition
  BY <1>0, <1>3, BaseWork DEF PassCondition, AtCondition, Base, TypeOK, Steps
<1>4. CASE FireCondition
  <2> DEFINE w == [work EXCEPT !.active = @ \cup {next}]
  <2>1. Sound(w)
    BY <1>0 DEF Sound, GameState, Tracked, TypeOK, Known
  <2>2. next \in DOMAIN Snapshot.conditions
    BY <1>0, <1>4, SnapshotFacts DEF FireCondition, Fires, AtCondition, TypeOK
  <2>3. Carries(Condition.effect)
    BY <1>0, <2>2, SnapshotFacts DEF Condition
  <2>4. Sound(Effect(w, Condition.effect))
    BY <1>0, <2>1, <2>3, EffectIsSound
  <2>5. /\ work' = Effect(w, Condition.effect) /\ next' = next + 1 /\ pc = "intake"
        /\ UNCHANGED <<snapshot, store, pc, from, rounds, calls>>
    BY <1>4 DEF FireCondition, Fires, AtCondition
  <2> HIDE DEF w
  <2>6. QED
    BY <1>0, <2>4, <2>5, BaseWork DEF Base, TypeOK, Steps
<1>5. CASE EffectRaises \/ TurnLost
  BY <1>0, <1>5, SameLaw, BaseReset DEF EffectRaises, TurnLost
<1>6. CASE IntakeDone
  <2>1. work.state[Location] \in Contents
    BY <1>0, FieldsAssumption DEF GameState
  <2>2. QED BY <1>0, <1>6, <2>1, BaseWork DEF IntakeDone, Base, TypeOK, Steps
<1>7. ASSUME NEW n \in 1..MaxCalls, CallTools(n) PROVE Base'
  BY <1>0, <1>7, BoundsAssumption, BaseWork DEF CallTools, Base, TypeOK, Steps
<1>8. ASSUME NEW f \in Fields, NEW v \in Values, MutateAccepted(f, v) PROVE Base'
  <2>1. v \in Int
    BY FieldsAssumption
  <2>2. QED
    BY <1>0, <1>8, <2>1, AcceptedIsSound, BaseWork DEF MutateAccepted, Base, TypeOK, Steps
<1>9. CASE CallWithoutEffect
  BY <1>0, <1>9, BaseWork DEF CallWithoutEffect, Base, TypeOK, Steps
<1>10. CASE CallsAnswered
  BY <1>0, <1>10, BaseWork DEF CallsAnswered, RoundsAfter, Base, TypeOK, Steps
<1>11. CASE Narrate
  BY <1>0, <1>11, BaseWork DEF Narrate, Base, TypeOK, Steps
<1>12. Sound(Synced(work))
  <2>1. work.state[Location] \in Contents
    BY <1>0, FieldsAssumption DEF GameState
  <2>2. QED
    BY <1>0, <2>1 DEF Synced, Moved, Sound, GameState, Tracked, AllPaths, Contents, Known
<1>13. CASE Settle
  BY <1>0, <1>12, <1>13, BaseWork DEF Settle, Base, TypeOK, Steps
<1>14. ASSUME NEW k \in DOMAIN Snapshot.minigames, SettleAndTrigger(k) PROVE Base'
  <2> DEFINE w == [Synced(work) EXCEPT !.pending = k, !.changed = @ \cup {PendingPath}]
  <2>1. k \in Nat
    BY <1>0, SnapshotFacts
  <2>2. Sound(w)
    BY <1>12, <2>1 DEF Sound, GameState, Tracked, AllPaths, Known
  <2>3. QED BY <1>0, <1>14, <2>2, BaseWork DEF SettleAndTrigger, Base, TypeOK, Steps
<1>15. CASE Write
  <2>1. store' \in Stored
    BY <1>0, <1>15 DEF Write, Written, Stored, GameState
  <2>2. /\ store'.state = work.state /\ store'.filled = work.filled
        /\ store'.status = store.status /\ store'.pending = work.pending
    BY <1>0, <1>15 DEF Write, Written, Stored
  <2>3. RulesKept' /\ Known(store.pending)'
    BY <1>0, <1>15, <2>2
    DEF Write, RulesKept, Sound, LawfulOrNew, Lawful, StartState, Snapshot, Def, Known
  <2>4. Sound(work)'
    BY <1>0, <1>15, <2>2
    DEF Write, Sound, LawfulOrNew, Lawful, StartState, Snapshot, Def, Tracked, Known
  <2>5. QED BY <1>0, <1>15, <2>1, <2>2, <2>3, <2>4 DEF Write, Base, TypeOK, Steps
<1>16. CASE EvaluateEndings
  <2>1. store' \in Stored /\ store'.state = store.state /\ store'.pending = store.pending
    BY <1>0, <1>16 DEF EvaluateEndings, Stored
  <2>2. RulesKept' /\ Known(store.pending)'
    BY <1>0, <1>16, <2>1 DEF EvaluateEndings, RulesKept, Lawful, StartState, Snapshot, Def, Known
  <2>3. QED BY <1>0, <1>16, <2>1, <2>2, BaseReset DEF EvaluateEndings
<1>17. CASE UNCHANGED vars
  <2>1. Sound(work)' /\ RulesKept' /\ Known(store.pending)'
    BY <1>0, <1>17, SoundAfter, SameLaw DEF vars
  <2>2. QED BY <1>17, <2>1 DEF vars, Base, TypeOK
<1>18. QED
  BY <1>1, <1>2, <1>3, <1>4, <1>5, <1>6, <1>7, <1>8, <1>9, <1>10, <1>11, <1>13, <1>14, <1>15,
     <1>16, <1>17
  DEF Next, Progress, Intake, Tools, Aftermath

(* The state of a playthrough has its types, and whatever Effect C, the       *)
(* outcomes of minigames and the tool calls of the narrator did to it, every  *)
(* rule of its world and every range holds.                                   *)
THEOREM RulesAreKept == Spec => []RulesKept
<1>1. Init => Base
  BY BaseInit
<1>2. Base /\ [Next]_vars => Base'
  BY BaseNext
<1>3. Base => RulesKept
  BY DEF Base
<1>4. QED BY <1>1, <1>2, <1>3, PTL DEF Spec

LEMMA BaseAlways == Spec => []Base
<1>1. QED BY BaseInit, BaseNext, PTL DEF Spec

-----------------------------------------------------------------------------
(* The second invariant: what the scan of the conditions has passed is        *)
(* settled, and by the time the narrator is asked it has passed them all.     *)

Scanned ==
  /\ TrueIsScheduled
  /\ \A i \in DOMAIN Snapshot.conditions : i < next => Settled(work, i)
  /\ pc \notin {"idle", "intake"} => next > Len(Snapshot.conditions)
  /\ pc = "idle" => next = 1

LEMMA ScannedInit == Init => Scanned
<1> SUFFICES ASSUME Init PROVE Scanned
  OBVIOUS
<1>1. DOMAIN Snapshot.conditions = 1..Len(Snapshot.conditions) /\ Len(Snapshot.conditions) \in Nat
  BY SnapshotFacts DEF Init, SnapshotOK
<1>2. QED BY <1>1 DEF Init, Scanned, TrueIsScheduled, Start

(* A step of a turn that leaves the row alone. *)
LEMMA ScannedWork ==
  ASSUME Scanned, UNCHANGED <<snapshot, store>>,
         \A i \in DOMAIN Snapshot.conditions : i < next' => Settled(work', i),
         pc' \notin {"idle", "intake"} => next' > Len(Snapshot.conditions),
         pc' # "idle"
  PROVE  Scanned'
BY DEF Scanned, TrueIsScheduled, Settled, Condit, Snapshot

LEMMA ScannedReset ==
  ASSUME Base, UNCHANGED snapshot, TrueIsScheduled', Reset
  PROVE  Scanned'
<1>1. DOMAIN Snapshot.conditions = 1..Len(Snapshot.conditions) /\ Len(Snapshot.conditions) \in Nat
  BY SnapshotFacts DEF Base, TypeOK, SnapshotOK
<1>2. Snapshot' = Snapshot
  BY DEF Snapshot
<1>3. QED BY <1>1, <1>2 DEF Scanned, Reset

(* A condition that is skipped is settled: it was false when it was last      *)
(* looked at, and its paths have not changed.                                 *)
LEMMA SkippedIsSettled ==
  ASSUME Base, TrueIsScheduled, NEW i \in DOMAIN Snapshot.conditions, Skips(i)
  PROVE  Settled(work, i)
<1> DEFINE e == Condit(i)
<1>1. Paths(e) \subseteq Fields
  BY SnapshotFacts DEF Base, TypeOK, SnapshotOK
<1>2. SUFFICES ASSUME Holds(e, work.state), Paths(e) \cap (work.changed \cup work.filled) = {}
               PROVE  FALSE
  BY DEF Settled
<1>3. \A f \in Paths(e) : work.state[f] = store.state[f]
  BY <1>1, <1>2 DEF Base, Sound, Tracked
<1>4. Holds(e, store.state)
  BY <1>2, <1>3, HoldsByPaths
<1>5. Paths(e) \cap store.filled = {}
  BY <1>2 DEF Base, Sound, Tracked
<1>6. QED BY <1>4, <1>5 DEF TrueIsScheduled, Skips, Condit

LEMMA SettledGrows ==
  ASSUME NEW w, NEW a, a.state = w.state, w.active \subseteq a.active,
         w.changed \subseteq a.changed, w.filled \subseteq a.filled, NEW i, Settled(w, i)
  PROVE  Settled(a, i)
BY DEF Settled

LEMMA SyncedFacts ==
  ASSUME Sound(work)
  PROVE  /\ Synced(work).state = work.state /\ Synced(work).active = work.active
         /\ work.changed \subseteq Synced(work).changed
         /\ Synced(work).filled = work.filled /\ Synced(work).pending = work.pending
BY DEF Synced, Sound, GameState

LEMMA ScannedNext == Base /\ Scanned /\ [Next]_vars => Scanned'
<1> SUFFICES ASSUME Base, Scanned, [Next]_vars PROVE Scanned'
  OBVIOUS
<1>0. SnapshotOK /\ store \in Stored /\ work \in GameState /\ Sound(work) /\ TypeOK
      /\ Known(store.pending) /\ TrueIsScheduled
  BY DEF Base, TypeOK, SnapshotOK, Scanned
<1>d. /\ DOMAIN Snapshot.conditions = 1..Len(Snapshot.conditions) /\ Len(Snapshot.conditions) \in Nat
      /\ DOMAIN Snapshot.conditions \subseteq Nat
      /\ next \in Nat
  BY <1>0, SnapshotFacts DEF TypeOK
<1>1. CASE Submit
  BY <1>1, ScannedWork DEF Submit, Scanned
<1>2. ASSUME NEW tag \in Tags, SubmitResult(tag) PROVE Scanned'
  BY <1>2, <1>d, ScannedWork DEF SubmitResult, Scanned
<1>3. CASE PassCondition
  <2>1. next \in DOMAIN Snapshot.conditions
    BY <1>0, <1>d, <1>3 DEF PassCondition, AtCondition, TypeOK
  <2>2. Settled(work, next)
    BY <1>0, <1>3, <2>1, SkippedIsSettled DEF PassCondition, Condition, Settled, Condit
  <2>3. \A i \in DOMAIN Snapshot.conditions : i < next + 1 => i < next \/ i = next
    BY <1>d
  <2>4. QED BY <1>3, <2>2, <2>3, ScannedWork DEF PassCondition, AtCondition, Scanned
<1>4. CASE FireCondition
  <2> DEFINE w == [work EXCEPT !.active = @ \cup {next}]
  <2>1. Sound(w) /\ w.active = work.active \cup {next}
    BY <1>0 DEF Sound, GameState, Tracked, TypeOK, Known
  <2>2. next \in DOMAIN Snapshot.conditions
    BY <1>0, <1>d, <1>4 DEF FireCondition, Fires, AtCondition, TypeOK
  <2>3. Carries(Condition.effect)
    BY <1>0, <2>2, SnapshotFacts DEF Condition
  <2>4. Settled(w, next)
    BY <2>1 DEF Settled
  <2>5. ASSUME NEW i \in DOMAIN Snapshot.conditions, i < next PROVE Settled(w, i)
    BY <1>0, <2>5, SettledGrows DEF Scanned, Sound, GameState
  <2>6. /\ work' = Effect(w, Condition.effect) /\ next' = next + 1 /\ pc = "intake"
        /\ UNCHANGED <<snapshot, store, pc>>
    BY <1>4 DEF FireCondition, Fires, AtCondition
  <2>7. \A i \in DOMAIN Snapshot.conditions : i < next + 1 => i < next \/ i = next
    BY <1>d
  <2> HIDE DEF w
  <2>8. \A i \in DOMAIN Snapshot.conditions : i < next + 1 => Settled(Effect(w, Condition.effect), i)
    BY <1>0, <2>1, <2>3, <2>4, <2>5, <2>7, EffectIsSound
  <2>9. QED BY <2>6, <2>8, ScannedWork
<1>5. CASE EffectRaises \/ TurnLost
  <2>1. UNCHANGED <<snapshot, store>> /\ Reset
    BY <1>5 DEF EffectRaises, TurnLost
  <2>2. TrueIsScheduled'
    BY <1>0, <2>1 DEF TrueIsScheduled, Snapshot
  <2>3. QED BY <2>1, <2>2, ScannedReset
<1>6. CASE IntakeDone
  BY <1>6, ScannedWork DEF IntakeDone, Scanned
<1>7. ASSUME NEW n \in 1..MaxCalls, CallTools(n) PROVE Scanned'
  BY <1>7, ScannedWork DEF CallTools, Scanned
<1>8. ASSUME NEW f \in Fields, NEW v \in Values, MutateAccepted(f, v) PROVE Scanned'
  <2>1. v \in Int
    BY FieldsAssumption
  <2>2. \A i \in DOMAIN Snapshot.conditions : i < next => Settled(work', i)
    BY <1>0, <1>8, <2>1, AcceptedIsSound DEF MutateAccepted, Scanned
  <2>3. QED BY <1>8, <2>2, ScannedWork DEF MutateAccepted, Scanned
<1>9. CASE CallWithoutEffect \/ CallsAnswered \/ Narrate
  BY <1>9, ScannedWork DEF CallWithoutEffect, CallsAnswered, Narrate, Scanned
<1>10. CASE Settle
  <2>1. \A i \in DOMAIN Snapshot.conditions : i < next => Settled(work', i)
    BY <1>0, <1>10, SyncedFacts, SettledGrows DEF Settle, Scanned
  <2>2. QED BY <1>10, <2>1, ScannedWork DEF Settle, Scanned
<1>11. ASSUME NEW k \in DOMAIN Snapshot.minigames, SettleAndTrigger(k) PROVE Scanned'
  <2> DEFINE w == [Synced(work) EXCEPT !.pending = k, !.changed = @ \cup {PendingPath}]
  <2>1. /\ w.state = work.state /\ w.active = work.active
        /\ work.changed \subseteq w.changed /\ w.filled = work.filled
    BY <1>0 DEF Synced, Sound, GameState
  <2>2. work' = w
    BY <1>11 DEF SettleAndTrigger
  <2> HIDE DEF w
  <2>3. \A i \in DOMAIN Snapshot.conditions : i < next => Settled(work', i)
    BY <2>1, <2>2, SettledGrows DEF Scanned
  <2>4. QED BY <1>11, <2>3, ScannedWork DEF SettleAndTrigger, Scanned
<1>12. CASE Write
  <2>1. /\ UNCHANGED <<snapshot, work, next>> /\ pc = "writing" /\ pc' = "written"
    BY <1>12 DEF Write
  <2>2. /\ store'.state = work.state /\ store'.active = work.active /\ store'.filled = work.filled
        /\ store'.played = TRUE
        /\ work.changed # {} => store'.changed = work.changed
    BY <1>0, <1>12 DEF Write, Written, Stored
  <2>3. \A i \in DOMAIN Snapshot.conditions : Settled(work, i)
    BY <1>d, <2>1 DEF Scanned
  <2>4. TrueIsScheduled'
    BY <2>1, <2>2, <2>3 DEF TrueIsScheduled, Settled, Condit, Snapshot
  <2>5. QED BY <2>1, <2>4 DEF Scanned, Settled, Condit, Snapshot
<1>13. CASE EvaluateEndings
  <2>1. /\ UNCHANGED snapshot /\ Reset
        /\ store'.state = store.state /\ store'.active = store.active /\ store'.filled = store.filled
        /\ store'.played = store.played /\ store'.changed = store.changed
    BY <1>0, <1>13 DEF EvaluateEndings, Stored
  <2>2. TrueIsScheduled'
    BY <1>0, <2>1 DEF TrueIsScheduled, Snapshot
  <2>3. QED BY <2>1, <2>2, ScannedReset
<1>14. CASE UNCHANGED vars
  BY <1>14 DEF vars, Scanned, TrueIsScheduled, Settled, Condit, Snapshot
<1>15. QED
  BY <1>1, <1>2, <1>3, <1>4, <1>5, <1>6, <1>7, <1>8, <1>9, <1>10, <1>11, <1>12, <1>13, <1>14
  DEF Next, Progress, Intake, Tools, Aftermath

(* Skipping a condition whose fields did not change loses no condition that   *)
(* is true: it was active in the last turn, or the next turn looks at it.     *)
THEOREM NoConditionIsLost == Spec => []TrueIsScheduled
<1>1. Init => Scanned
  BY ScannedInit
<1>2. Base /\ Scanned /\ [Next]_vars => Scanned'
  BY ScannedNext
<1>3. Scanned => TrueIsScheduled
  BY DEF Scanned
<1>4. QED BY <1>1, <1>2, <1>3, BaseAlways, PTL DEF Spec

-----------------------------------------------------------------------------
(* The third invariant: where the player is and which minigame is waiting,    *)
(* step by step through the turn.                                             *)

Place(loc, discovered) == Snapshot.maps /\ ~OutcomesMove => loc \in discovered \cup {None}

Waits(k, s) ==
  k # NoMinigame => k \in DOMAIN Snapshot.minigames /\ Holds(Snapshot.minigames[k].trigger, s)

Placed ==
  /\ PendingIsTriggered /\ EndedByItsState /\ LocationDiscovered
  /\ pc \in {"intake", "narrator", "tools", "narrated"} => work.pending = NoMinigame
  /\ pc = "writing" => Waits(work.pending, work.state)
  /\ pc \in {"intake", "writing"} => Place(work.state[Location], work.discovered)
  /\ pc \in {"narrator", "tools", "narrated"} => Place(from, work.discovered)

LEMMA PlacedInit == Init => Placed
BY FieldsAssumption
   DEF Init, Placed, Start, StartState, PendingIsTriggered, EndedByItsState, LocationDiscovered,
       NoMinigame

LEMMA RowPlaced ==
  ASSUME PendingIsTriggered, EndedByItsState, LocationDiscovered, UNCHANGED <<snapshot, store>>
  PROVE  (PendingIsTriggered /\ EndedByItsState /\ LocationDiscovered)'
BY DEF PendingIsTriggered, EndedByItsState, EndConditionHolds, LocationDiscovered, OutcomesMove,
       Snapshot

LEMMA PlacedNext == Base /\ Placed /\ [Next]_vars => Placed'
<1> SUFFICES ASSUME Base, Placed, [Next]_vars PROVE Placed'
  OBVIOUS
<1>0. SnapshotOK /\ store \in Stored /\ work \in GameState /\ Sound(work) /\ TypeOK
      /\ Known(store.pending)
  BY DEF Base, TypeOK, SnapshotOK
<1>r. UNCHANGED <<snapshot, store>> =>
        /\ (PendingIsTriggered /\ EndedByItsState /\ LocationDiscovered)'
        /\ UNCHANGED <<Snapshot, OutcomesMove>>
  BY RowPlaced DEF Placed, Snapshot, OutcomesMove
<1>1. CASE Submit
  BY <1>0, <1>1, <1>r
  DEF Submit, Base, Loaded, Placed, Place, LocationDiscovered
<1>2. ASSUME NEW tag \in Tags, SubmitResult(tag) PROVE Placed'
  <2> DEFINE ms == Snapshot.minigames[store.pending].outcome[tag]
             popped == [work EXCEPT !.pending = NoMinigame]
  <2>0. work = Loaded(store) /\ store.pending \in DOMAIN Snapshot.minigames
    BY <1>0, <1>2 DEF SubmitResult, Base, Known
  <2>1. /\ Sound(popped) /\ popped.pending = NoMinigame
        /\ popped.state = store.state /\ popped.discovered = store.discovered
    BY <1>0, <2>0 DEF Sound, GameState, Tracked, NoMinigame, Known, Loaded
  <2>2. Carries(ms)
    BY <1>0, <2>0, SnapshotFacts
  <2>3. ~OutcomesMove => \A m \in ms : m.path # Location
    BY <2>0 DEF OutcomesMove
  <2>4. work' = Effect(popped, ms) /\ pc' = "intake" /\ UNCHANGED <<snapshot, store>>
    BY <1>2 DEF SubmitResult
  <2> HIDE DEF ms, popped
  <2>5. /\ work'.pending = NoMinigame /\ work'.discovered = store.discovered
        /\ ~OutcomesMove => work'.state[Location] = store.state[Location]
    BY <1>0, <2>1, <2>2, <2>3, <2>4, EffectIsSound
  <2>6. QED BY <1>r, <2>4, <2>5 DEF Placed, Place, LocationDiscovered
<1>3. CASE PassCondition
  BY <1>3, <1>r DEF PassCondition, AtCondition, Placed, Place
<1>4. CASE FireCondition
  <2> DEFINE w == [work EXCEPT !.active = @ \cup {next}]
  <2>1. /\ Sound(w) /\ w.state = work.state /\ w.discovered = work.discovered
        /\ w.pending = work.pending
    BY <1>0 DEF Sound, GameState, Tracked, TypeOK, Known
  <2>2. next \in DOMAIN Snapshot.conditions
    BY <1>0, <1>4, SnapshotFacts DEF FireCondition, Fires, AtCondition, TypeOK
  <2>3. Carries(Condition.effect) /\ \A m \in Condition.effect : m.path # Location
    BY <1>0, <2>2, SnapshotFacts DEF Condition
  <2>4. /\ work' = Effect(w, Condition.effect) /\ pc = "intake"
        /\ UNCHANGED <<snapshot, store, pc, from>>
    BY <1>4 DEF FireCondition, Fires, AtCondition
  <2> HIDE DEF w
  <2>5. /\ work'.pending = work.pending /\ work'.discovered = work.discovered
        /\ work'.state[Location] = work.state[Location]
    BY <1>0, <2>1, <2>3, <2>4, EffectIsSound
  <2>6. QED BY <1>r, <2>4, <2>5 DEF Placed, Place
<1>5. CASE EffectRaises \/ TurnLost
  BY <1>5, <1>r DEF EffectRaises, TurnLost, Reset, Placed
<1>6. CASE IntakeDone
  BY <1>6, <1>r DEF IntakeDone, Placed, Place
<1>7. ASSUME NEW n \in 1..MaxCalls, CallTools(n) PROVE Placed'
  BY <1>7, <1>r DEF CallTools, Placed, Place
<1>8. ASSUME NEW f \in Fields, NEW v \in Values, MutateAccepted(f, v) PROVE Placed'
  <2>1. v \in Int
    BY FieldsAssumption
  <2>2. work'.discovered = work.discovered /\ work'.pending = work.pending
    BY <1>0, <1>8, <2>1, AcceptedIsSound DEF MutateAccepted
  <2>3. QED BY <1>8, <1>r, <2>2 DEF MutateAccepted, Placed, Place
<1>9. CASE CallWithoutEffect \/ CallsAnswered \/ Narrate
  BY <1>9, <1>r DEF CallWithoutEffect, CallsAnswered, Narrate, Placed, Place
<1>10. pc = "narrated" => Place(work.state[Location], Synced(work).discovered)
  BY <1>0 DEF Placed, Place, Synced, Moved, GameState
<1>11. CASE Settle
  <2>1. Synced(work).pending = NoMinigame
    BY <1>0, <1>11, SyncedFacts DEF Settle, Placed
  <2>2. QED BY <1>0, <1>10, <1>11, <1>r, <2>1, SyncedFacts DEF Settle, Placed, Place, Waits
<1>12. ASSUME NEW k \in DOMAIN Snapshot.minigames, SettleAndTrigger(k) PROVE Placed'
  <2> DEFINE w == [Synced(work) EXCEPT !.pending = k, !.changed = @ \cup {PendingPath}]
  <2>1. w.state = work.state /\ w.discovered = Synced(work).discovered /\ w.pending = k
    BY <1>0 DEF Synced, Sound, GameState
  <2>2. work' = w /\ pc = "narrated" /\ pc' = "writing" /\ UNCHANGED <<snapshot, store>>
        /\ Holds(Snapshot.minigames[k].trigger, work.state)
    BY <1>12 DEF SettleAndTrigger, Triggered
  <2> HIDE DEF w
  <2>3. QED BY <1>10, <1>r, <2>1, <2>2 DEF Placed, Place, Waits
<1>13. CASE Write
  <2>1. /\ store'.state = work.state /\ store'.discovered = work.discovered
        /\ store'.pending = work.pending /\ store'.status = store.status
    BY <1>0, <1>13 DEF Write, Written, Stored
  <2>2. store.status = "active" /\ pc = "writing" /\ pc' = "written" /\ UNCHANGED <<snapshot, work>>
    BY <1>13 DEF Write, Base
  <2>3. PendingIsTriggered' /\ LocationDiscovered'
    BY <2>1, <2>2
    DEF Placed, Place, Waits, PendingIsTriggered, LocationDiscovered, OutcomesMove, Snapshot
  <2>4. EndedByItsState'
    BY <2>1, <2>2 DEF EndedByItsState
  <2>5. QED BY <2>2, <2>3, <2>4 DEF Placed
<1>14. CASE EvaluateEndings
  <2>1. /\ store'.state = store.state /\ store'.discovered = store.discovered
        /\ store'.pending = store.pending
        /\ store'.status = "completed" =>
             \/ store.status = "completed"
             \/ store.pending = NoMinigame /\ EndConditionHolds
        /\ UNCHANGED snapshot /\ pc' = "idle"
    BY <1>0, <1>14 DEF EvaluateEndings, Stored, Reset
  <2>2. (PendingIsTriggered /\ LocationDiscovered)'
    BY <2>1 DEF Placed, PendingIsTriggered, LocationDiscovered, OutcomesMove, Snapshot
  <2>3. EndedByItsState'
    BY <2>1 DEF Placed, EndedByItsState, EndConditionHolds, Snapshot
  <2>4. QED BY <2>1, <2>2, <2>3 DEF Placed
<1>15. CASE UNCHANGED vars
  BY <1>15, <1>r DEF vars, Placed, Place, Waits
<1>16. QED
  BY <1>1, <1>2, <1>3, <1>4, <1>5, <1>6, <1>7, <1>8, <1>9, <1>11, <1>12, <1>13, <1>14, <1>15
  DEF Next, Progress, Intake, Tools, Aftermath

(* The stored world is consistent: a minigame waits only where its trigger    *)
(* holds, an ended playthrough is in one of its endings, and the place the    *)
(* player is at was discovered.                                               *)
THEOREM WorldStaysSound == Spec => []WorldSound
<1>1. Init => Placed
  BY PlacedInit
<1>2. Base /\ Placed /\ [Next]_vars => Placed'
  BY PlacedNext
<1>3. Base /\ Placed => WorldSound
  BY DEF Base, Placed, WorldSound
<1>4. QED BY <1>1, <1>2, <1>3, BaseAlways, PTL DEF Spec
=============================================================================
