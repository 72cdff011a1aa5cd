---------------------------- MODULE MCMasterTurn ----------------------------
(* MasterTurn on three scenarios: one with a rule, an Effect C and a minigame; *)
(* one with a map, a condition that is true at the start and no rules; the    *)
(* same with a minigame that may move the player.                             *)
EXTENDS MasterTurn

MCFields == {"health", "alarm", "warden.trust", "current_location_id"}
MCValues == 0..2

Number(group, legal, initial) ==
  [group |-> group, kind |-> "number", legal |-> legal, initial |-> initial, settable |-> TRUE]
Text(group, legal) == [Number(group, legal, None) EXCEPT !.kind = "text"]
Unset(group) == [Number(group, MCValues, None) EXCEPT !.settable = FALSE]

Schema(alarm, place) ==
  [f \in MCFields |->
     CASE f = "health" -> Number("world", 0..2, 1)
       [] f = "alarm" -> alarm
       [] f = "warden.trust" -> Text("warden", 0..1)
       [] OTHER -> place]

Set(p, v) == {[path |-> p, op |-> "set", value |-> v]}
Add(p, v) == {[path |-> p, op |-> "add", value |-> v]}

Wounded == <<Leaf("health", "<=", 1, "")>>
Raided == <<Leaf("alarm", "==", 1, "NOT"), Leaf("warden.trust", "==", 1, "")>>
Calm == <<Bare("NOT"), Leaf("alarm", "==", 1, "OR"), Leaf("health", "<", 1, "")>>
Dead == <<Leaf("health", "==", 0, "")>>

Guarded ==
  [schema |-> Schema(Number("world", 0..1, 0), Unset("world")), maps |-> FALSE, start |-> None,
   conditions |-> <<[when |-> Raided, effect |-> Add("health", -1)],
                    [when |-> Wounded, effect |-> {}]>>,
   rules |-> {<<Leaf("health", ">", 0, "OR"), Leaf("alarm", "==", 0, "")>>},
   endings |-> {Dead},
   minigames |-> <<[trigger |-> Raided,
                    outcome |-> [win |-> Set("alarm", 0), lose |-> Add("health", -1),
                                 timeout |-> {}]]>>]

Open ==
  [schema |-> Schema(Unset("world"), Text("world", MCValues)), maps |-> TRUE, start |-> 0,
   conditions |-> <<[when |-> Calm, effect |-> Add("warden.trust", 1)]>>,
   rules |-> {},
   endings |-> {Dead},
   minigames |-> <<[trigger |-> Wounded,
                    outcome |-> [win |-> Set("health", 2), lose |-> {},
                                 timeout |-> Add("warden.trust", 1)]]>>]

Moving == [Open EXCEPT !.minigames[1].outcome["win"] = Set("current_location_id", 1)]

MCSnapshots == <<Guarded, Open, Moving>>
=============================================================================
