--------------------------- MODULE MCStudioMaster ---------------------------
EXTENDS StudioMaster

Card(target, arg) == [target |-> target, arg |-> arg, obj |-> NoRef, valid |-> TRUE]

\* A fact listed before its subject and its object, a tracked value that cannot
\* be read, a target the applier does not know, a scene, and a deletion.
MCReply == <<[Card("fact", "hero") EXCEPT !.obj = "town"], Card("entity", "hero"), Card("entity", "town"),
             [Card("state_field", "gold") EXCEPT !.valid = FALSE], Card("lore", "myth"),
             Card("opening_prompt", "ai"), Card("delete", 1)>>

\* Two tracked values.
MCFields == <<Card("state_field", "gold"), Card("state_field", "reputation")>>
=============================================================================
