---------------------------- MODULE MCSoundtrack -----------------------------
EXTENDS Soundtrack

MCStories == {"s1", "s2"}
MCMoods == {"peaceful", "combat"}

\* One story has its own tension track, the other has a combat track only.
MCTracks == {<<"s1", "peaceful">>, <<"s1", "combat">>, <<"s1", "tension">>, <<"s2", "combat">>}
MCInitialMood == [s \in MCStories |-> IF s = "s1" THEN "peaceful" ELSE "combat"]
==============================================================================
