------------------------ MODULE MCMinigameEncounter ------------------------
EXTENDS MinigameEncounter
=============================================================================
