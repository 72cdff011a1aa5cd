--------------------------- MODULE MCClientSession ---------------------------
EXTENDS ClientSession

\* A logout only while there are tokens left for another login.
Logouts == \A t \in Tabs : out[t] = "none" /\ out'[t] # "none" => issued < MaxIssued
==============================================================================
