---------------------------- MODULE MCPlayClient ----------------------------
EXTENDS PlayClient
=============================================================================
