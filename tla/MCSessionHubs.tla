---------------------------- MODULE MCSessionHubs ----------------------------
(* SessionHubs on a few connections: the constants are in the cfg.  The two   *)
(* hubs share no state, so each is explored while the other is at rest.       *)
EXTENDS SessionHubs

OneHub ==
  \/ \A c \in Connections : conn[c].pc = "idle"
  \/ \A v \in Viewers : viewer[v].pc = "idle"
=============================================================================
