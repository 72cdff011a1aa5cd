--------------------------- MODULE MCTurnPipeline ---------------------------
(* TurnPipeline on small instances.  Submissions that have not arrived and    *)
(* participants are interchangeable, and liveness rules a SYMMETRY out: so    *)
(* the submissions are numbered and arrive in that order, and one participant *)
(* comes first.                                                               *)
EXTENDS TurnPipeline

CONSTANT MaxOpen  \* submissions open at once, of whichever participants

MCInit == Init /\ participants[1] = AnyParticipant
MCSpec == MCInit /\ [][Next]_vars /\ Fairness

Arrivals ==
  \A r \in Requests :
    req[r].pc = "idle" /\ req'[r].pc # "idle" =>
      /\ \A s \in 1..(r - 1) : req[s].pc # "idle"
      /\ Cardinality(Open) < MaxOpen
=============================================================================
