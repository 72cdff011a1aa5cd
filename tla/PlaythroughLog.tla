--------------------------- MODULE PlaythroughLog ---------------------------
(***************************************************************************)
(* What the turn pipeline promises of one playthrough's story: an          *)
(* append-only log in which a submission appears at most once, and         *)
(* acknowledgements ("done" on the stream) that are only given for turns   *)
(* already in the log.                                                     *)
(***************************************************************************)
EXTENDS Sequences

CONSTANT Requests

VARIABLES log, acked

Turns == {log[i] : i \in DOMAIN log}

Init == log = <<>> /\ acked = {}

Commit(r) ==
  /\ r \notin Turns
  /\ log' = Append(log, r)
  /\ UNCHANGED acked

Acknowledge(r) ==
  /\ r \in Turns
  /\ acked' = acked \cup {r}
  /\ UNCHANGED log

Next == \E r \in Requests : Commit(r) \/ Acknowledge(r)

Spec == Init /\ [][Next]_<<log, acked>>
=============================================================================
