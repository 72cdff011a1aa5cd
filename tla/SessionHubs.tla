----------------------------- MODULE SessionHubs -----------------------------
(***************************************************************************)
(* The two in-process hubs of the turn-resolution service for one          *)
(* playthrough: session/notification_manager.py, one queue per             *)
(* participant, and session/spectator_manager.py, a list of queues, with   *)
(* the SSE endpoints of routers/session.py that drain them (_relay).       *)
(*                                                                         *)
(* Everything runs on one event loop, so a call of a hub is one step.  The *)
(* client of a connection may leave at any time; the server runs _relay's  *)
(* finally, which unsubscribes, some time later.  An event is abstracted   *)
(* to its position in the feed, a notification to its name.                *)
(*                                                                         *)
(* A participant may have several connections at once: a reload opens the  *)
(* new one before the server has cleaned up the old one.                   *)
(***************************************************************************)
EXTENDS Naturals, Sequences, SequencesExt, FiniteSets

CONSTANTS
  Participants,   \* whom the turn pipeline notifies
  Connections,    \* /notifications requests, one process each
  Viewers,        \* /spectate requests, one process each
  None,           \* a participant with no entry in the hub
  MaxEvents,      \* bound: events published to the spectators
  MaxNotices      \* bound: notifications sent

ASSUME NoneAssumption == None \notin Connections
ASSUME BoundsAssumption == MaxEvents \in Nat /\ MaxNotices \in Nat

VARIABLES
  subscribers,  \* notification_manager._subscribers: participant -> connection
  conn,         \* the notification connections and their queues
  spectators,   \* spectator_manager._subscribers: the list of queues
  viewer,       \* the spectator connections and their queues
  published,    \* how many events the pipeline has published
  notices,      \* how many notifications the pipeline has sent
  overlapped    \* history, read by properties only: the served connections whose
                \* participant opened another one, or had one cleaned up, since

hub == <<subscribers, conn, overlapped>>
feed == <<spectators, viewer, published>>
vars == <<subscribers, conn, spectators, viewer, published, notices, overlapped>>

Init ==
  /\ subscribers = [p \in Participants |-> None]
  /\ conn = [c \in Connections |-> [pc |-> "idle", who |-> None, queue |-> <<>>]]
  /\ spectators = <<>>
  /\ viewer = [v \in Viewers |-> [pc |-> "idle", joined |-> 0, queue |-> <<>>, got |-> <<>>]]
  /\ published = 0
  /\ notices = 0
  /\ overlapped = {}

-----------------------------------------------------------------------------
(* GET /session/{id}/notifications *)

(* a connection the server still serves, whether its client is there or not *)
Served(c) == conn[c].pc \in {"open", "broken"}

(* the other connections of the participant the server still serves *)
Others(c, p) == {d \in Connections \ {c} : Served(d) /\ conn[d].who = p}

Subscribe_KeepFirst(c, p) ==
  /\ conn[c].pc = "idle"
  /\ conn' = [conn EXCEPT ![c].pc = "open", ![c].who = p]
  /\ subscribers' = [subscribers EXCEPT ![p] = IF @ = None THEN c ELSE @]
  /\ overlapped' = overlapped \cup Others(c, p)
  /\ UNCHANGED <<feed, notices>>

(* the new queue takes the participant's key, whatever it held *)
Subscribe(c, p) ==
  /\ conn[c].pc = "idle"
  /\ conn' = [conn EXCEPT ![c].pc = "open", ![c].who = p]
  /\ subscribers' = [subscribers EXCEPT ![p] = c]
  /\ overlapped' = overlapped \cup Others(c, p)
  /\ UNCHANGED <<feed, notices>>

Relay_OffByOne(c) ==
  /\ conn[c].pc = "open"
  /\ Len(conn[c].queue) > 1
  /\ conn' = [conn EXCEPT ![c].queue = Tail(@)]
  /\ UNCHANGED <<subscribers, feed, notices, overlapped>>

Relay(c) ==
  /\ conn[c].pc = "open"
  /\ conn[c].queue # <<>>
  /\ conn' = [conn EXCEPT ![c].queue = Tail(@)]
  /\ UNCHANGED <<subscribers, feed, notices, overlapped>>

Leave(c) ==
  /\ conn[c].pc = "open"
  /\ conn' = [conn EXCEPT ![c].pc = "broken"]
  /\ UNCHANGED <<subscribers, feed, notices, overlapped>>

(* the finally of _relay pops the participant's key, whatever queue it holds *)
Unsubscribe(c) ==
  /\ conn[c].pc = "broken"
  /\ conn' = [conn EXCEPT ![c].pc = "gone"]
  /\ subscribers' = [subscribers EXCEPT ![conn[c].who] = None]
  /\ overlapped' = overlapped \cup Others(c, conn[c].who)
  /\ UNCHANGED <<feed, notices>>

Push(targets, event) ==
  /\ notices < MaxNotices
  /\ notices' = notices + 1
  /\ conn' = [c \in Connections |->
       IF \E p \in targets : subscribers[p] = c
       THEN [conn[c] EXCEPT !.queue = Append(@, event)] ELSE conn[c]]
  /\ UNCHANGED <<subscribers, feed, overlapped>>

NotifyNextTurn(p) == Push({p}, "your_turn")

NotifyPlaythroughEnded == Push(Participants, "playthrough_ended")

-----------------------------------------------------------------------------
(* GET /session/{id}/spectate *)

Watch(v) ==
  /\ viewer[v].pc = "idle"
  /\ viewer' = [viewer EXCEPT ![v].pc = "open", ![v].joined = published]
  /\ spectators' = Append(spectators, v)
  /\ UNCHANGED <<hub, published, notices>>

Show(v) ==
  /\ viewer[v].pc = "open"
  /\ viewer[v].queue # <<>>
  /\ viewer' = [viewer EXCEPT ![v].queue = Tail(@), ![v].got = Append(@, Head(viewer[v].queue))]
  /\ UNCHANGED <<hub, spectators, published, notices>>

LeaveView(v) ==
  /\ viewer[v].pc = "open"
  /\ viewer' = [viewer EXCEPT ![v].pc = "broken"]
  /\ UNCHANGED <<hub, spectators, published, notices>>

Unwatch_Oldest(v) ==
  /\ viewer[v].pc = "broken"
  /\ viewer' = [viewer EXCEPT ![v].pc = "gone"]
  /\ spectators' = Tail(spectators)
  /\ UNCHANGED <<hub, published, notices>>

(* unsubscribe(playthrough_id, queue): this viewer's queue and no other *)
Unwatch(v) ==
  /\ viewer[v].pc = "broken"
  /\ viewer' = [viewer EXCEPT ![v].pc = "gone"]
  /\ spectators' = RemoveFirst(spectators, v)
  /\ UNCHANGED <<hub, published, notices>>

Publish ==
  /\ published < MaxEvents
  /\ published' = published + 1
  /\ viewer' = [v \in Viewers |->
       IF Contains(spectators, v)
       THEN [viewer[v] EXCEPT !.queue = Append(@, published + 1)] ELSE viewer[v]]
  /\ UNCHANGED <<hub, spectators, notices>>

-----------------------------------------------------------------------------
Next ==
  \/ \E c \in Connections :
       \/ \E p \in Participants : Subscribe(c, p)
       \/ Relay(c) \/ Leave(c) \/ Unsubscribe(c)
  \/ \E p \in Participants : NotifyNextTurn(p)
  \/ NotifyPlaythroughEnded
  \/ \E v \in Viewers : Watch(v) \/ Show(v) \/ LeaveView(v) \/ Unwatch(v)
  \/ Publish

Spec == Init /\ [][Next]_vars

(* The event loop resumes a _relay whose queue is not empty, and the server   *)
(* notices a client that is gone (sse-starlette pings it).                    *)
FairSpec ==
  /\ Spec
  /\ \A c \in Connections : WF_vars(Relay(c)) /\ WF_vars(Unsubscribe(c))
  /\ \A v \in Viewers : WF_vars(Show(v)) /\ WF_vars(Unwatch(v))

-----------------------------------------------------------------------------
(* Every variable keeps its type.                                             *)
TypeOK ==
  /\ subscribers \in [Participants -> Connections \cup {None}]
  /\ conn \in [Connections -> [pc : {"idle", "open", "broken", "gone"},
                               who : Participants \cup {None},
                               queue : Seq({"your_turn", "playthrough_ended"})]]
  /\ spectators \in Seq(Viewers)
  /\ viewer \in [Viewers -> [pc : {"idle", "open", "broken", "gone"}, joined : Nat,
                             queue : Seq(Nat), got : Seq(Nat)]]
  /\ published \in Nat /\ notices \in Nat /\ overlapped \subseteq Connections

(* A spectator sees every event published since it joined, in order, once:    *)
(* the others that come and go do not disturb its queue.                      *)
ViewersMissNothing ==
  \A v \in Viewers : viewer[v].pc = "open" =>
    viewer[v].got \o viewer[v].queue
      = [i \in 1..published - viewer[v].joined |-> viewer[v].joined + i]

(* The hubs hold no queue whose connection is over: every queue would be fed  *)
(* for ever, and the queues are unbounded.                                    *)
NoLeakedQueue ==
  /\ \A p \in Participants : subscribers[p] # None => Served(subscribers[p])
  /\ \A i \in DOMAIN spectators : viewer[spectators[i]].pc \in {"open", "broken"}

(* The registries of both hubs agree with the connections, with the types.    *)
HubsSound == TypeOK /\ ViewersMissNothing /\ NoLeakedQueue

(* notify_playthrough_ended is a broadcast to everyone with an open connection *)
(* ("a no-op per participant with no open connection"): a reload is told on its *)
(* new connection although the old one is still served, and so is a later     *)
(* reconnection.  Exempt is a connection whose participant has opened a newer *)
(* one since, which is told in its place while it is open; and one whose      *)
(* participant had another one cleaned up since: unsubscribe pops the key,    *)
(* whatever queue it holds, so the newer connection loses the end.            *)
EndReachesConnected ==
  [][NotifyPlaythroughEnded =>
       \A c \in Connections : conn[c].pc = "open" /\ c \notin overlapped =>
         conn'[c].queue = Append(conn[c].queue, "playthrough_ended")]_vars

(* Whatever is queued on an open connection reaches its client, unless the    *)
(* client leaves.                                                             *)
QueuedIsSeen ==
  /\ \A c \in Connections : conn[c].queue # <<>> ~> conn[c].queue = <<>> \/ conn[c].pc # "open"
  /\ \A v \in Viewers : viewer[v].queue # <<>> ~> viewer[v].queue = <<>> \/ viewer[v].pc # "open"
=============================================================================
