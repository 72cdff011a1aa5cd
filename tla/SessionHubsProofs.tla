-------------------------- MODULE SessionHubsProofs --------------------------
(* Both hubs, for any number of participants, connections and viewers: the    *)
(* registries agree with the connections, a spectator misses nothing, and the *)
(* broadcast of an ending reaches every open connection but those another     *)
(* connection of their participant has displaced.                             *)
EXTENDS SessionHubs, TLAPS

Notice == {"your_turn", "playthrough_ended"}
Connection == [pc : {"idle", "open", "broken", "gone"}, who : Participants \cup {None}, queue : Seq(Notice)]

RegistryOK ==
  /\ subscribers \in [Participants -> Connections \cup {None}]
  /\ conn \in [Connections -> Connection]
  /\ overlapped \subseteq Connections

(* No entry outlives its connection, which serves the participant of the entry. *)
EntriesServed ==
  /\ \A c \in Connections : Served(c) => conn[c].who \in Participants
  /\ \A p \in Participants : subscribers[p] # None => Served(subscribers[p]) /\ conn[subscribers[p]].who = p

Registry == RegistryOK /\ EntriesServed

(* A served connection is the one its participant is registered with, unless  *)
(* another one of the participant was opened or cleaned up since.             *)
ServedEntered ==
  \A c \in Connections : Served(c) /\ c \notin overlapped => subscribers[conn[c].who] = c

(* A connection that was never opened overlapped none. *)
OverlappedOpened == \A c \in overlapped : conn[c].pc # "idle"

IInv == Registry /\ ServedEntered /\ OverlappedOpened

-----------------------------------------------------------------------------
(* The hub of notifications. *)

LEMMA InitRegistry == Init => IInv
BY DEF Init, IInv, Registry, RegistryOK, EntriesServed, ServedEntered, OverlappedOpened, Served, Connection

(* An assignment that leaves of each connection whom it serves, and whether. *)
LEMMA QueueKeeps ==
  ASSUME IInv, UNCHANGED <<subscribers, overlapped>>, conn' \in [Connections -> Connection],
         \A c \in Connections : /\ conn'[c].who = conn[c].who
                                /\ conn'[c].pc = "idle" <=> conn[c].pc = "idle"
                                /\ conn'[c].pc \in {"open", "broken"} <=> conn[c].pc \in {"open", "broken"}
  PROVE  IInv'
<1>1. RegistryOK'
  BY DEF IInv, Registry, RegistryOK
<1>2. EntriesServed' /\ ServedEntered'
  BY DEF IInv, Registry, RegistryOK, EntriesServed, ServedEntered, Served
<1>3. OverlappedOpened'
  BY DEF IInv, Registry, RegistryOK, OverlappedOpened
<1>4. QED
  BY <1>1, <1>2, <1>3 DEF IInv, Registry

LEMMA SubscribeKeeps ==
  ASSUME IInv, NEW c \in Connections, NEW p \in Participants, Subscribe(c, p)
  PROVE  IInv'
<1>1. conn[c] \in Connection /\ conn[c].pc = "idle"
  BY DEF IInv, Registry, RegistryOK, Subscribe
<1> DEFINE opened == [conn[c] EXCEPT !.pc = "open", !.who = p]
<1>2. opened \in Connection /\ opened.pc = "open" /\ opened.who = p
  BY <1>1 DEF Connection
<1>3. /\ conn' = [conn EXCEPT ![c] = opened] /\ subscribers' = [subscribers EXCEPT ![p] = c]
      /\ overlapped' = overlapped \cup Others(c, p) /\ Others(c, p) \subseteq Connections \ {c}
  BY <1>1 DEF Subscribe, Others, IInv, Registry, RegistryOK, Connection
<1> HIDE DEF opened
<1>4. RegistryOK'
  BY <1>2, <1>3 DEF IInv, Registry, RegistryOK
<1>5. /\ conn'[c] = opened /\ \A d \in Connections \ {c} : conn'[d] = conn[d]
      /\ subscribers'[p] = c /\ \A q \in Participants \ {p} : subscribers'[q] = subscribers[q]
  BY <1>3 DEF IInv, Registry, RegistryOK
<1>6. ~Served(c)
  BY <1>1 DEF Served
<1>7. ASSUME NEW d \in Connections, Served(d)', d \notin overlapped'
      PROVE  subscribers'[conn'[d].who] = d
  <2>1. CASE d = c
    BY <1>2, <1>5, <2>1
  <2>2. CASE d # c
    <3>1. conn'[d] = conn[d] /\ Served(d) /\ d \notin overlapped /\ conn[d].who # p
      BY <1>3, <1>5, <1>7, <2>2 DEF Served, Others
    <3>2. subscribers[conn[d].who] = d /\ conn[d].who \in Participants
      BY <3>1 DEF IInv, ServedEntered, Registry, EntriesServed
    <3>3. QED
      BY <1>5, <3>1, <3>2
  <2>3. QED
    BY <2>1, <2>2
<1>8. ASSUME NEW q \in Participants, subscribers'[q] # None
      PROVE  Served(subscribers[q])' /\ conn'[subscribers'[q]].who = q
  <2>1. CASE q = p
    BY <1>2, <1>5, <2>1 DEF Served
  <2>2. CASE q # p
    <3>1. subscribers'[q] = subscribers[q] /\ subscribers[q] \in Connections
      BY <1>5, <1>8, <2>2 DEF IInv, Registry, RegistryOK
    <3>2. Served(subscribers[q]) /\ conn[subscribers[q]].who = q /\ subscribers[q] # c
      BY <1>6, <1>8, <3>1 DEF IInv, Registry, EntriesServed
    <3>3. QED
      BY <1>5, <3>1, <3>2 DEF Served
  <2>3. QED
    BY <2>1, <2>2
<1>9. \A d \in Connections : Served(d)' => conn'[d].who \in Participants
  BY <1>2, <1>5 DEF IInv, Registry, EntriesServed, Served
<1>10. OverlappedOpened'
  BY <1>2, <1>3, <1>5 DEF IInv, OverlappedOpened, Others, Served
<1>11. QED
  BY <1>4, <1>7, <1>8, <1>9, <1>10 DEF IInv, Registry, EntriesServed, ServedEntered

LEMMA RelayKeeps ==
  ASSUME IInv, NEW c \in Connections, Relay(c)
  PROVE  IInv'
<1>1. conn[c] \in Connection /\ conn[c].queue # <<>>
  BY DEF IInv, Registry, RegistryOK, Relay
<1>2. Tail(conn[c].queue) \in Seq(Notice)
  BY <1>1 DEF Connection
<1> DEFINE shorter == [conn[c] EXCEPT !.queue = Tail(conn[c].queue)]
<1>3. shorter \in Connection /\ shorter.pc = conn[c].pc /\ shorter.who = conn[c].who
  BY <1>1, <1>2 DEF Connection
<1>4. conn' = [conn EXCEPT ![c] = shorter] /\ UNCHANGED <<subscribers, overlapped>>
  BY DEF Relay, IInv, Registry, RegistryOK
<1> HIDE DEF shorter
<1>5. QED
  BY <1>3, <1>4, QueueKeeps DEF IInv, Registry, RegistryOK

LEMMA LeaveKeeps ==
  ASSUME IInv, NEW c \in Connections, Leave(c)
  PROVE  IInv'
<1>1. conn[c] \in Connection /\ conn[c].pc = "open"
  BY DEF IInv, Registry, RegistryOK, Leave
<1> DEFINE broken == [conn[c] EXCEPT !.pc = "broken"]
<1>2. broken \in Connection /\ broken.pc = "broken" /\ broken.who = conn[c].who
  BY <1>1 DEF Connection
<1>3. conn' = [conn EXCEPT ![c] = broken] /\ UNCHANGED <<subscribers, overlapped>>
  BY DEF Leave, IInv, Registry, RegistryOK
<1> HIDE DEF broken
<1>4. QED
  BY <1>1, <1>2, <1>3, QueueKeeps DEF IInv, Registry, RegistryOK

LEMMA UnsubscribeKeeps ==
  ASSUME IInv, NEW c \in Connections, Unsubscribe(c)
  PROVE  IInv'
<1>1. conn[c] \in Connection /\ conn[c].pc = "broken"
  BY DEF IInv, Registry, RegistryOK, Unsubscribe
<1>2. conn[c].who \in Participants
  BY <1>1 DEF IInv, Registry, EntriesServed, Served
<1> DEFINE gone == [conn[c] EXCEPT !.pc = "gone"]
           p == conn[c].who
<1>3. gone \in Connection /\ gone.pc = "gone" /\ gone.who = conn[c].who
  BY <1>1 DEF Connection
<1>4. /\ conn' = [conn EXCEPT ![c] = gone] /\ subscribers' = [subscribers EXCEPT ![p] = None]
      /\ overlapped' = overlapped \cup Others(c, p) /\ Others(c, p) \subseteq Connections \ {c}
  BY DEF Unsubscribe, Others, IInv, Registry, RegistryOK
<1> HIDE DEF gone
<1>5. RegistryOK'
  BY <1>3, <1>4 DEF IInv, Registry, RegistryOK
<1>6. /\ conn'[c] = gone /\ \A d \in Connections \ {c} : conn'[d] = conn[d]
      /\ subscribers'[p] = None /\ \A q \in Participants \ {p} : subscribers'[q] = subscribers[q]
  BY <1>2, <1>4 DEF IInv, Registry, RegistryOK
<1>7. \A d \in Connections : Served(d)' => d # c /\ Served(d) /\ conn'[d].who \in Participants
  BY <1>3, <1>6 DEF IInv, Registry, EntriesServed, Served
<1>8. \A q \in Participants : subscribers'[q] # None =>
         /\ subscribers'[q] \in Connections \ {c}
         /\ Served(subscribers[q])' /\ conn'[subscribers'[q]].who = q
  BY <1>2, <1>6 DEF IInv, Registry, RegistryOK, EntriesServed, Served
<1>9. ASSUME NEW d \in Connections, Served(d)', d \notin overlapped'
      PROVE  subscribers'[conn'[d].who] = d
  <2>1. d # c /\ conn'[d] = conn[d] /\ conn[d].who \in Participants \ {p} /\ d \notin overlapped /\ Served(d)
    BY <1>4, <1>6, <1>7, <1>9 DEF Others
  <2>2. subscribers[conn[d].who] = d
    BY <2>1 DEF IInv, ServedEntered
  <2>3. QED
    BY <1>6, <2>1, <2>2
<1>10. OverlappedOpened'
  BY <1>3, <1>4, <1>6 DEF IInv, OverlappedOpened, Others, Served
<1>11. QED
  BY <1>5, <1>7, <1>8, <1>9, <1>10 DEF IInv, Registry, EntriesServed, ServedEntered

LEMMA PushKeeps ==
  ASSUME IInv, NEW targets, NEW event \in Notice, Push(targets, event)
  PROVE  IInv'
<1> DEFINE told(c) == [conn[c] EXCEPT !.queue = Append(conn[c].queue, event)]
<1>1. \A c \in Connections : conn[c] \in Connection
  BY DEF IInv, Registry, RegistryOK
<1>2. \A c \in Connections : told(c) \in Connection /\ told(c).pc = conn[c].pc /\ told(c).who = conn[c].who
  BY <1>1 DEF Connection
<1>3. /\ conn' = [c \in Connections |-> IF \E p \in targets : subscribers[p] = c THEN told(c) ELSE conn[c]]
      /\ UNCHANGED <<subscribers, overlapped>>
  BY DEF Push
<1> HIDE DEF told
<1>4. conn' \in [Connections -> Connection]
  BY <1>1, <1>2, <1>3
<1>5. QED
  BY <1>2, <1>3, <1>4, QueueKeeps

LEMMA RegistryStep ==
  ASSUME IInv, [Next]_vars
  PROVE  IInv'
<1>1. CASE \E c \in Connections : \E p \in Participants : Subscribe(c, p)
  BY <1>1, SubscribeKeeps
<1>2. CASE \E c \in Connections : Relay(c) \/ Leave(c) \/ Unsubscribe(c)
  BY <1>2, RelayKeeps, LeaveKeeps, UnsubscribeKeeps
<1>3. CASE (\E p \in Participants : NotifyNextTurn(p)) \/ NotifyPlaythroughEnded
  BY <1>3, PushKeeps DEF NotifyNextTurn, NotifyPlaythroughEnded, Notice
<1>4. CASE UNCHANGED hub
  BY <1>4 DEF hub, IInv, Registry, RegistryOK, EntriesServed, ServedEntered, OverlappedOpened, Served
<1>5. QED
  BY <1>1, <1>2, <1>3, <1>4 DEF Next, Watch, Show, LeaveView, Unwatch, Publish, vars, hub

-----------------------------------------------------------------------------
(* The hub of spectators. *)

Viewer == [pc : {"idle", "open", "broken", "gone"}, joined : Nat, queue : Seq(Nat), got : Seq(Nat)]

FeedOK ==
  /\ spectators \in Seq(Viewers)
  /\ viewer \in [Viewers -> Viewer]
  /\ published \in Nat

Watching(v) == viewer[v].pc \in {"open", "broken"}

(* The list holds the queue of each viewer that is served, once, and no other. *)
ListExact ==
  /\ \A v \in Viewers : Watching(v) <=> \E i \in DOMAIN spectators : spectators[i] = v
  /\ \A i, j \in DOMAIN spectators : spectators[i] = spectators[j] => i = j

(* The events got and those queued are the events from..upto, in order. *)
Whole(got, queue, from, upto) ==
  /\ from <= upto
  /\ Len(got) + Len(queue) = upto - from
  /\ \A i \in 1..Len(got) : got[i] = from + i
  /\ \A i \in 1..Len(queue) : queue[i] = from + Len(got) + i

(* What a served viewer got and what is queued for it is what was published   *)
(* since it joined.                                                           *)
Complete(v) == Whole(viewer[v].got, viewer[v].queue, viewer[v].joined, published)

Unseen(v) == viewer[v].got = <<>> /\ viewer[v].queue = <<>>

FeedInv ==
  /\ FeedOK /\ ListExact
  /\ \A v \in Viewers : /\ viewer[v].pc = "idle" => Unseen(v)
                        /\ Watching(v) => Complete(v)

LEMMA NothingYet == ASSUME NEW n \in Nat PROVE Whole(<<>>, <<>>, n, n)
BY DEF Whole

LEMMA OneShown ==
  ASSUME NEW got \in Seq(Nat), NEW queue \in Seq(Nat), NEW from \in Nat, NEW upto \in Nat,
         queue # <<>>, Whole(got, queue, from, upto)
  PROVE  Whole(Append(got, Head(queue)), Tail(queue), from, upto)
<1>1. Head(queue) = from + Len(got) + 1 /\ Len(queue) \in Nat \ {0}
  BY DEF Whole
<1>2. \A i \in 1..Len(Append(got, Head(queue))) : Append(got, Head(queue))[i] = from + i
  BY <1>1 DEF Whole
<1>3. \A i \in 1..Len(Tail(queue)) : Tail(queue)[i] = from + Len(Append(got, Head(queue))) + i
  <2> TAKE i \in 1..Len(Tail(queue))
  <2>1. i + 1 \in 1..Len(queue) /\ Tail(queue)[i] = queue[i + 1] /\ Len(Append(got, Head(queue))) = Len(got) + 1
    BY <1>1
  <2>2. queue[i + 1] = from + Len(got) + (i + 1)
    BY <2>1 DEF Whole
  <2>3. QED
    BY <2>1, <2>2
<1>4. Len(Append(got, Head(queue))) = Len(got) + 1 /\ Len(Tail(queue)) = Len(queue) - 1
  BY <1>1
<1>5. from <= upto /\ Len(Append(got, Head(queue))) + Len(Tail(queue)) = upto - from
  <2>1. from <= upto /\ Len(got) + Len(queue) = upto - from /\ Len(got) \in Nat /\ Len(queue) \in Nat
    BY <1>1 DEF Whole
  <2>2. QED
    BY <1>4, <2>1
<1>6. QED
  BY <1>2, <1>3, <1>5 DEF Whole

LEMMA OnePublished ==
  ASSUME NEW got \in Seq(Nat), NEW queue \in Seq(Nat), NEW from \in Nat, NEW upto \in Nat,
         Whole(got, queue, from, upto)
  PROVE  Whole(got, Append(queue, upto + 1), from, upto + 1)
BY DEF Whole

LEMMA WholeFeed ==
  ASSUME NEW got \in Seq(Nat), NEW queue \in Seq(Nat), NEW from \in Nat, NEW upto \in Nat,
         Whole(got, queue, from, upto)
  PROVE  got \o queue = [i \in 1..upto - from |-> from + i]
<1> DEFINE events == [i \in 1..upto - from |-> from + i]
<1>1. upto - from \in Nat /\ Len(got) + Len(queue) = upto - from
  BY DEF Whole
<1>2. events \in Seq(Nat) /\ Len(events) = upto - from
  BY <1>1
<1>3. \A i \in 1..upto - from : (got \o queue)[i] = from + i
  <2> TAKE i \in 1..upto - from
  <2>1. CASE i <= Len(got)
    BY <1>1, <2>1 DEF Whole
  <2>2. CASE i > Len(got)
    <3>1. i - Len(got) \in 1..Len(queue) /\ (got \o queue)[i] = queue[i - Len(got)]
      BY <1>1, <2>2
    <3>2. QED
      BY <1>1, <3>1 DEF Whole
  <2>3. QED
    BY <1>1, <2>1, <2>2
<1>4. \A i \in 1..upto - from : events[i] = from + i
  OBVIOUS
<1>5. got \o queue \in Seq(Nat) /\ Len(got \o queue) = upto - from
  BY <1>1
<1> HIDE DEF events
<1> DEFINE joint == got \o queue
<1> HIDE DEF joint
<1>6. joint = events
  <2>1. /\ joint \in Seq(Nat) /\ Len(joint) = upto - from
        /\ \A i \in 1..upto - from : joint[i] = events[i]
    BY <1>3, <1>4, <1>5 DEF joint
  <2>2. QED
    BY <1>1, <1>2, <2>1
<1>7. QED
  BY <1>6 DEF events, joint

LEMMA InitFeed == Init => FeedInv
BY DEF Init, FeedInv, FeedOK, ListExact, Watching, Unseen, Viewer

(* Only one viewer's record changes, and the list stays exact. *)
LEMMA OneViewer ==
  ASSUME FeedInv, NEW v \in Viewers, NEW r \in Viewer, viewer' = [viewer EXCEPT ![v] = r],
         spectators' \in Seq(Viewers), ListExact', published' = published,
         r.pc = "idle" => r.got = <<>> /\ r.queue = <<>>,
         Watching(v)' => Complete(v)'
  PROVE  FeedInv'
<1>1. FeedOK'
  BY DEF FeedInv, FeedOK
<1>2. viewer'[v] = r /\ \A w \in Viewers \ {v} : viewer'[w] = viewer[w]
  BY DEF FeedInv, FeedOK
<1>3. \A w \in Viewers : (viewer[w].pc = "idle" => Unseen(w))' /\ (Watching(w) => Complete(w))'
  <2> TAKE w \in Viewers
  <2>1. CASE w = v
    BY <1>2, <2>1 DEF Unseen
  <2>2. CASE w # v
    <3>1. viewer'[w] = viewer[w] /\ published' = published
      BY <1>2, <2>2
    <3>2. Watching(w)' => Complete(w)'
      BY <3>1, <2>2 DEF FeedInv, Watching, Complete
    <3>3. QED
      BY <3>1, <3>2 DEF FeedInv, Unseen
  <2>3. QED
    BY <2>1, <2>2
<1>4. QED
  BY <1>1, <1>3 DEF FeedInv

LEMMA WatchKeeps ==
  ASSUME FeedInv, NEW v \in Viewers, Watch(v)
  PROVE  FeedInv'
<1> DEFINE opened == [viewer[v] EXCEPT !.pc = "open", !.joined = published]
<1>1. viewer[v] \in Viewer /\ viewer[v].pc = "idle" /\ Unseen(v) /\ published \in Nat
  BY DEF FeedInv, FeedOK, Watch
<1>2. /\ opened \in Viewer /\ opened.pc = "open" /\ opened.joined = published
      /\ opened.got = <<>> /\ opened.queue = <<>>
  BY <1>1 DEF Viewer, Unseen
<1>3. /\ viewer' = [viewer EXCEPT ![v] = opened] /\ spectators' = Append(spectators, v)
      /\ published' = published
  BY <1>1 DEF Watch, FeedInv, FeedOK, Viewer
<1> HIDE DEF opened
<1>4. viewer'[v] = opened /\ \A w \in Viewers \ {v} : viewer'[w] = viewer[w]
  BY <1>3 DEF FeedInv, FeedOK
<1>5. /\ spectators \in Seq(Viewers) /\ spectators' \in Seq(Viewers)
      /\ Len(spectators') = Len(spectators) + 1 /\ spectators'[Len(spectators) + 1] = v
      /\ \A i \in 1..Len(spectators) : spectators'[i] = spectators[i]
  BY <1>3 DEF FeedInv, FeedOK
<1>6. \A i \in 1..Len(spectators) : spectators[i] # v
  BY <1>1, <1>5 DEF FeedInv, ListExact, Watching
<1>7. ListExact'
  <2>1. \A i, j \in DOMAIN spectators' : spectators'[i] = spectators'[j] => i = j
    BY <1>5, <1>6 DEF FeedInv, ListExact
  <2>2. \A w \in Viewers : (Watching(w) <=> \E i \in DOMAIN spectators : spectators[i] = w)'
    <3> TAKE w \in Viewers
    <3>1. CASE w = v
      <4>1. Len(spectators) + 1 \in DOMAIN spectators'
        BY <1>5
      <4>2. QED
        BY <1>2, <1>4, <1>5, <3>1, <4>1 DEF Watching
    <3>2. CASE w # v
      <4>1. Watching(w)' <=> Watching(w)
        BY <1>4, <3>2 DEF Watching
      <4>2. (\E i \in DOMAIN spectators' : spectators'[i] = w) <=> (\E i \in DOMAIN spectators : spectators[i] = w)
        BY <1>5, <3>2
      <4>3. QED
        BY <4>1, <4>2 DEF FeedInv, ListExact
    <3>3. QED
      BY <3>1, <3>2
  <2>3. QED
    BY <2>1, <2>2 DEF ListExact
<1>8. Complete(v)'
  BY <1>1, <1>2, <1>3, <1>4, NothingYet DEF Complete
<1>9. QED
  BY <1>2, <1>3, <1>5, <1>7, <1>8, OneViewer

LEMMA ShowKeeps ==
  ASSUME FeedInv, NEW v \in Viewers, Show(v)
  PROVE  FeedInv'
<1> DEFINE r == viewer[v]
           shown == [viewer[v] EXCEPT !.queue = Tail(viewer[v].queue), !.got = Append(viewer[v].got, Head(viewer[v].queue))]
<1>1. r \in Viewer /\ r.pc = "open" /\ r.queue \in Seq(Nat) /\ r.got \in Seq(Nat) /\ r.queue # <<>>
  BY DEF FeedInv, FeedOK, Show, Viewer
<1>2. Head(r.queue) \in Nat /\ Tail(r.queue) \in Seq(Nat) /\ Append(r.got, Head(r.queue)) \in Seq(Nat)
  BY <1>1
<1>3. /\ shown \in Viewer /\ shown.pc = "open" /\ shown.joined = r.joined
      /\ shown.queue = Tail(r.queue) /\ shown.got = Append(r.got, Head(r.queue))
  BY <1>1, <1>2 DEF Viewer
<1>4. /\ viewer' = [viewer EXCEPT ![v] = shown] /\ spectators' = spectators /\ published' = published
  BY <1>1 DEF Show, FeedInv, FeedOK, Viewer
<1>5. Complete(v)
  BY <1>1 DEF FeedInv, Watching
<1> HIDE DEF shown
<1>6. viewer'[v] = shown /\ \A w \in Viewers : viewer'[w].pc = viewer[w].pc
  BY <1>1, <1>3, <1>4 DEF FeedInv, FeedOK
<1>7. ListExact'
  BY <1>4, <1>6 DEF FeedInv, ListExact, Watching
<1>8. r.joined \in Nat /\ published \in Nat
  BY <1>1 DEF Viewer, FeedInv, FeedOK
<1>9. Complete(v)'
  <2>1. Whole(Append(r.got, Head(r.queue)), Tail(r.queue), r.joined, published)
    BY <1>1, <1>5, <1>8, OneShown DEF Complete
  <2>2. QED
    BY <1>3, <1>4, <1>6, <2>1 DEF Complete
<1>10. QED
  BY <1>3, <1>4, <1>7, <1>9, OneViewer DEF FeedInv, FeedOK

LEMMA LeaveViewKeeps ==
  ASSUME FeedInv, NEW v \in Viewers, LeaveView(v)
  PROVE  FeedInv'
<1> DEFINE left == [viewer[v] EXCEPT !.pc = "broken"]
<1>1. viewer[v] \in Viewer /\ viewer[v].pc = "open" /\ Complete(v)
  BY DEF FeedInv, FeedOK, LeaveView, Watching
<1>2. /\ left \in Viewer /\ left.pc = "broken" /\ left.joined = viewer[v].joined
      /\ left.got = viewer[v].got /\ left.queue = viewer[v].queue
  BY <1>1 DEF Viewer
<1>3. /\ viewer' = [viewer EXCEPT ![v] = left] /\ spectators' = spectators /\ published' = published
  BY DEF LeaveView
<1> HIDE DEF left
<1>4. viewer'[v] = left /\ \A w \in Viewers \ {v} : viewer'[w] = viewer[w]
  BY <1>3 DEF FeedInv, FeedOK
<1>5. \A w \in Viewers : Watching(w)' <=> Watching(w)
  BY <1>1, <1>2, <1>4 DEF Watching
<1>6. ListExact'
  BY <1>3, <1>5 DEF FeedInv, ListExact
<1>7. Complete(v)'
  BY <1>1, <1>2, <1>3, <1>4 DEF Complete
<1>8. QED
  BY <1>2, <1>3, <1>6, <1>7, OneViewer DEF FeedInv, FeedOK

(* Removing the only occurrence of an element. *)
LEMMA RemoveOnly ==
  ASSUME NEW S, NEW s \in Seq(S), NEW n \in 1..Len(s),
         \A i, j \in 1..Len(s) : s[i] = s[j] => i = j
  PROVE  /\ RemoveFirst(s, s[n]) \in Seq(S)
         /\ Len(RemoveFirst(s, s[n])) = Len(s) - 1
         /\ \A i \in 1..Len(s) - 1 : RemoveFirst(s, s[n])[i] = IF i < n THEN s[i] ELSE s[i + 1]
<1>1. {i \in 1..Len(s) : s[i] = s[n]} = {n}
  OBVIOUS
<1>2. SelectInSeq(s, LAMBDA x : x = s[n]) = n
  <2>1. SelectInSeq(s, LAMBDA x : x = s[n]) = Min({n})
    BY <1>1 DEF SelectInSeq
  <2>2. Min({n}) = n
    BY DEF Min
  <2>3. QED
    BY <2>1, <2>2
<1>3. RemoveFirst(s, s[n]) = SubSeq(s, 1, n - 1) \o SubSeq(s, n + 1, Len(s))
  BY <1>2 DEF RemoveFirst, RemoveAt
<1>4. /\ SubSeq(s, 1, n - 1) \in Seq(S) /\ Len(SubSeq(s, 1, n - 1)) = n - 1
      /\ \A i \in 1..n - 1 : SubSeq(s, 1, n - 1)[i] = s[i]
  OBVIOUS
<1>5. /\ SubSeq(s, n + 1, Len(s)) \in Seq(S) /\ Len(SubSeq(s, n + 1, Len(s))) = Len(s) - n
      /\ \A i \in 1..Len(s) - n : SubSeq(s, n + 1, Len(s))[i] = s[n + i]
  OBVIOUS
<1> DEFINE before == SubSeq(s, 1, n - 1)
           after == SubSeq(s, n + 1, Len(s))
<1> HIDE DEF before, after
<1>6. /\ before \o after \in Seq(S) /\ Len(before \o after) = Len(s) - 1
      /\ \A i \in 1..Len(s) - 1 : (before \o after)[i] = IF i < n THEN s[i] ELSE s[i + 1]
  <2>1. /\ before \in Seq(S) /\ Len(before) = n - 1 /\ \A i \in 1..n - 1 : before[i] = s[i]
        /\ after \in Seq(S) /\ Len(after) = Len(s) - n /\ \A i \in 1..Len(s) - n : after[i] = s[n + i]
    BY <1>4, <1>5 DEF before, after
  <2>2. before \o after \in Seq(S) /\ Len(before \o after) = Len(s) - 1
    <3>1. Len(before) + Len(after) = Len(s) - 1
      BY <2>1
    <3>2. before \in Seq(S) /\ after \in Seq(S)
      BY <2>1
    <3>3. before \o after \in Seq(S) /\ Len(before \o after) = Len(before) + Len(after)
      BY <3>2
    <3>4. QED
      BY <3>1, <3>3
  <2>3. ASSUME NEW i \in 1..Len(s) - 1
        PROVE  (before \o after)[i] = IF i < n THEN s[i] ELSE s[i + 1]
    <3>1. CASE i < n
      BY <2>1, <3>1
    <3>2. CASE ~(i < n)
      <4>1. i - (n - 1) \in 1..Len(s) - n /\ (before \o after)[i] = after[i - (n - 1)]
        BY <2>1, <3>2
      <4>2. QED
        BY <2>1, <3>2, <4>1
    <3>3. QED
      BY <3>1, <3>2
  <2>4. QED
    BY <2>2, <2>3
<1>7. RemoveFirst(s, s[n]) = before \o after
  BY <1>3 DEF before, after
<1>8. QED
  BY <1>6, <1>7

LEMMA UnwatchKeeps ==
  ASSUME FeedInv, NEW v \in Viewers, Unwatch(v)
  PROVE  FeedInv'
<1> DEFINE gone == [viewer[v] EXCEPT !.pc = "gone"]
<1>1. viewer[v] \in Viewer /\ viewer[v].pc = "broken"
  BY DEF FeedInv, FeedOK, Unwatch
<1>2. gone \in Viewer /\ gone.pc = "gone"
  BY <1>1 DEF Viewer
<1>3. /\ viewer' = [viewer EXCEPT ![v] = gone] /\ spectators' = RemoveFirst(spectators, v)
      /\ published' = published
  BY DEF Unwatch
<1> HIDE DEF gone
<1>4. viewer'[v] = gone /\ \A w \in Viewers \ {v} : viewer'[w] = viewer[w]
  BY <1>3 DEF FeedInv, FeedOK
<1>5. spectators \in Seq(Viewers) /\ \A i, j \in 1..Len(spectators) : spectators[i] = spectators[j] => i = j
  BY DEF FeedInv, FeedOK, ListExact
<1>6. PICK n \in 1..Len(spectators) : spectators[n] = v
  BY <1>1, <1>5 DEF FeedInv, ListExact, Watching
<1>7. /\ spectators' \in Seq(Viewers) /\ Len(spectators') = Len(spectators) - 1
      /\ \A i \in 1..Len(spectators) - 1 : spectators'[i] = IF i < n THEN spectators[i] ELSE spectators[i + 1]
  BY <1>3, <1>5, <1>6, RemoveOnly
<1>8. ListExact'
  <2>1. \A i, j \in DOMAIN spectators' : spectators'[i] = spectators'[j] => i = j
    <3> TAKE i, j \in DOMAIN spectators'
    <3> DEFINE at(k) == IF k < n THEN k ELSE k + 1
    <3>1. /\ at(i) \in 1..Len(spectators) /\ at(j) \in 1..Len(spectators)
          /\ spectators'[i] = spectators[at(i)] /\ spectators'[j] = spectators[at(j)]
          /\ at(i) = at(j) => i = j
      BY <1>5, <1>7
    <3>2. QED
      BY <1>5, <3>1
  <2>2. \A w \in Viewers : (Watching(w) <=> \E i \in DOMAIN spectators : spectators[i] = w)'
    <3> TAKE w \in Viewers
    <3>1. CASE w = v
      <4>1. \A i \in DOMAIN spectators' : spectators'[i] # v
        BY <1>5, <1>6, <1>7
      <4>2. QED
        BY <1>2, <1>4, <3>1, <4>1 DEF Watching
    <3>2. CASE w # v
      <4>1. Watching(w)' <=> Watching(w)
        BY <1>4, <3>2 DEF Watching
      <4>2. ASSUME NEW i \in DOMAIN spectators', spectators'[i] = w
            PROVE  \E k \in DOMAIN spectators : spectators[k] = w
        BY <1>5, <1>7, <4>2
      <4>3. ASSUME NEW k \in DOMAIN spectators, spectators[k] = w
            PROVE  \E i \in DOMAIN spectators' : spectators'[i] = w
        <5>1. k # n
          BY <1>6, <3>2, <4>3
        <5>2. CASE k < n
          <6>1. k \in DOMAIN spectators' /\ spectators'[k] = w
            BY <1>5, <1>7, <4>3, <5>2
          <6>2. QED
            BY <6>1
        <5>3. CASE k > n
          <6>1. k - 1 \in DOMAIN spectators' /\ spectators'[k - 1] = w
            BY <1>5, <1>7, <4>3, <5>3
          <6>2. QED
            BY <6>1
        <5>4. QED
          BY <1>5, <4>3, <5>1, <5>2, <5>3
      <4>4. QED
        BY <4>1, <4>2, <4>3 DEF FeedInv, ListExact
    <3>3. QED
      BY <3>1, <3>2
  <2>3. QED
    BY <2>1, <2>2 DEF ListExact
<1>9. ~Watching(v)'
  BY <1>2, <1>4 DEF Watching
<1>10. QED
  BY <1>2, <1>3, <1>7, <1>8, <1>9, OneViewer

LEMMA PublishKeeps ==
  ASSUME FeedInv, Publish
  PROVE  FeedInv'
<1> DEFINE told(v) == [viewer[v] EXCEPT !.queue = Append(viewer[v].queue, published + 1)]
<1>1. published \in Nat /\ published' = published + 1 /\ spectators' = spectators
  BY DEF FeedInv, FeedOK, Publish
<1>2. \A v \in Viewers : viewer[v] \in Viewer
  BY DEF FeedInv, FeedOK
<1>3. \A v \in Viewers : Contains(spectators, v) <=> Watching(v)
  BY DEF Contains, FeedInv, FeedOK, ListExact
<1>4. viewer' = [v \in Viewers |-> IF Watching(v) THEN told(v) ELSE viewer[v]]
  BY <1>3 DEF Publish
<1>5. \A v \in Viewers :
        /\ told(v) \in Viewer /\ told(v).pc = viewer[v].pc /\ told(v).joined = viewer[v].joined
        /\ told(v).got = viewer[v].got /\ told(v).queue = Append(viewer[v].queue, published + 1)
  <2> TAKE v \in Viewers
  <2>1. viewer[v].queue \in Seq(Nat) /\ Append(viewer[v].queue, published + 1) \in Seq(Nat)
    BY <1>1, <1>2 DEF Viewer
  <2>2. QED
    BY <1>2, <2>1 DEF Viewer
<1> HIDE DEF told
<1>6. FeedOK'
  BY <1>1, <1>2, <1>4, <1>5 DEF FeedInv, FeedOK
<1>7. \A v \in Viewers : viewer'[v].pc = viewer[v].pc /\ (Watching(v)' <=> Watching(v))
  BY <1>4, <1>5 DEF Watching
<1>8. ListExact'
  BY <1>1, <1>7 DEF FeedInv, ListExact
<1>9. ASSUME NEW v \in Viewers, viewer'[v].pc = "idle"
      PROVE  Unseen(v)'
  BY <1>4, <1>7, <1>9 DEF FeedInv, Unseen, Watching
<1>10. ASSUME NEW v \in Viewers, Watching(v)
       PROVE  Complete(v)'
  <2>1. viewer'[v] = told(v) /\ Complete(v)
    BY <1>4, <1>10 DEF FeedInv
  <2>2. viewer[v].joined \in Nat /\ viewer[v].got \in Seq(Nat) /\ viewer[v].queue \in Seq(Nat)
    BY <1>2 DEF Viewer
  <2>3. Whole(viewer[v].got, Append(viewer[v].queue, published + 1), viewer[v].joined, published + 1)
    BY <1>1, <2>1, <2>2, OnePublished DEF Complete
  <2>4. QED
    BY <1>1, <1>5, <2>1, <2>3 DEF Complete
<1>11. QED
  BY <1>6, <1>7, <1>8, <1>9, <1>10 DEF FeedInv

LEMMA FeedStep ==
  ASSUME FeedInv, [Next]_vars
  PROVE  FeedInv'
<1>1. CASE \E v \in Viewers : Watch(v) \/ Show(v) \/ LeaveView(v) \/ Unwatch(v)
  BY <1>1, WatchKeeps, ShowKeeps, LeaveViewKeeps, UnwatchKeeps
<1>2. CASE Publish
  BY <1>2, PublishKeeps
<1>3. CASE UNCHANGED feed
  BY <1>3 DEF feed, FeedInv, FeedOK, ListExact, Watching, Unseen, Complete
<1>4. QED
  BY <1>1, <1>2, <1>3 DEF Next, Subscribe, Relay, Leave, Unsubscribe, Push, NotifyNextTurn,
     NotifyPlaythroughEnded, vars, feed

-----------------------------------------------------------------------------
\* Whatever reconnects, leaves and is cleaned up in whatever order: the hubs
\* hold no queue of a connection that is over, and a spectator has got, or has
\* in its queue, every event since it joined, in order and once
\* (notification_manager.py, spectator_manager.py, _relay).
THEOREM HubsStaySound == Spec => []HubsSound
<1>1. Init => IInv /\ FeedInv /\ notices \in Nat
  BY InitRegistry, InitFeed DEF Init
<1>2. IInv /\ FeedInv /\ notices \in Nat /\ [Next]_vars => (IInv /\ FeedInv /\ notices \in Nat)'
  <2>1. [Next]_vars => notices' = notices \/ notices' = notices + 1
    BY DEF Next, Subscribe, Relay, Leave, Unsubscribe, Push, NotifyNextTurn, NotifyPlaythroughEnded,
       Watch, Show, LeaveView, Unwatch, Publish, vars
  <2>2. QED
    BY <2>1, RegistryStep, FeedStep
<1>3. ASSUME IInv, FeedInv, notices \in Nat
      PROVE  HubsSound
  <2>1. TypeOK
    BY <1>3 DEF TypeOK, IInv, Registry, RegistryOK, FeedInv, FeedOK, Connection, Viewer, Notice
  <2>2. NoLeakedQueue
    BY <1>3 DEF NoLeakedQueue, IInv, Registry, EntriesServed, FeedInv, FeedOK, ListExact, Watching
  <2>3. ASSUME NEW v \in Viewers, viewer[v].pc = "open"
        PROVE  viewer[v].got \o viewer[v].queue
                 = [i \in 1..published - viewer[v].joined |-> viewer[v].joined + i]
    <3>1. /\ viewer[v].joined \in Nat /\ viewer[v].got \in Seq(Nat) /\ viewer[v].queue \in Seq(Nat)
          /\ published \in Nat
      BY <1>3 DEF FeedInv, FeedOK, Viewer
    <3>2. Whole(viewer[v].got, viewer[v].queue, viewer[v].joined, published)
      BY <1>3, <2>3 DEF FeedInv, Watching, Complete
    <3> DEFINE got == viewer[v].got
               queue == viewer[v].queue
               joined == viewer[v].joined
    <3> HIDE DEF got, queue, joined
    <3>3. got \in Seq(Nat) /\ queue \in Seq(Nat) /\ joined \in Nat /\ Whole(got, queue, joined, published)
      BY <3>1, <3>2 DEF got, queue, joined
    <3>4. got \o queue = [i \in 1..published - joined |-> joined + i]
      BY <3>1, <3>3, WholeFeed
    <3>5. QED
      BY <3>4 DEF got, queue, joined
  <2>4. QED
    BY <2>1, <2>2, <2>3 DEF HubsSound, ViewersMissNothing
<1>4. QED
  BY <1>1, <1>2, <1>3, PTL DEF Spec

\* The registry of notifications is exact whatever reloads overlap: nobody is
\* registered with a connection that is over or serves another, and a served
\* connection that is not registered saw another one of its participant opened
\* or cleaned up (subscribe overwrites and unsubscribe pops the key).
THEOREM RegistryAgrees == Spec => []IInv
<1>1. IInv /\ [Next]_vars => IInv'
  BY RegistryStep
<1>2. QED
  BY InitRegistry, <1>1, PTL DEF Spec

\* notify_playthrough_ended is a broadcast: every open connection is told, a
\* reload's while the old one is still served included, but those whose
\* participant had another connection opened or cleaned up since.
THEOREM EndReachesAll == Spec => EndReachesConnected
<1>1. ASSUME IInv, NotifyPlaythroughEnded, NEW c \in Connections, conn[c].pc = "open", c \notin overlapped
      PROVE  conn'[c].queue = Append(conn[c].queue, "playthrough_ended")
  <2>1. subscribers[conn[c].who] = c /\ conn[c].who \in Participants /\ conn[c] \in Connection
    BY <1>1 DEF IInv, Registry, RegistryOK, EntriesServed, ServedEntered, Served
  <2>2. conn'[c] = [conn[c] EXCEPT !.queue = Append(conn[c].queue, "playthrough_ended")]
    BY <1>1, <2>1 DEF NotifyPlaythroughEnded, Push
  <2>3. QED
    BY <2>1, <2>2 DEF Connection
<1>2. IInv /\ [Next]_vars =>
        [NotifyPlaythroughEnded =>
           \A c \in Connections : conn[c].pc = "open" /\ c \notin overlapped =>
             conn'[c].queue = Append(conn[c].queue, "playthrough_ended")]_vars
  BY <1>1
<1>3. QED
  BY <1>2, RegistryAgrees, PTL DEF Spec, EndReachesConnected
=============================================================================
