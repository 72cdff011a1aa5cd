-------------------------- MODULE PlaythroughProofs --------------------------
(***************************************************************************)
(* TLAPS proofs about the row of a playthrough: first TurnPipeline alone,  *)
(* for every set of requests and participants and every value of the       *)
(* settings, then PlaythroughLifecycle, the joins, edits and abandonments  *)
(* next to it, for any number of submissions and calls.                    *)
(***************************************************************************)
EXTENDS PlaythroughLifecycle, FiniteSetTheorems, SequenceTheorems, TLAPS

-----------------------------------------------------------------------------
(* The turn pipeline. *)

(* Types. *)

(* The local variables of a submission that is not running are well typed.    *)
LEMMA IdleType == Idle \in Submissions
<1>1. AnyParticipant \in Participants
  BY ParticipantsAssumption DEF AnyParticipant
<1>2. EmptyState \in GameStates
  BY DEF EmptyState, GameStates, NoMinigame
<1>3. 0 \in 0..WriteAttempts - 1
  BY SettingsAssumption
<1>4. QED
  BY <1>1, <1>2, <1>3 DEF Idle, Submissions, NoMinigame

(* A step that gives one submission well-typed locals leaves req well typed.  *)
LEMMA UpdateType ==
  ASSUME req \in [Requests -> Submissions], NEW r \in Requests, NEW q \in Submissions,
         req' = [req EXCEPT ![r] = q]
  PROVE  req' \in [Requests -> Submissions]
OBVIOUS

(* A coroutine that ends leaves req well typed.                               *)
LEMMA FinishType ==
  ASSUME req \in [Requests -> Submissions], NEW r \in Requests,
         NEW outcome \in Settled, Finish(r, outcome)
  PROVE  req' \in [Requests -> Submissions]
<1>1. [Idle EXCEPT !.pc = outcome] \in Submissions
  BY IdleType DEF Submissions
<1>2. QED
  BY <1>1 DEF Finish

LEMMA GotoType ==
  ASSUME req \in [Requests -> Submissions], NEW r \in Requests,
         NEW pc \in InFlight, Goto(r, pc)
  PROVE  req' \in [Requests -> Submissions]
BY DEF Goto, Submissions

(* turn_order.expected_participant returns a member.                          *)
LEMMA ExpectedType ==
  ASSUME NEW members \in Seq(Participants), Len(members) > 0, NEW n \in Nat
  PROVE  Expected(members, n) \in Participants
<1>1. n % Len(members) \in 0..Len(members) - 1
  OBVIOUS
<1>2. QED
  BY <1>1 DEF Expected

LEMMA RetryType ==
  ASSUME req \in [Requests -> Submissions], NEW r \in Requests,
         req[r].pc = "writing", Retry(r)
  PROVE  req' \in [Requests -> Submissions]
<1>1. CASE req[r].tries + 1 < WriteAttempts
  <2>1. req[r].tries + 1 \in 0..WriteAttempts - 1
    BY <1>1, SettingsAssumption DEF Submissions
  <2>2. req' = [req EXCEPT ![r].tries = req[r].tries + 1]
    BY <1>1 DEF Retry
  <2>3. QED
    BY <2>1, <2>2 DEF Submissions
<1>2. CASE ~(req[r].tries + 1 < WriteAttempts)
  <2>1. Finish(r, "degraded")
    BY <1>2 DEF Retry
  <2>2. QED
    BY <2>1, FinishType DEF Settled
<1>3. QED
  BY <1>1, <1>2

LEMMA NewStateType ==
  ASSUME req \in [Requests -> Submissions], NEW r \in Requests
  PROVE  NewState(r) \in GameStates
<1>1. req[r].work \in GameStates
  BY DEF Submissions
<1>2. req[r].work.narr \in Seq(Requests)
  BY <1>1 DEF GameStates
<1>3. Append(req[r].work.narr, r) \in Seq(Requests)
  BY <1>2
<1>4. QED
  BY <1>1, <1>3 DEF NewState, GameStates

LEMMA PersistType ==
  ASSUME TypeOK, NEW r \in Requests, Persist(r)
  PROVE  /\ row' \in [status : {"active", "completed", "abandoned"}, turnCount : Nat,
                      state : GameStates, outcome : Nat]
         /\ turnLog' \subseteq TurnEntries
         /\ playCount' \in Nat
<1> USE DEF TypeOK
<1>1. req[r].loaded.turnCount \in Nat /\ req[r].who \in Participants
  BY DEF Submissions
<1>2. req[r].loaded.turnCount + 1 \in Nat \ {0}
  BY <1>1
<1>3. row' \in [status : {"active", "completed", "abandoned"}, turnCount : Nat,
                state : GameStates, outcome : Nat]
  BY <1>2, NewStateType DEF Persist
<1>4. turnLog' \subseteq TurnEntries
  BY <1>1, <1>2 DEF Persist, TurnEntries
<1>5. playCount' \in Nat
  BY DEF Persist
<1>6. QED
  BY <1>3, <1>4, <1>5

LEMMA TypeInit == Init => TypeOK
<1> SUFFICES ASSUME Init PROVE TypeOK
  OBVIOUS
<1>1. participants \in Seq(Participants) \ {<<>>}
  <2>1. PICK n \in 1..Cardinality(Participants) : participants \in [1..n -> Participants]
    BY DEF Init
  <2>2. n \in Nat \ {0}
    BY FS_CardinalityType, ParticipantsAssumption
  <2>3. participants \in Seq(Participants) /\ Len(participants) = n
    BY <2>1, <2>2
  <2>4. QED
    BY <2>2, <2>3
<1>2. row \in [status : {"active", "completed", "abandoned"}, turnCount : Nat,
               state : GameStates, outcome : Nat]
  BY DEF Init, EmptyState, GameStates, NoMinigame, NoOutcome
<1>3. req \in [Requests -> Submissions]
  BY IdleType DEF Init
<1>4. QED
  BY <1>1, <1>2, <1>3 DEF Init, TypeOK

LEMMA TypeStep == TypeOK /\ [Next]_vars => TypeOK'
<1> SUFFICES ASSUME TypeOK, [Next]_vars PROVE TypeOK'
  OBVIOUS
<1> USE DEF TypeOK
<1>1. ASSUME NEW r \in Requests, NEW p \in Participants, NEW attempt \in 0..issued,
             Receive(r, p, attempt)
      PROVE  TypeOK'
  <2>1. attempt \in Nat
    OBVIOUS
  <2>2. CASE IsActive
    <3> DEFINE q == [req[r] EXCEPT !.pc = "received", !.who = p, !.attempt = attempt,
              !.seen = [turnCount |-> row.turnCount, pending |-> row.state.pending]]
    <3>0. row.state.pending \in Nat /\ row.turnCount \in Nat
      BY DEF GameStates
    <3>3. q \in Submissions
      BY <2>1, <3>0 DEF Submissions, InFlight
    <3>1. req' \in [Requests -> Submissions]
      BY <1>1, <2>2, <3>3, UpdateType DEF Receive
    <3>2. QED
      BY <1>1, <3>1 DEF Receive
  <2>3. CASE ~IsActive
    <3>1. req' \in [Requests -> Submissions]
      BY <1>1, <2>3, FinishType DEF Receive, Settled
    <3>2. QED
      BY <1>1, <3>1 DEF Receive
  <2>4. QED
    BY <2>2, <2>3
<1>2. ASSUME NEW r \in Requests, Validate(r) PROVE TypeOK'
  <2>1. req' \in [Requests -> Submissions]
    BY <1>2, FinishType, GotoType DEF Validate, Settled, InFlight
  <2>2. QED
    BY <1>2, <2>1 DEF Validate
<1>3. ASSUME NEW r \in Requests, Load(r) PROVE TypeOK'
  <2> DEFINE q == [req[r] EXCEPT !.pc = "loaded",
                                 !.loaded = [turnCount |-> row.turnCount, state |-> row.state]]
  <2>0. q \in Submissions
    BY DEF Submissions, InFlight, Streaming
  <2>1. req' \in [Requests -> Submissions]
    BY <1>3, <2>0, UpdateType DEF Load
  <2>2. QED
    BY <1>3, <2>1 DEF Load
<1>4. ASSUME NEW r \in Requests, Intake(r) PROVE TypeOK'
  <2> DEFINE q == [req[r] EXCEPT !.pc = "narrating", !.members = participants,
                                 !.work = Resolved(req[r])]
  <2>1. Resolved(req[r]) \in GameStates
    <3>1. req[r].loaded.state \in GameStates /\ req[r].attempt \in Nat
      BY DEF Submissions
    <3>2. Append(req[r].loaded.state.outcomes, req[r].attempt) \in Seq(Nat)
      BY <3>1 DEF GameStates
    <3>3. QED
      BY <3>1, <3>2 DEF Resolved, GameStates, NoMinigame
  <2>0. q \in Submissions
    BY <2>1 DEF Submissions, InFlight, Streaming
  <2>2. req' \in [Requests -> Submissions]
    BY <1>4, <2>0, UpdateType DEF Intake
  <2>3. QED
    BY <1>4, <2>2 DEF Intake
<1>5. ASSUME NEW r \in Requests, NEW won \in BOOLEAN, Narrate(r, won) PROVE TypeOK'
  <2> DEFINE w == [req[r].work EXCEPT !.won = won]
             q == [req[r] EXCEPT !.pc = "writing", !.work = w]
  <2>0. q \in Submissions
    <3>1. w \in GameStates
      BY DEF Submissions, GameStates
    <3>2. QED
      BY <3>1 DEF Submissions, InFlight, Streaming
  <2>1. req' \in [Requests -> Submissions]
    BY <1>5, <2>0, UpdateType DEF Narrate
  <2>2. QED
    BY <1>5, <2>1 DEF Narrate
<1>6. ASSUME NEW r \in Requests, NEW won \in BOOLEAN, NarrateAndTrigger(r, won) PROVE TypeOK'
  <2> DEFINE w == [req[r].work EXCEPT !.won = won, !.pending = issued + 1]
             q == [req[r] EXCEPT !.pc = "writing", !.work = w]
  <2>0. q \in Submissions
    <3>1. req[r].work \in GameStates /\ issued + 1 \in Nat
      BY DEF Submissions
    <3>2. w \in GameStates
      BY <3>1 DEF GameStates
    <3>3. QED
      BY <3>2 DEF Submissions, InFlight, Streaming
  <2>1. req' \in [Requests -> Submissions]
    BY <1>6, <2>0, UpdateType DEF NarrateAndTrigger
  <2>2. QED
    BY <1>6, <2>1 DEF NarrateAndTrigger
<1>7. ASSUME NEW r \in Requests, NarrationFails(r) PROVE TypeOK'
  <2>1. req' \in [Requests -> Submissions]
    BY <1>7, FinishType DEF NarrationFails, Settled
  <2>2. QED
    BY <1>7, <2>1 DEF NarrationFails
<1>8. ASSUME NEW r \in Requests, WriteCommits(r) PROVE TypeOK'
  <2>1. req' \in [Requests -> Submissions]
    BY <1>8, GotoType DEF WriteCommits, InFlight, Streaming
  <2>2. QED
    BY <1>8, <2>1, PersistType DEF WriteCommits
<1>9. ASSUME NEW r \in Requests, WriteCommitsReplyLost(r) PROVE TypeOK'
  <2>1. req' \in [Requests -> Submissions]
    BY <1>9, RetryType DEF WriteCommitsReplyLost
  <2>2. QED
    BY <1>9, <2>1, PersistType DEF WriteCommitsReplyLost
<1>10. ASSUME NEW r \in Requests, WriteFails(r) PROVE TypeOK'
  <2>1. req' \in [Requests -> Submissions]
    BY <1>10, RetryType DEF WriteFails
  <2>2. QED
    BY <1>10, <2>1 DEF WriteFails
<1>11. ASSUME NEW r \in Requests, WriteConflicts(r) PROVE TypeOK'
  <2>1. req' \in [Requests -> Submissions]
    BY <1>11, FinishType DEF WriteConflicts, Settled
  <2>2. QED
    BY <1>11, <2>1 DEF WriteConflicts
<1>12. ASSUME NEW r \in Requests, MarkEnded(r) PROVE TypeOK'
  <2>1. req' \in [Requests -> Submissions]
    BY <1>12, GotoType DEF MarkEnded, InFlight, Streaming
  <2>2. TurnOf(r) \in Nat
    BY DEF TurnOf, Submissions
  <2>3. QED
    BY <1>12, <2>1, <2>2 DEF MarkEnded
<1>13. ASSUME NEW r \in Requests, MarkEndedFails(r) PROVE TypeOK'
  <2>1. req' \in [Requests -> Submissions]
    BY <1>13, FinishType DEF MarkEndedFails, Settled
  <2>2. QED
    BY <1>13, <2>1 DEF MarkEndedFails
<1>14. ASSUME NEW r \in Requests, FlushMemory(r) PROVE TypeOK'
  <2>1. req' \in [Requests -> Submissions]
    BY <1>14, GotoType DEF FlushMemory, InFlight, Streaming
  <2>2. Batch(r) \subseteq [number : Int, req : Requests]
    <3>1. NewState(r).narr \in Seq(Requests) /\ TurnOf(r) \in Nat
      <4>1. NewState(r) \in GameStates
        BY NewStateType
      <4>2. req[r].loaded.turnCount \in Nat
        BY DEF Submissions
      <4>3. QED
        BY <4>1, <4>2 DEF GameStates, TurnOf
    <3>2. MemoryInterval \in Nat \ {0}
      BY SettingsAssumption
    <3> DEFINE narr == NewState(r).narr
               firstSent == IF Len(narr) > MemoryInterval THEN Len(narr) - MemoryInterval + 1 ELSE 1
    <3>3. firstSent \in Nat \ {0} /\ Len(narr) \in Nat
      BY <3>1, <3>2
    <3>4. ASSUME NEW i \in firstSent..Len(narr)
          PROVE  TurnOf(r) - Len(narr) + i \in Int /\ narr[i] \in Requests
      BY <3>1, <3>3
    <3>5. QED
      BY <3>4 DEF Batch
  <2>3. QED
    BY <1>14, <2>1, <2>2 DEF FlushMemory
<1>15. ASSUME NEW r \in Requests, Announce(r) PROVE TypeOK'
  <2>1. req' \in [Requests -> Submissions]
    BY <1>15, FinishType DEF Announce, Settled
  <2>2. req[r].members \in Seq(Participants) /\ TurnOf(r) \in Nat
    BY DEF TurnOf, Submissions
  <2>3. Len(req[r].members) > 1 => Expected(req[r].members, TurnOf(r)) \in Participants
    BY <2>2, ExpectedType
  <2>4. notices' \subseteq [turn : Nat, to : Participants]
    BY <1>15, <2>2, <2>3 DEF Announce
  <2>5. QED
    BY <1>15, <2>1, <2>4 DEF Announce
<1>16. ASSUME NEW r \in Requests, Disconnect(r) PROVE TypeOK'
  <2>1. req' \in [Requests -> Submissions]
    BY <1>16, FinishType DEF Disconnect, Settled
  <2>2. QED
    BY <1>16, <2>1 DEF Disconnect
<1>17. CASE UNCHANGED vars
  BY <1>17 DEF vars
<1>18. QED
  BY <1>1, <1>2, <1>3, <1>4, <1>5, <1>6, <1>7, <1>8, <1>9, <1>10, <1>11, <1>12,
     <1>13, <1>14, <1>15, <1>16, <1>17 DEF Next, Submit, Progress, Write

(* Every variable of the pipeline keeps its type.                             *)
THEOREM TypeCorrect == Spec => []TypeOK
BY TypeInit, TypeStep, PTL DEF Spec

-----------------------------------------------------------------------------
(* The story: log, narrative, counters and running coroutines agree.        *)

LocalInv(r) == /\ SnapshotIsPast(r)
               /\ WorkKeepsNarrative(r)
               /\ TurnComesFromWrite(r)
               /\ WrittenHasTurn(r)
               /\ BatchIsLogged(r)

SharedInv == /\ LogDense
             /\ NarrativeMatchesLog
             /\ OneTurnPerRequest
             /\ PlayCountedOnce
             /\ MemoryMatchesLog

(* A step that writes no turn. *)
Quiet == /\ turnLog' = turnLog
         /\ row'.turnCount = row.turnCount
         /\ row'.state = row.state
         /\ playCount' = playCount

(* Such a step keeps the shared invariant, unless it sends to memory.         *)
LEMMA QuietShared ==
  ASSUME SharedInv, Quiet, delivered' = delivered
  PROVE  SharedInv'
BY DEF SharedInv, Quiet, LogDense, NarrativeMatchesLog, OneTurnPerRequest,
       PlayCountedOnce, MemoryMatchesLog

(* Such a step keeps the invariant of every submission it does not move.      *)
LEMMA QuietLocal ==
  ASSUME Quiet, NEW s \in Requests, LocalInv(s), req'[s] = req[s]
  PROVE  LocalInv(s)'
<1>1. HasTurn(s)' <=> HasTurn(s)
  BY DEF HasTurn, Quiet
<1>2. TurnOf(s)' = TurnOf(s) /\ NewState(s)' = NewState(s)
  BY DEF TurnOf, NewState
<1>3. SnapshotIsPast(s)' /\ WorkKeepsNarrative(s)'
  BY DEF LocalInv, SnapshotIsPast, WorkKeepsNarrative, Quiet
<1>4. TurnComesFromWrite(s)' /\ WrittenHasTurn(s)'
  BY <1>1 DEF LocalInv, TurnComesFromWrite, WrittenHasTurn, Quiet
<1>5. BatchIsLogged(s)'
  BY <1>2 DEF LocalInv, BatchIsLogged, Quiet
<1>6. QED
  BY <1>3, <1>4, <1>5 DEF LocalInv

(* A coroutine that ends keeps the invariant; "done" needs its turn.          *)
LEMMA FinishLocal ==
  ASSUME TypeOK, Quiet, NEW r \in Requests, NEW outcome \in Settled, Finish(r, outcome),
         outcome = "done" => HasTurn(r)
  PROVE  LocalInv(r)'
<1>1. req'[r] = [Idle EXCEPT !.pc = outcome]
  BY DEF Finish, TypeOK
<1>2. req'[r].pc = outcome
  BY <1>1 DEF Idle
<1>3. HasTurn(r)' <=> HasTurn(r)
  BY DEF HasTurn, Quiet
<1>4. SnapshotIsPast(r)' /\ WorkKeepsNarrative(r)'
  BY <1>2 DEF SnapshotIsPast, WorkKeepsNarrative, Settled, Streaming
<1>5. TurnComesFromWrite(r)' /\ WrittenHasTurn(r)'
  BY <1>2, <1>3 DEF TurnComesFromWrite, WrittenHasTurn, Settled
<1>6. BatchIsLogged(r)'
  BY <1>2 DEF BatchIsLogged, Settled
<1>7. QED
  BY <1>4, <1>5, <1>6 DEF LocalInv

(* A submission that only moves its program counter between two stages after  *)
(* the write keeps the invariant.                                             *)
LEMMA GotoLocal ==
  ASSUME TypeOK, Quiet, NEW r \in Requests, LocalInv(r),
         NEW pc \in {"admitted", "ended", "flushed"}, Goto(r, pc),
         pc = "admitted" => req[r].pc = "received",
         pc = "ended" => req[r].pc = "written",
         pc = "flushed" => req[r].pc \in {"written", "ended"}
  PROVE  LocalInv(r)'
<1>1. req'[r] = [req[r] EXCEPT !.pc = pc]
  BY DEF Goto, TypeOK
<1>2. /\ req'[r].pc = pc
      /\ req'[r].loaded = req[r].loaded
      /\ req'[r].work = req[r].work
  BY <1>1 DEF TypeOK, Submissions
<1>3. HasTurn(r)' <=> HasTurn(r)
  BY DEF HasTurn, Quiet
<1>4. TurnOf(r)' = TurnOf(r) /\ NewState(r)' = NewState(r)
  BY <1>2 DEF TurnOf, NewState
<1>5. SnapshotIsPast(r)' /\ WorkKeepsNarrative(r)'
  BY <1>2 DEF LocalInv, SnapshotIsPast, WorkKeepsNarrative, Streaming, Quiet
<1>6. TurnComesFromWrite(r)' /\ WrittenHasTurn(r)'
  BY <1>2, <1>3 DEF LocalInv, TurnComesFromWrite, WrittenHasTurn
<1>7. BatchIsLogged(r)'
  BY <1>2, <1>4 DEF LocalInv, BatchIsLogged, Quiet
<1>8. QED
  BY <1>5, <1>6, <1>7 DEF LocalInv

-----------------------------------------------------------------------------
(* The step that writes a turn. *)

(* The lock holds on the snapshot, so the write appends to the narrative that *)
(* is in the row.                                                             *)
LEMMA PersistAppends ==
  ASSUME TypeOK, SharedInv, NEW r \in Requests, LocalInv(r), req[r].pc = "writing", Persist(r)
  PROVE  /\ ~HasTurn(r)
         /\ req[r].loaded.turnCount = row.turnCount
         /\ row'.turnCount = row.turnCount + 1
         /\ row'.state = NewState(r)
         /\ NewState(r).narr = Append(row.state.narr, r)
         /\ turnLog' = turnLog \cup {[number |-> row.turnCount + 1, req |-> r, who |-> req[r].who]}
<1>1. req[r].loaded.turnCount = row.turnCount
  BY DEF Persist, LockHolds
<1>2. row.turnCount \in Nat
  BY DEF TypeOK
<1>3. ~HasTurn(r)
  BY <1>1, <1>2 DEF LocalInv, TurnComesFromWrite
<1>4. req[r].work.narr = row.state.narr
  BY <1>1 DEF LocalInv, WorkKeepsNarrative, SnapshotIsPast, Streaming
<1>5. NewState(r).narr = Append(row.state.narr, r)
  <2>1. req[r].work \in GameStates
    BY DEF TypeOK, Submissions
  <2>2. QED
    BY <1>4, <2>1 DEF NewState, GameStates
<1>6. row'.turnCount = row.turnCount + 1 /\ row'.state = NewState(r)
  BY <1>1 DEF Persist, TypeOK
<1>7. QED
  BY <1>1, <1>3, <1>5, <1>6 DEF Persist

LEMMA PersistShared ==
  ASSUME TypeOK, SharedInv, NEW r \in Requests, LocalInv(r), req[r].pc = "writing",
         Persist(r), delivered' = delivered
  PROVE  SharedInv'
<1> DEFINE n == row.turnCount
           new == [number |-> n + 1, req |-> r, who |-> req[r].who]
<1>1. n \in Nat /\ row.state.narr \in Seq(Requests) /\ Len(row.state.narr) = n
  BY DEF TypeOK, GameStates, SharedInv, NarrativeMatchesLog
<1>2. \A e \in turnLog : e.number \in 1..n /\ e.req # r
  BY PersistAppends DEF HasTurn, SharedInv, LogDense
<1>3. row'.turnCount = n + 1 /\ row'.state.narr = Append(row.state.narr, r)
  BY PersistAppends
<1>4. turnLog' = turnLog \cup {new}
  BY PersistAppends
<1>5. LogDense'
  <2>1. {e.number : e \in turnLog'} = {e.number : e \in turnLog} \cup {n + 1}
    <3>1. new.number = n + 1
      OBVIOUS
    <3> HIDE DEF new
    <3>2. QED
      BY <1>4, <3>1
  <2>2. {e.number : e \in turnLog} = 1..n
    BY DEF SharedInv, LogDense
  <2>3. {e.number : e \in turnLog'} = 1..(n + 1)
    <3>1. 1..(n + 1) = 1..n \cup {n + 1}
      BY <1>1
    <3>2. QED
      BY <2>1, <2>2, <3>1
  <2>4. \A e, f \in turnLog' : e.number = f.number => e = f
    BY <1>1, <1>2, <1>4 DEF SharedInv, LogDense
  <2>5. QED
    BY <1>3, <2>3, <2>4 DEF LogDense
<1>6. NarrativeMatchesLog'
  <2>1. Len(row'.state.narr) = row'.turnCount
    <3>1. Len(Append(row.state.narr, r)) = n + 1
      BY <1>1
    <3>2. QED
      BY <1>3, <3>1
  <2>2. ASSUME NEW e \in turnLog' PROVE row'.state.narr[e.number] = e.req
    <3>1. CASE e \in turnLog
      <4>1. e.number \in 1..n /\ row.state.narr[e.number] = e.req
        BY <1>2, <3>1 DEF SharedInv, NarrativeMatchesLog
      <4>2. Append(row.state.narr, r)[e.number] = row.state.narr[e.number]
        BY <1>1, <4>1
      <4>3. QED
        BY <1>3, <4>1, <4>2
    <3>2. CASE e = new
      BY <1>1, <1>3, <3>2
    <3>3. QED
      BY <1>4, <3>1, <3>2
  <2>3. QED
    BY <2>1, <2>2 DEF NarrativeMatchesLog
<1>7. OneTurnPerRequest'
  BY <1>2, <1>4 DEF SharedInv, OneTurnPerRequest
<1>8. PlayCountedOnce'
  <2>1. PlayCountThreshold \in Nat
    BY SettingsAssumption
  <2>2. playCount' = IF CountsAsPlay(n + 1) THEN playCount + 1 ELSE playCount
    BY PersistAppends DEF Persist
  <2>3. QED
    BY <1>1, <1>3, <2>1, <2>2 DEF SharedInv, PlayCountedOnce, CountsAsPlay
<1>9. MemoryMatchesLog'
  BY <1>4 DEF SharedInv, MemoryMatchesLog
<1>10. QED
  BY <1>5, <1>6, <1>7, <1>8, <1>9 DEF SharedInv

(* The other submissions only see the log grow by a turn that is not theirs.  *)
LEMMA PersistLocalOther ==
  ASSUME TypeOK, SharedInv, NEW r \in Requests, LocalInv(r), req[r].pc = "writing", Persist(r),
         NEW s \in Requests, s # r, LocalInv(s), req'[s] = req[s]
  PROVE  LocalInv(s)'
<1>1. HasTurn(s)' <=> HasTurn(s)
  BY PersistAppends DEF HasTurn
<1>2. TurnOf(s)' = TurnOf(s) /\ NewState(s)' = NewState(s)
  BY DEF TurnOf, NewState
<1>3. row'.turnCount = row.turnCount + 1 /\ row.turnCount \in Nat
  BY PersistAppends DEF TypeOK
<1>4. req[s].loaded.turnCount \in Nat
  BY DEF TypeOK, Submissions
<1>5. SnapshotIsPast(s)' /\ WorkKeepsNarrative(s)'
  BY <1>3, <1>4 DEF LocalInv, SnapshotIsPast, WorkKeepsNarrative
<1>6. TurnComesFromWrite(s)' /\ WrittenHasTurn(s)'
  BY <1>1, <1>3, <1>4 DEF LocalInv, TurnComesFromWrite, WrittenHasTurn
<1>7. turnLog \subseteq turnLog'
  BY PersistAppends
<1>8. BatchIsLogged(s)'
  BY <1>2, <1>7 DEF LocalInv, BatchIsLogged
<1>9. QED
  BY <1>5, <1>6, <1>8 DEF LocalInv

(* The writer itself, when the commit is acknowledged...                      *)
LEMMA PersistLocalWritten ==
  ASSUME TypeOK, SharedInv, NEW r \in Requests, LocalInv(r), req[r].pc = "writing",
         Persist(r), Goto(r, "written"), delivered' = delivered
  PROVE  LocalInv(r)'
<1>1. req'[r] = [req[r] EXCEPT !.pc = "written"]
  BY DEF Goto, TypeOK
<1>2. /\ req'[r].pc = "written"
      /\ req'[r].loaded = req[r].loaded
      /\ req'[r].work = req[r].work
  BY <1>1 DEF TypeOK, Submissions
<1>3. row'.turnCount = row.turnCount + 1 /\ row.turnCount \in Nat
  BY PersistAppends DEF TypeOK
<1>4. req[r].loaded.turnCount = row.turnCount
  BY PersistAppends
<1>5. HasTurn(r)'
  <2>1. PICK e : e \in turnLog' /\ e.req = r
    <3> DEFINE new == [number |-> row.turnCount + 1, req |-> r, who |-> req[r].who]
    <3>1. new \in turnLog' /\ new.req = r
      BY PersistAppends
    <3>2. QED
      BY <3>1
  <2>2. QED
    BY <2>1 DEF HasTurn
<1>6. SnapshotIsPast(r)' /\ WorkKeepsNarrative(r)'
  BY <1>2, <1>3, <1>4 DEF LocalInv, SnapshotIsPast, WorkKeepsNarrative, Streaming
<1>7. TurnComesFromWrite(r)' /\ WrittenHasTurn(r)'
  BY <1>2, <1>5 DEF TurnComesFromWrite, WrittenHasTurn
<1>8. BatchIsLogged(r)'
  <2>1. TurnOf(r)' = row'.turnCount
    BY <1>2, <1>3, <1>4 DEF TurnOf
  <2>2. NewState(r)'.narr = row'.state.narr
    BY <1>2, PersistAppends DEF NewState
  <2>3. LogDense' /\ NarrativeMatchesLog'
    BY PersistShared DEF SharedInv
  <2>4. ASSUME NEW i \in 1..TurnOf(r)'
        PROVE  \E e \in turnLog' : e.number = i /\ e.req = NewState(r)'.narr[i]
    <3>1. i \in {e.number : e \in turnLog'}
      BY <2>1, <2>3 DEF LogDense
    <3>2. PICK e \in turnLog' : e.number = i
      BY <3>1
    <3>3. e.req = NewState(r)'.narr[i]
      BY <2>2, <2>3, <3>2 DEF NarrativeMatchesLog
    <3>4. QED
      BY <3>2, <3>3
  <2>5. QED
    BY <2>4 DEF BatchIsLogged
<1>9. QED
  BY <1>6, <1>7, <1>8 DEF LocalInv

(* ...and when its reply is lost, or the transaction fails: another attempt   *)
(* is made, or the submission is degraded.                                    *)
LEMMA RetryLocal ==
  ASSUME TypeOK, NEW r \in Requests, LocalInv(r), req[r].pc = "writing", Retry(r),
         \/ Quiet
         \/ SharedInv /\ Persist(r)
  PROVE  LocalInv(r)'
<1>1. CASE Quiet /\ req[r].tries + 1 < WriteAttempts
  <2>1. req'[r] = [req[r] EXCEPT !.tries = req[r].tries + 1]
    BY <1>1 DEF Retry, TypeOK
  <2>2. /\ req'[r].pc = "writing"
        /\ req'[r].loaded = req[r].loaded
        /\ req'[r].work = req[r].work
    BY <2>1 DEF TypeOK, Submissions
  <2>3. HasTurn(r)' <=> HasTurn(r)
    BY <1>1 DEF HasTurn, Quiet
  <2>4. SnapshotIsPast(r)' /\ WorkKeepsNarrative(r)'
    BY <1>1, <2>2 DEF LocalInv, SnapshotIsPast, WorkKeepsNarrative, Quiet
  <2>5. TurnComesFromWrite(r)' /\ WrittenHasTurn(r)' /\ BatchIsLogged(r)'
    BY <1>1, <2>2, <2>3 DEF LocalInv, TurnComesFromWrite, WrittenHasTurn, BatchIsLogged, Quiet
  <2>6. QED
    BY <2>4, <2>5 DEF LocalInv
<1>2. CASE SharedInv /\ Persist(r) /\ req[r].tries + 1 < WriteAttempts
  <2>1. req'[r] = [req[r] EXCEPT !.tries = req[r].tries + 1]
    BY <1>2 DEF Retry, TypeOK
  <2>2. /\ req'[r].pc = "writing"
        /\ req'[r].loaded = req[r].loaded
        /\ req'[r].work = req[r].work
    BY <2>1 DEF TypeOK, Submissions
  <2>3. /\ row'.turnCount = row.turnCount + 1
        /\ row.turnCount \in Nat
        /\ req[r].loaded.turnCount = row.turnCount
    BY <1>2, PersistAppends DEF TypeOK
  <2>4. SnapshotIsPast(r)' /\ WorkKeepsNarrative(r)'
    BY <2>2, <2>3 DEF LocalInv, SnapshotIsPast, WorkKeepsNarrative, Streaming
  <2>5. TurnComesFromWrite(r)' /\ WrittenHasTurn(r)' /\ BatchIsLogged(r)'
    BY <2>2, <2>3 DEF TurnComesFromWrite, WrittenHasTurn, BatchIsLogged
  <2>6. QED
    BY <2>4, <2>5 DEF LocalInv
<1>3. CASE ~(req[r].tries + 1 < WriteAttempts)
  <2>1. req'[r] = [Idle EXCEPT !.pc = "degraded"]
    BY <1>3 DEF Retry, Finish, TypeOK
  <2>2. req'[r].pc = "degraded"
    BY <2>1 DEF Idle
  <2>3. SnapshotIsPast(r)' /\ WorkKeepsNarrative(r)'
    BY <2>2 DEF SnapshotIsPast, WorkKeepsNarrative, Streaming
  <2>4. TurnComesFromWrite(r)' /\ WrittenHasTurn(r)' /\ BatchIsLogged(r)'
    BY <2>2 DEF TurnComesFromWrite, WrittenHasTurn, BatchIsLogged
  <2>5. QED
    BY <2>3, <2>4 DEF LocalInv
<1>4. QED
  BY <1>1, <1>2, <1>3

(* A coroutine that has not written yet moves on with locals that agree with  *)
(* the row it read.                                                           *)
LEMMA EarlyLocal ==
  ASSUME Quiet, NEW r \in Requests, LocalInv(r),
         req[r].pc \in {"idle", "received", "admitted", "loaded", "narrating"},
         req'[r].pc \in {"received", "loaded", "narrating", "writing"},
         SnapshotIsPast(r)', WorkKeepsNarrative(r)'
  PROVE  LocalInv(r)'
<1>1. ~HasTurn(r)'
  BY DEF HasTurn, Quiet, LocalInv, TurnComesFromWrite
<1>2. TurnComesFromWrite(r)' /\ WrittenHasTurn(r)' /\ BatchIsLogged(r)'
  BY <1>1 DEF TurnComesFromWrite, WrittenHasTurn, BatchIsLogged
<1>3. QED
  BY <1>2 DEF LocalInv

-----------------------------------------------------------------------------
(* Every step keeps the story consistent. *)

LEMMA StoryInit == Init => SharedInv /\ \A r \in Requests : LocalInv(r)
<1> SUFFICES ASSUME Init PROVE SharedInv /\ \A r \in Requests : LocalInv(r)
  OBVIOUS
<1>1. turnLog = {} /\ delivered = {} /\ playCount = 0 /\ row.turnCount = 0
      /\ row.state.narr = <<>>
  BY DEF Init, EmptyState
<1>2. \A r \in Requests : req[r].pc = "idle"
  BY DEF Init, Idle
<1>3. SharedInv
  <2>1. LogDense
    BY <1>1 DEF LogDense
  <2>2. PlayCountedOnce
    BY <1>1, SettingsAssumption DEF PlayCountedOnce
  <2>3. NarrativeMatchesLog /\ OneTurnPerRequest /\ MemoryMatchesLog
    BY <1>1 DEF NarrativeMatchesLog, OneTurnPerRequest, MemoryMatchesLog
  <2>4. QED
    BY <2>1, <2>2, <2>3 DEF SharedInv
<1>4. ASSUME NEW r \in Requests PROVE LocalInv(r)
  BY <1>1, <1>2 DEF LocalInv, SnapshotIsPast, WorkKeepsNarrative, TurnComesFromWrite,
     HasTurn, WrittenHasTurn, BatchIsLogged, Streaming
<1>5. QED
  BY <1>3, <1>4

(* What a memory batch sends is in the log.                                   *)
LEMMA FlushShared ==
  ASSUME TypeOK, SharedInv, NEW r \in Requests, LocalInv(r), FlushMemory(r)
  PROVE  SharedInv'
<1>1. Quiet
  BY DEF FlushMemory, Quiet
<1>2. req[r].pc \in {"written", "ended"}
  BY DEF FlushMemory
<1>3. Len(NewState(r).narr) = TurnOf(r) /\ TurnOf(r) \in Nat
  <2>1. req[r].work \in GameStates /\ req[r].loaded.turnCount \in Nat
    BY DEF TypeOK, Submissions
  <2>2. Len(req[r].work.narr) = req[r].loaded.turnCount
    BY <1>2 DEF LocalInv, SnapshotIsPast, WorkKeepsNarrative, Streaming
  <2>3. NewState(r).narr = Append(req[r].work.narr, r)
    BY <2>1 DEF NewState, GameStates
  <2>4. QED
    BY <2>1, <2>2, <2>3 DEF TurnOf, GameStates
<1>4. ASSUME NEW m \in Batch(r)
      PROVE  \E e \in turnLog : e.number = m.number /\ e.req = m.req
  <2> DEFINE narr == NewState(r).narr
             firstSent == IF Len(narr) > MemoryInterval THEN Len(narr) - MemoryInterval + 1 ELSE 1
  <2>1. PICK i \in firstSent..Len(narr) :
          m = [number |-> TurnOf(r) - Len(narr) + i, req |-> narr[i]]
    BY DEF Batch
  <2>2. i \in 1..TurnOf(r)
    BY <1>3, <2>1, SettingsAssumption
  <2>3. m.number = i /\ m.req = narr[i]
    BY <1>3, <2>1, <2>2
  <2>4. QED
    BY <1>2, <2>2, <2>3 DEF LocalInv, BatchIsLogged
<1>5. delivered' \subseteq delivered \cup Batch(r)
  BY DEF FlushMemory
<1>6. MemoryMatchesLog'
  BY <1>1, <1>4, <1>5 DEF SharedInv, MemoryMatchesLog, Quiet
<1>7. (LogDense /\ NarrativeMatchesLog /\ OneTurnPerRequest /\ PlayCountedOnce)'
  BY <1>1 DEF SharedInv, Quiet, LogDense, NarrativeMatchesLog, OneTurnPerRequest, PlayCountedOnce
<1>8. QED
  BY <1>6, <1>7 DEF SharedInv

(* A step of one submission leaves the locals of the others alone.           *)
LEMMA OneMoves ==
  ASSUME TypeOK, NEW r \in Requests, NEW s \in Requests \ {r},
         Submit(r) \/ Progress(r) \/ Disconnect(r)
  PROVE  req'[s] = req[s]
BY DEF TypeOK, Submit, Receive, Progress, Validate, Load, Intake, Narrate,
   NarrateAndTrigger, NarrationFails, Write, WriteCommits, WriteCommitsReplyLost, WriteFails,
   WriteConflicts, MarkEnded, MarkEndedFails, FlushMemory, Announce, Disconnect, Goto, Finish,
   Retry

LEMMA StoryStep ==
  ASSUME TypeOK, SharedInv, \A r \in Requests : LocalInv(r), [Next]_vars
  PROVE  SharedInv' /\ \A r \in Requests : LocalInv(r)'
<1>1. ASSUME NEW r \in Requests, NEW s \in Requests \ {r},
             Submit(r) \/ Progress(r) \/ Disconnect(r)
      PROVE  req'[s] = req[s]
  BY <1>1, OneMoves
(* A quiet step of r that sends nothing only has to keep r's own invariant.  *)
<1>2. ASSUME NEW r \in Requests, Quiet, delivered' = delivered, LocalInv(r)',
             \A s \in Requests \ {r} : req'[s] = req[s]
      PROVE  SharedInv' /\ \A s \in Requests : LocalInv(s)'
  BY <1>2, QuietShared, QuietLocal
<1>3. ASSUME NEW r \in Requests, Submit(r)
      PROVE  SharedInv' /\ \A s \in Requests : LocalInv(s)'
  <2>1. PICK p \in Participants, attempt \in 0..issued : Receive(r, p, attempt)
    BY <1>3 DEF Submit
  <2>2. Quiet /\ delivered' = delivered
    BY <2>1 DEF Receive, Quiet
  <2>3. LocalInv(r)'
    <3>1. CASE IsActive
      <4>1. req'[r] = [req[r] EXCEPT !.pc = "received", !.who = p, !.attempt = attempt,
                !.seen = [turnCount |-> row.turnCount, pending |-> row.state.pending]]
        BY <2>1, <3>1 DEF Receive, TypeOK
      <4>2. req'[r].pc = "received"
        BY <4>1 DEF TypeOK, Submissions
      <4>3. SnapshotIsPast(r)' /\ WorkKeepsNarrative(r)'
        BY <4>2 DEF SnapshotIsPast, WorkKeepsNarrative, Streaming
      <4>4. QED
        BY <2>1, <2>2, <4>2, <4>3, EarlyLocal DEF Receive
    <3>2. CASE ~IsActive
      BY <2>1, <2>2, <3>2, FinishLocal DEF Receive, Settled
    <3>3. QED
      BY <3>1, <3>2
  <2>4. QED
    BY <1>1, <1>2, <1>3, <2>2, <2>3
<1>4. ASSUME NEW r \in Requests, Validate(r)
      PROVE  SharedInv' /\ \A s \in Requests : LocalInv(s)'
  <2>1. Quiet /\ delivered' = delivered
    BY <1>4 DEF Validate, Quiet
  <2>2. LocalInv(r)'
    BY <1>4, <2>1, FinishLocal, GotoLocal DEF Validate, Settled
  <2>3. QED
    BY <1>1, <1>2, <1>4, <2>1, <2>2 DEF Progress
<1>5. ASSUME NEW r \in Requests, Load(r)
      PROVE  SharedInv' /\ \A s \in Requests : LocalInv(s)'
  <2>1. Quiet /\ delivered' = delivered
    BY <1>5 DEF Load, Quiet
  <2>2. req'[r] = [req[r] EXCEPT !.pc = "loaded",
                      !.loaded = [turnCount |-> row.turnCount, state |-> row.state]]
    BY <1>5 DEF Load, TypeOK
  <2>3. /\ req'[r].pc = "loaded"
        /\ req'[r].loaded.turnCount = row.turnCount
        /\ req'[r].loaded.state = row.state
    BY <2>2 DEF TypeOK, Submissions
  <2>4. SnapshotIsPast(r)'
    BY <2>1, <2>3 DEF SnapshotIsPast, Quiet, SharedInv, NarrativeMatchesLog, TypeOK
  <2>5. WorkKeepsNarrative(r)'
    BY <2>3 DEF WorkKeepsNarrative
  <2>6. LocalInv(r)'
    BY <1>5, <2>1, <2>3, <2>4, <2>5, EarlyLocal DEF Load
  <2>7. QED
    BY <1>1, <1>2, <1>5, <2>1, <2>6 DEF Progress
<1>6. ASSUME NEW r \in Requests, Intake(r)
      PROVE  SharedInv' /\ \A s \in Requests : LocalInv(s)'
  <2>1. Quiet /\ delivered' = delivered
    BY <1>6 DEF Intake, Quiet
  <2>2. req'[r] = [req[r] EXCEPT !.pc = "narrating", !.members = participants,
                                 !.work = Resolved(req[r])]
    BY <1>6 DEF Intake, TypeOK
  <2>3. /\ req'[r].pc = "narrating"
        /\ req'[r].loaded = req[r].loaded
        /\ req'[r].work = Resolved(req[r])
    BY <2>2 DEF TypeOK, Submissions
  <2>4. Resolved(req[r]).narr = req[r].loaded.state.narr
    <3>1. req[r].loaded.state \in GameStates
      BY DEF TypeOK, Submissions
    <3>2. QED
      BY <3>1 DEF Resolved, GameStates
  <2>5. SnapshotIsPast(r)' /\ WorkKeepsNarrative(r)'
    BY <1>6, <2>1, <2>3, <2>4 DEF Intake, LocalInv, SnapshotIsPast, WorkKeepsNarrative, Streaming, Quiet
  <2>6. LocalInv(r)'
    BY <1>6, <2>1, <2>3, <2>5, EarlyLocal DEF Intake
  <2>7. QED
    BY <1>1, <1>2, <1>6, <2>1, <2>6 DEF Progress
<1>7. ASSUME NEW r \in Requests, NEW won \in BOOLEAN,
             Narrate(r, won) \/ NarrateAndTrigger(r, won)
      PROVE  SharedInv' /\ \A s \in Requests : LocalInv(s)'
  <2>1. Quiet /\ delivered' = delivered
    BY <1>7 DEF Narrate, NarrateAndTrigger, Quiet
  <2>2. /\ req[r].pc = "narrating"
        /\ req'[r].pc = "writing"
        /\ req'[r].loaded = req[r].loaded
        /\ req'[r].work.narr = req[r].work.narr
    <3>1. req[r].work \in GameStates
      BY DEF TypeOK, Submissions
    <3>2. CASE Narrate(r, won)
      <4>1. req'[r] = [req[r] EXCEPT !.pc = "writing", !.work = [req[r].work EXCEPT !.won = won]]
        BY <3>2 DEF Narrate, TypeOK
      <4>2. [req[r].work EXCEPT !.won = won].narr = req[r].work.narr
        BY <3>1 DEF GameStates
      <4>3. QED
        BY <3>2, <4>1, <4>2 DEF Narrate, TypeOK, Submissions
    <3>3. CASE NarrateAndTrigger(r, won)
      <4>1. req'[r] = [req[r] EXCEPT !.pc = "writing",
                         !.work = [req[r].work EXCEPT !.won = won, !.pending = issued + 1]]
        BY <3>3 DEF NarrateAndTrigger, TypeOK
      <4>2. [req[r].work EXCEPT !.won = won, !.pending = issued + 1].narr = req[r].work.narr
        BY <3>1 DEF GameStates
      <4>3. QED
        BY <3>3, <4>1, <4>2 DEF NarrateAndTrigger, TypeOK, Submissions
    <3>4. QED
      BY <1>7, <3>2, <3>3
  <2>3. SnapshotIsPast(r)' /\ WorkKeepsNarrative(r)'
    BY <2>1, <2>2 DEF LocalInv, SnapshotIsPast, WorkKeepsNarrative, Streaming, Quiet
  <2>4. LocalInv(r)'
    BY <2>1, <2>2, <2>3, EarlyLocal
  <2>5. QED
    BY <1>1, <1>2, <1>7, <2>1, <2>4 DEF Progress
<1>8. ASSUME NEW r \in Requests,
             NarrationFails(r) \/ WriteConflicts(r) \/ MarkEndedFails(r) \/ Disconnect(r)
      PROVE  SharedInv' /\ \A s \in Requests : LocalInv(s)'
  <2>1. Quiet /\ delivered' = delivered
    BY <1>8 DEF NarrationFails, WriteConflicts, MarkEndedFails, Disconnect, Quiet
  <2>2. LocalInv(r)'
    BY <1>8, <2>1, FinishLocal DEF NarrationFails, WriteConflicts, MarkEndedFails, Disconnect, Settled
  <2>3. QED
    BY <1>1, <1>2, <1>8, <2>1, <2>2 DEF Progress, Write
<1>9. ASSUME NEW r \in Requests, WriteCommits(r)
      PROVE  SharedInv' /\ \A s \in Requests : LocalInv(s)'
  <2>1. req[r].pc = "writing" /\ Persist(r) /\ Goto(r, "written") /\ delivered' = delivered
    BY <1>9 DEF WriteCommits
  <2>2. QED
    BY <1>1, <1>9, <2>1, PersistShared, PersistLocalOther, PersistLocalWritten DEF Progress, Write
<1>10. ASSUME NEW r \in Requests, WriteCommitsReplyLost(r)
       PROVE  SharedInv' /\ \A s \in Requests : LocalInv(s)'
  <2>1. req[r].pc = "writing" /\ Persist(r) /\ Retry(r) /\ delivered' = delivered
    BY <1>10 DEF WriteCommitsReplyLost
  <2>2. QED
    BY <1>1, <1>10, <2>1, PersistShared, PersistLocalOther, RetryLocal DEF Progress, Write
<1>11. ASSUME NEW r \in Requests, WriteFails(r)
       PROVE  SharedInv' /\ \A s \in Requests : LocalInv(s)'
  <2>1. Quiet /\ delivered' = delivered /\ req[r].pc = "writing" /\ Retry(r)
    BY <1>11 DEF WriteFails, Quiet
  <2>2. LocalInv(r)'
    BY <2>1, RetryLocal
  <2>3. QED
    BY <1>1, <1>2, <1>11, <2>1, <2>2 DEF Progress, Write
<1>12. ASSUME NEW r \in Requests, MarkEnded(r)
       PROVE  SharedInv' /\ \A s \in Requests : LocalInv(s)'
  <2>1. Quiet /\ delivered' = delivered
    BY <1>12 DEF MarkEnded, Quiet, TypeOK
  <2>2. LocalInv(r)'
    BY <1>12, <2>1, GotoLocal DEF MarkEnded
  <2>3. QED
    BY <1>1, <1>2, <1>12, <2>1, <2>2 DEF Progress
<1>13. ASSUME NEW r \in Requests, FlushMemory(r)
       PROVE  SharedInv' /\ \A s \in Requests : LocalInv(s)'
  <2>1. Quiet /\ req[r].pc \in {"written", "ended"} /\ Goto(r, "flushed")
    BY <1>13 DEF FlushMemory, Quiet
  <2>2. LocalInv(r)'
    BY <2>1, GotoLocal
  <2>3. QED
    BY <1>1, <1>13, <2>1, <2>2, FlushShared, QuietLocal DEF Progress
<1>14. ASSUME NEW r \in Requests, Announce(r)
       PROVE  SharedInv' /\ \A s \in Requests : LocalInv(s)'
  <2>1. Quiet /\ delivered' = delivered
    BY <1>14 DEF Announce, Quiet
  <2>2. HasTurn(r)
    BY <1>14 DEF Announce, LocalInv, WrittenHasTurn
  <2>3. LocalInv(r)'
    BY <1>14, <2>1, <2>2, FinishLocal DEF Announce, Settled
  <2>4. QED
    BY <1>1, <1>2, <1>14, <2>1, <2>3 DEF Progress
<1>15. CASE UNCHANGED vars
  <2>1. Quiet /\ delivered' = delivered /\ \A s \in Requests : req'[s] = req[s]
    BY <1>15 DEF vars, Quiet
  <2>2. QED
    BY <2>1, QuietShared, QuietLocal
<1>16. QED
  BY <1>3, <1>4, <1>5, <1>6, <1>7, <1>8, <1>9, <1>10, <1>11, <1>12, <1>13, <1>14, <1>15
     DEF Next, Progress, Write

LEMMA StoryParts == ConsistentStory <=> TypeOK /\ SharedInv /\ \A r \in Requests : LocalInv(r)
BY DEF ConsistentStory, SharedInv, LocalInv

(* The database and every running coroutine agree on the story, whatever      *)
(* submissions race, are retried, lose a reply or are cut off.                *)
THEOREM StoryConsistent == Spec => []ConsistentStory
<1>1. Init => ConsistentStory
  BY TypeInit, StoryInit, StoryParts
<1>2. ConsistentStory /\ [Next]_vars => ConsistentStory'
  <2> SUFFICES ASSUME ConsistentStory, [Next]_vars PROVE ConsistentStory'
    OBVIOUS
  <2>1. TypeOK /\ SharedInv /\ \A r \in Requests : LocalInv(r)
    BY StoryParts
  <2>2. TypeOK' /\ SharedInv' /\ \A r \in Requests : LocalInv(r)'
    BY <2>1, TypeStep, StoryStep
  <2>3. QED
    BY <2>2 DEF ConsistentStory, SharedInv, LocalInv
<1>3. QED
  BY <1>1, <1>2, PTL DEF Spec

-----------------------------------------------------------------------------
(* Consequences. *)

(* A client never sees "done" for a turn that was not persisted.              *)
THEOREM DoneDurable == Spec => []DoneIsDurable
<1>1. ConsistentStory => DoneIsDurable
  BY DEF ConsistentStory, DoneIsDurable, WrittenHasTurn, HasTurn
<1>2. QED
  BY <1>1, StoryConsistent, PTL

(* A submission becomes at most one turn, even when its write is retried      *)
(* after a commit whose reply was lost.                                       *)
THEOREM TurnOnce == Spec => []OneTurnPerRequest
<1>1. ConsistentStory => OneTurnPerRequest
  BY DEF ConsistentStory
<1>2. QED
  BY <1>1, StoryConsistent, PTL

(* turn_logs and the narrative in the row tell the same story, numbered       *)
(* 1..turn_count.                                                             *)
THEOREM LogIsTheStory == Spec => [](LogDense /\ NarrativeMatchesLog)
<1>1. ConsistentStory => LogDense /\ NarrativeMatchesLog
  BY DEF ConsistentStory
<1>2. QED
  BY <1>1, StoryConsistent, PTL

(* play_count moves once per playthrough, and never for a playtest.           *)
THEOREM PlayCounted == Spec => []PlayCountedOnce
<1>1. ConsistentStory => PlayCountedOnce
  BY DEF ConsistentStory
<1>2. QED
  BY <1>1, StoryConsistent, PTL

(* What the memory layer receives is what the log holds.                      *)
THEOREM MemoryFaithful == Spec => []MemoryMatchesLog
<1>1. ConsistentStory => MemoryMatchesLog
  BY DEF ConsistentStory
<1>2. QED
  BY <1>1, StoryConsistent, PTL

-----------------------------------------------------------------------------
(* Refinement of PlaythroughLog. *)

(* The turns of the abstract log are the submissions that have a turn.        *)
LEMMA TurnsAreLogged ==
  ASSUME ConsistentStory, NEW r \in Requests
  PROVE  r \in Log!Turns <=> HasTurn(r)
<1> DEFINE narr == row.state.narr
<1>1. row.turnCount \in Nat /\ narr \in Seq(Requests) /\ DOMAIN narr = 1..row.turnCount
  BY DEF ConsistentStory, TypeOK, GameStates, NarrativeMatchesLog
<1>2. ASSUME r \in Log!Turns PROVE HasTurn(r)
  <2>1. PICK i \in DOMAIN narr : narr[i] = r
    BY <1>2 DEF Log!Turns
  <2>2. PICK e \in turnLog : e.number = i
    BY <1>1, <2>1 DEF ConsistentStory, LogDense
  <2>3. e.req = r
    BY <2>1, <2>2 DEF ConsistentStory, NarrativeMatchesLog
  <2>4. QED
    BY <2>3 DEF HasTurn
<1>3. ASSUME HasTurn(r) PROVE r \in Log!Turns
  <2>1. PICK e \in turnLog : e.req = r
    BY <1>3 DEF HasTurn
  <2>2. e.number \in DOMAIN narr
    BY <1>1 DEF ConsistentStory, LogDense
  <2>3. narr[e.number] = r
    BY <2>1 DEF ConsistentStory, NarrativeMatchesLog
  <2>4. QED
    BY <2>2, <2>3 DEF Log!Turns
<1>4. QED
  BY <1>2, <1>3

Acked == {r \in Requests : req[r].pc = "done"}

(* A step that ends r's coroutine with "done" acknowledges r; any other keeps *)
(* the set of acknowledged submissions.                                       *)
LEMMA AckedStep ==
  ASSUME TypeOK, NEW r \in Requests, Submit(r) \/ Progress(r) \/ Disconnect(r),
         req[r].pc # "done"
  PROVE  Acked' = IF req'[r].pc = "done" THEN Acked \cup {r} ELSE Acked
<1>1. \A s \in Requests \ {r} : req'[s] = req[s]
  BY OneMoves
<1>2. QED
  BY <1>1 DEF Acked

(* Only Announce ends a coroutine with "done".                                *)
LEMMA OnlyAnnounceAcks ==
  ASSUME TypeOK, NEW r \in Requests,
         \/ Submit(r)
         \/ Validate(r)
         \/ Load(r)
         \/ Intake(r)
         \/ \E won \in BOOLEAN : Narrate(r, won) \/ NarrateAndTrigger(r, won)
         \/ NarrationFails(r)
         \/ Write(r)
         \/ MarkEnded(r)
         \/ MarkEndedFails(r)
         \/ FlushMemory(r)
         \/ Disconnect(r)
  PROVE  req[r].pc # "done" /\ req'[r].pc # "done"
<1>1. Idle.pc = "idle" /\ \A o \in Settled : [Idle EXCEPT !.pc = o].pc = o
  BY DEF Idle
<1>2. req[r] \in Submissions
  BY DEF TypeOK
<1>3. ASSUME NEW o \in Settled, Finish(r, o) PROVE req'[r].pc = o
  BY <1>1, <1>3 DEF Finish, TypeOK
<1>4. ASSUME NEW pc \in InFlight, Goto(r, pc) PROVE req'[r].pc = pc
  BY <1>2, <1>4 DEF Goto, TypeOK, Submissions
<1>5. CASE Submit(r)
  <2>1. PICK p \in Participants, attempt \in 0..issued : Receive(r, p, attempt)
    BY <1>5 DEF Submit
  <2>2. req[r].pc = "idle"
    BY <2>1 DEF Receive
  <2>3. CASE IsActive
    <3>1. req'[r] = [req[r] EXCEPT !.pc = "received", !.who = p, !.attempt = attempt,
              !.seen = [turnCount |-> row.turnCount, pending |-> row.state.pending]]
      BY <2>1, <2>3 DEF Receive, TypeOK
    <3>2. QED
      BY <1>2, <2>2, <3>1 DEF Submissions
  <2>4. CASE ~IsActive
    BY <1>3, <2>1, <2>2, <2>4 DEF Receive, Settled
  <2>5. QED
    BY <2>3, <2>4
<1>6. CASE Validate(r)
  BY <1>3, <1>4, <1>6 DEF Validate, InFlight, Settled
<1>7. CASE Load(r)
  BY <1>2, <1>7 DEF Load, TypeOK, Submissions
<1>8. CASE Intake(r)
  BY <1>2, <1>8 DEF Intake, TypeOK, Submissions
<1>9. CASE \E won \in BOOLEAN : Narrate(r, won) \/ NarrateAndTrigger(r, won)
  <2>1. PICK won \in BOOLEAN : Narrate(r, won) \/ NarrateAndTrigger(r, won)
    BY <1>9
  <2>2. CASE Narrate(r, won)
    <3>1. req'[r] = [req[r] EXCEPT !.pc = "writing", !.work = [req[r].work EXCEPT !.won = won]]
      BY <2>2 DEF Narrate, TypeOK
    <3>2. req[r].pc = "narrating"
      BY <2>2 DEF Narrate
    <3>3. QED
      BY <1>2, <3>1, <3>2 DEF Submissions
  <2>3. CASE NarrateAndTrigger(r, won)
    <3>1. req'[r] = [req[r] EXCEPT !.pc = "writing",
                       !.work = [req[r].work EXCEPT !.won = won, !.pending = issued + 1]]
      BY <2>3 DEF NarrateAndTrigger, TypeOK
    <3>2. req[r].pc = "narrating"
      BY <2>3 DEF NarrateAndTrigger
    <3>3. QED
      BY <1>2, <3>1, <3>2 DEF Submissions
  <2>4. QED
    BY <2>1, <2>2, <2>3
<1>10. CASE NarrationFails(r) \/ MarkEndedFails(r) \/ Disconnect(r)
  BY <1>3, <1>10 DEF NarrationFails, MarkEndedFails, Disconnect, InFlight, Streaming, Settled
<1>11. CASE Write(r)
  <2>1. req[r].pc = "writing"
    BY <1>11 DEF Write, WriteCommits, WriteCommitsReplyLost, WriteFails, WriteConflicts
  <2>2. CASE Retry(r)
    <3>1. CASE req[r].tries + 1 < WriteAttempts
      <4>1. req'[r] = [req[r] EXCEPT !.tries = req[r].tries + 1]
        BY <2>2, <3>1 DEF Retry, TypeOK
      <4>2. QED
        BY <1>2, <2>1, <4>1 DEF Submissions
    <3>2. CASE ~(req[r].tries + 1 < WriteAttempts)
      BY <1>3, <2>1, <2>2, <3>2 DEF Retry, Settled
    <3>3. QED
      BY <3>1, <3>2
  <2>3. CASE Goto(r, "written")
    BY <1>4, <2>1, <2>3 DEF InFlight, Streaming
  <2>4. CASE Finish(r, "degraded")
    BY <1>3, <2>1, <2>4 DEF Settled
  <2>5. QED
    BY <1>11, <2>2, <2>3, <2>4 DEF Write, WriteCommits, WriteCommitsReplyLost, WriteFails,
       WriteConflicts
<1>12. CASE MarkEnded(r)
  BY <1>4, <1>12 DEF MarkEnded, InFlight, Streaming
<1>13. CASE FlushMemory(r)
  BY <1>4, <1>13 DEF FlushMemory, InFlight, Streaming
<1>14. QED
  BY <1>5, <1>6, <1>7, <1>8, <1>9, <1>10, <1>11, <1>12, <1>13

(* The pipeline implements the append-only log: the story only grows, one     *)
(* turn per submission, and "done" only follows the commit.                   *)
THEOREM PipelineImplementsLog == Spec => ImplementsLog
<1>1. Init => Log!Init
  <2> SUFFICES ASSUME Init PROVE Log!Init
    OBVIOUS
  <2>1. \A r \in Requests : req[r].pc # "done"
    BY DEF Init, Idle
  <2>2. QED
    BY <2>1 DEF Init, EmptyState, Log!Init
<1>2. ConsistentStory /\ [Next]_vars => [Log!Next]_<<row.state.narr, Acked>>
  <2> SUFFICES ASSUME ConsistentStory, [Next]_vars
               PROVE  [Log!Next]_<<row.state.narr, Acked>>
    OBVIOUS
  <2>0. TypeOK /\ SharedInv /\ \A r \in Requests : LocalInv(r)
    BY StoryParts
  <2>1. ASSUME NEW r \in Requests, Announce(r)
        PROVE  [Log!Next]_<<row.state.narr, Acked>>
    <3>1. req[r].pc = "flushed" /\ row' = row
      BY <2>1 DEF Announce
    <3>2. req'[r].pc = "done"
      BY <2>0, <2>1 DEF Announce, Finish, TypeOK, Idle
    <3>3. Acked' = Acked \cup {r}
      BY <2>0, <2>1, <3>1, <3>2, AckedStep DEF Progress
    <3>4. r \in Log!Turns
      BY <3>1, <2>0, TurnsAreLogged DEF LocalInv, WrittenHasTurn
    <3>5. Log!Acknowledge(r)
      BY <3>1, <3>3, <3>4 DEF Log!Acknowledge, Acked
    <3>6. QED
      BY <3>5 DEF Log!Next
  <2>2. ASSUME NEW r \in Requests, WriteCommits(r) \/ WriteCommitsReplyLost(r)
        PROVE  [Log!Next]_<<row.state.narr, Acked>>
    <3>1. Write(r) /\ Progress(r) /\ req[r].pc = "writing" /\ Persist(r)
      BY <2>2 DEF Write, Progress, WriteCommits, WriteCommitsReplyLost
    <3>2. Acked' = Acked
      BY <2>0, <3>1, AckedStep, OnlyAnnounceAcks
    <3>3. ~HasTurn(r) /\ row'.state.narr = Append(row.state.narr, r)
      BY <2>0, <3>1, PersistAppends
    <3>4. r \notin Log!Turns
      BY <3>3, TurnsAreLogged
    <3>5. Log!Commit(r)
      BY <3>2, <3>3, <3>4 DEF Log!Commit, Acked
    <3>6. QED
      BY <3>5 DEF Log!Next
  <2>3. ASSUME NEW r \in Requests,
               \/ Submit(r)
               \/ Validate(r)
               \/ Load(r)
               \/ Intake(r)
               \/ \E won \in BOOLEAN : Narrate(r, won) \/ NarrateAndTrigger(r, won)
               \/ NarrationFails(r)
               \/ WriteFails(r) \/ WriteConflicts(r)
               \/ MarkEnded(r)
               \/ MarkEndedFails(r)
               \/ FlushMemory(r)
               \/ Disconnect(r)
        PROVE  [Log!Next]_<<row.state.narr, Acked>>
    <3>1. row'.state = row.state
      BY <2>0, <2>3 DEF TypeOK, Submit, Receive, Validate, Load, Intake, Narrate,
         NarrateAndTrigger, NarrationFails, WriteFails, WriteConflicts, MarkEnded,
         MarkEndedFails, FlushMemory, Disconnect
    <3>2. Submit(r) \/ Progress(r) \/ Disconnect(r)
      BY <2>3 DEF Progress, Write
    <3>3. req[r].pc # "done" /\ req'[r].pc # "done"
      BY <2>0, <2>3, OnlyAnnounceAcks DEF Write
    <3>4. Acked' = Acked
      BY <2>0, <3>2, <3>3, AckedStep
    <3>5. QED
      BY <3>1, <3>4
  <2>4. CASE UNCHANGED vars
    BY <2>4 DEF vars, Acked
  <2>5. QED
    BY <2>1, <2>2, <2>3, <2>4 DEF Next, Progress, Write
<1>3. Acked = {r \in Requests : req[r].pc = "done"}
  BY DEF Acked
<1>4. QED
  BY <1>1, <1>2, StoryConsistent, PTL DEF Spec, ImplementsLog, Log!Spec, Acked

-----------------------------------------------------------------------------
(* What a step does to the submission it moves and to the row it shares. *)

Keeps(r) ==
  /\ req'[r].who = req[r].who
  /\ req'[r].attempt = req[r].attempt
  /\ req'[r].seen = req[r].seen
  /\ req'[r].members = req[r].members
  /\ req'[r].loaded = req[r].loaded
  /\ req'[r].work = req[r].work

RowStays == UNCHANGED <<row, turnLog, issued>>

Settling(r) == RowStays /\ req'[r].pc \in Settled

Arriving(r) ==
  /\ RowStays
  /\ IsActive
  /\ req[r].pc = "idle" /\ req'[r].pc = "received"
  /\ req'[r].attempt \in 0..issued
  /\ req'[r].seen = [turnCount |-> row.turnCount, pending |-> row.state.pending]

Admitting(r) ==
  /\ RowStays
  /\ req[r].pc = "received" /\ req'[r].pc = "admitted"
  /\ Admissible(req[r])
  /\ Keeps(r)

Loading(r) ==
  /\ RowStays
  /\ req[r].pc = "admitted" /\ req'[r].pc = "loaded"
  /\ req'[r].who = req[r].who /\ req'[r].attempt = req[r].attempt /\ req'[r].seen = req[r].seen
  /\ req'[r].loaded = [turnCount |-> row.turnCount, state |-> row.state]

Entering(r) ==
  /\ RowStays
  /\ req[r].pc = "loaded" /\ req'[r].pc = "narrating"
  /\ req'[r].who = req[r].who /\ req'[r].attempt = req[r].attempt /\ req'[r].seen = req[r].seen
  /\ req'[r].loaded = req[r].loaded
  /\ req'[r].members = participants
  /\ req'[r].work = Resolved(req[r])

Narrating(r) ==
  /\ UNCHANGED <<row, turnLog>>
  /\ req[r].pc = "narrating" /\ req'[r].pc = "writing"
  /\ req'[r].who = req[r].who /\ req'[r].attempt = req[r].attempt /\ req'[r].seen = req[r].seen
  /\ req'[r].loaded = req[r].loaded
  /\ req'[r].members = req[r].members
  /\ req'[r].work.outcomes = req[r].work.outcomes
  /\ \/ req'[r].work.pending = req[r].work.pending /\ issued' = issued
     \/ MayTrigger(req[r]) /\ req'[r].work.pending = issued + 1 /\ issued' = issued + 1

Committing(r) ==
  /\ req[r].pc = "writing"
  /\ Persist(r)
  /\ issued' = issued
  /\ \/ req'[r].pc \in {"writing", "written"} /\ Keeps(r)
     \/ req'[r].pc = "degraded"

Retrying(r) ==
  /\ RowStays
  /\ req[r].pc = "writing" /\ req'[r].pc = "writing"
  /\ Keeps(r)

Ending(r) ==
  /\ UNCHANGED <<turnLog, issued>>
  /\ req[r].pc = "written" /\ req'[r].pc = "ended"
  /\ Ends(r)
  /\ Keeps(r)
  /\ row'.status = "completed" /\ row'.turnCount = row.turnCount /\ row'.state = row.state
  /\ row'.outcome = TurnOf(r)

Flushing(r) ==
  /\ RowStays
  /\ req[r].pc \in {"written", "ended"} /\ req'[r].pc = "flushed"
  /\ Keeps(r)

LEMMA FinishSettles ==
  ASSUME TypeOK, NEW r \in Requests, NEW outcome \in Settled, Finish(r, outcome)
  PROVE  req'[r].pc = outcome
<1>1. req'[r] = [Idle EXCEPT !.pc = outcome]
  BY DEF Finish, TypeOK
<1>2. QED
  BY <1>1 DEF Idle

LEMMA GotoKeeps ==
  ASSUME TypeOK, NEW r \in Requests, NEW pc, Goto(r, pc)
  PROVE  req'[r].pc = pc /\ Keeps(r)
<1>1. req'[r] = [req[r] EXCEPT !.pc = pc]
  BY DEF Goto, TypeOK
<1>2. QED
  BY <1>1 DEF TypeOK, Submissions, Keeps

LEMMA RetryKeeps ==
  ASSUME TypeOK, NEW r \in Requests, req[r].pc = "writing", Retry(r)
  PROVE  (req'[r].pc = "writing" /\ Keeps(r)) \/ req'[r].pc = "degraded"
<1>1. CASE req[r].tries + 1 < WriteAttempts
  <2>1. req'[r] = [req[r] EXCEPT !.tries = @ + 1]
    BY <1>1 DEF Retry, TypeOK
  <2>2. QED
    BY <2>1 DEF TypeOK, Submissions, Keeps
<1>2. CASE ~(req[r].tries + 1 < WriteAttempts)
  BY <1>2, FinishSettles DEF Retry, Settled
<1>3. QED
  BY <1>1, <1>2

(* Every step of the pipeline is of one of these kinds, and none moves the    *)
(* participants.                                                              *)
LEMMA Kinds ==
  ASSUME TypeOK, NEW r \in Requests, Submit(r) \/ Progress(r) \/ Disconnect(r)
  PROVE  /\ participants' = participants
         /\ \/ Settling(r) \/ Arriving(r) \/ Admitting(r) \/ Loading(r) \/ Entering(r)
            \/ Narrating(r) \/ Committing(r) \/ Retrying(r) \/ Ending(r) \/ Flushing(r)
<1>1. ASSUME NEW p \in Participants, NEW attempt \in 0..issued, Receive(r, p, attempt)
      PROVE  participants' = participants /\ (Settling(r) \/ Arriving(r))
  <2>1. CASE IsActive
    <3>1. req'[r] = [req[r] EXCEPT !.pc = "received", !.who = p, !.attempt = attempt,
              !.seen = [turnCount |-> row.turnCount, pending |-> row.state.pending]]
      BY <1>1, <2>1 DEF Receive, TypeOK
    <3>2. /\ req'[r].pc = "received" /\ req'[r].attempt = attempt
          /\ req'[r].seen = [turnCount |-> row.turnCount, pending |-> row.state.pending]
      BY <3>1 DEF TypeOK, Submissions
    <3>3. QED
      BY <1>1, <2>1, <3>2 DEF Receive, Arriving, RowStays
  <2>2. CASE ~IsActive
    BY <1>1, <2>2, FinishSettles DEF Receive, Settling, RowStays, Settled
  <2>3. QED
    BY <2>1, <2>2
<1>2. CASE Validate(r)
  <2>1. CASE Admissible(req[r])
    BY <1>2, <2>1, GotoKeeps DEF Validate, Admitting, RowStays
  <2>2. CASE ~Admissible(req[r])
    BY <1>2, <2>2, FinishSettles DEF Validate, Settling, RowStays, Settled
  <2>3. QED
    BY <2>1, <2>2
<1>3. CASE Load(r)
  <2>1. req'[r] = [req[r] EXCEPT !.pc = "loaded",
                      !.loaded = [turnCount |-> row.turnCount, state |-> row.state]]
    BY <1>3 DEF Load, TypeOK
  <2>2. QED
    BY <1>3, <2>1 DEF Load, Loading, RowStays, TypeOK, Submissions
<1>4. CASE Intake(r)
  <2>1. req'[r] = [req[r] EXCEPT !.pc = "narrating", !.members = participants,
                                 !.work = Resolved(req[r])]
    BY <1>4 DEF Intake, TypeOK
  <2>2. QED
    BY <1>4, <2>1 DEF Intake, Entering, RowStays, TypeOK, Submissions
<1>5. ASSUME NEW won \in BOOLEAN, Narrate(r, won)
      PROVE  participants' = participants /\ Narrating(r)
  <2> DEFINE work == [req[r].work EXCEPT !.won = won]
  <2>1. req'[r] = [req[r] EXCEPT !.pc = "writing", !.work = work]
    BY <1>5 DEF Narrate, TypeOK
  <2>2. work.outcomes = req[r].work.outcomes /\ work.pending = req[r].work.pending
    BY DEF TypeOK, Submissions, GameStates
  <2> HIDE DEF work
  <2>3. QED
    BY <1>5, <2>1, <2>2 DEF Narrate, Narrating, TypeOK, Submissions
<1>6. ASSUME NEW won \in BOOLEAN, NarrateAndTrigger(r, won)
      PROVE  participants' = participants /\ Narrating(r)
  <2> DEFINE work == [req[r].work EXCEPT !.won = won, !.pending = issued + 1]
  <2>1. req'[r] = [req[r] EXCEPT !.pc = "writing", !.work = work]
    BY <1>6 DEF NarrateAndTrigger, TypeOK
  <2>2. work.outcomes = req[r].work.outcomes /\ work.pending = issued + 1
    BY DEF TypeOK, Submissions, GameStates
  <2> HIDE DEF work
  <2>3. QED
    BY <1>6, <2>1, <2>2 DEF NarrateAndTrigger, Narrating, TypeOK, Submissions
<1>7. CASE NarrationFails(r) \/ WriteConflicts(r) \/ MarkEndedFails(r) \/ Announce(r) \/ Disconnect(r)
  BY <1>7, FinishSettles DEF NarrationFails, WriteConflicts, MarkEndedFails, Announce, Disconnect,
                             Settling, RowStays, Settled
<1>8. CASE WriteCommits(r)
  BY <1>8, GotoKeeps DEF WriteCommits, Committing
<1>9. CASE WriteCommitsReplyLost(r)
  BY <1>9, RetryKeeps DEF WriteCommitsReplyLost, Committing
<1>10. CASE WriteFails(r)
  BY <1>10, RetryKeeps DEF WriteFails, Retrying, Settling, RowStays, Settled
<1>11. CASE MarkEnded(r)
  BY <1>11, GotoKeeps DEF MarkEnded, Ending, TypeOK
<1>12. CASE FlushMemory(r)
  BY <1>12, GotoKeeps DEF FlushMemory, Flushing, RowStays
<1>13. QED
  BY <1>1, <1>2, <1>3, <1>4, <1>5, <1>6, <1>7, <1>8, <1>9, <1>10, <1>11, <1>12
     DEF Submit, Progress, Write

-----------------------------------------------------------------------------
(* What a submission knows of the game: what it was admitted on, and what the *)
(* row was when it was loaded.  However many are open, each keeps both.       *)

(* The pending attempt was issued and has not been resolved.                  *)
Sane(state) ==
  /\ state.pending \in 0..issued
  /\ ~MasterMode => state.pending = NoMinigame
  /\ \A i \in DOMAIN state.outcomes :
       state.outcomes[i] \in 1..issued /\ state.outcomes[i] # state.pending

(* What the validation has let through.                                       *)
Passed(r) ==
  LET q == req[r] IN
  /\ q.pc \in InFlight => q.attempt \in 0..issued
  /\ q.pc \in InFlight \ {"received"} =>
       /\ q.seen.pending = q.attempt
       /\ Len(participants) > 1 => q.who = Expected(participants, q.seen.turnCount)

(* The first read is a past of the row.                                       *)
SeenIsPast(r) ==
  LET q == req[r] IN
  q.pc \in {"received", "admitted"} =>
    /\ q.seen.turnCount <= row.turnCount
    /\ q.seen.turnCount = row.turnCount => q.seen.pending = row.state.pending
    /\ ~MasterMode => q.seen.pending = NoMinigame

(* The second read is a later one.                                            *)
LoadIsLater(r) ==
  LET q == req[r] IN
  q.pc \in Streaming =>
    /\ q.seen.turnCount <= q.loaded.turnCount /\ q.loaded.turnCount <= row.turnCount
    /\ q.seen.turnCount = q.loaded.turnCount => q.seen.pending = q.loaded.state.pending
    /\ q.loaded.turnCount = row.turnCount => q.loaded.state = row.state
    /\ ~MasterMode => q.attempt = NoMinigame
    /\ Sane(q.loaded.state)

(* The intake resolves what the submission brought, the narration keeps a     *)
(* pending attempt, and a turn that nobody wrote over is the row's state.     *)
WorkIsResolved(r) ==
  LET q == req[r] IN
  /\ q.pc = "narrating" => q.work = Resolved(q)
  /\ q.pc = "writing" =>
       /\ Sane(q.work)
       /\ q.work.outcomes = Resolved(q).outcomes
       /\ q.attempt = NoMinigame /\ q.loaded.state.pending # NoMinigame =>
            q.work.pending = q.loaded.state.pending
  /\ q.pc = "written" =>
       /\ TurnOf(r) <= row.turnCount
       /\ TurnOf(r) = row.turnCount =>
            row.state.won = q.work.won /\ row.state.pending = q.work.pending

Knows(r) == Passed(r) /\ SeenIsPast(r) /\ LoadIsLater(r) /\ WorkIsResolved(r)

GameInv == Sane(row.state) /\ \A r \in Requests : Knows(r)

LEMMA GameInit == Init => GameInv
<1> SUFFICES ASSUME Init PROVE GameInv
  OBVIOUS
<1>1. row.state = EmptyState /\ issued = 0 /\ \A r \in Requests : req[r].pc = "idle"
  BY DEF Init, Idle
<1>2. Sane(row.state)
  BY <1>1 DEF Sane, EmptyState, NoMinigame
<1>3. \A r \in Requests : Knows(r)
  BY <1>1 DEF Knows, Passed, SeenIsPast, LoadIsLater, WorkIsResolved, InFlight, Streaming
<1>4. QED
  BY <1>2, <1>3 DEF GameInv

(* A state stays sane while further attempts are issued.                      *)
LEMMA SaneGrows ==
  ASSUME TypeOK, NEW state, Sane(state), issued' \in {issued, issued + 1}
  PROVE  /\ state.pending \in 0..issued'
         /\ ~MasterMode => state.pending = NoMinigame
         /\ \A i \in DOMAIN state.outcomes :
              state.outcomes[i] \in 1..issued' /\ state.outcomes[i] # state.pending
BY DEF Sane, TypeOK

(* A result is added to the outcomes and leaves nothing pending.              *)
LEMMA ResolvedIsSane ==
  ASSUME TypeOK, NEW q \in Submissions, Sane(q.loaded.state), q.attempt \in 0..issued,
         ~MasterMode => q.attempt = NoMinigame
  PROVE  /\ Sane(Resolved(q))
         /\ q.attempt = NoMinigame => Resolved(q) = q.loaded.state
         /\ q.attempt # NoMinigame =>
              Resolved(q).outcomes = Append(q.loaded.state.outcomes, q.attempt)
<1> DEFINE state == q.loaded.state
<1>1. state \in GameStates /\ state.outcomes \in Seq(Nat) /\ q.attempt \in Nat /\ issued \in Nat
  BY DEF TypeOK, GameStates, Submissions
<1>2. CASE q.attempt = NoMinigame
  BY <1>2 DEF Resolved
<1>3. CASE q.attempt # NoMinigame
  <2>1. MasterMode
    BY <1>3
  <2>2. Resolved(q) = [state EXCEPT !.pending = NoMinigame, !.outcomes = Append(@, q.attempt)]
    BY <1>3, <2>1 DEF Resolved
  <2>3. Resolved(q).outcomes = Append(state.outcomes, q.attempt) /\ Resolved(q).pending = NoMinigame
    BY <1>1, <2>2 DEF GameStates
  <2>4. q.attempt \in 1..issued
    BY <1>1, <1>3 DEF NoMinigame
  <2>5. \A i \in DOMAIN state.outcomes : state.outcomes[i] \in 1..issued
    BY DEF Sane
  <2>6. \A i \in DOMAIN Append(state.outcomes, q.attempt) : Append(state.outcomes, q.attempt)[i] \in 1..issued
    <3>1. DOMAIN state.outcomes = 1..Len(state.outcomes) /\ Len(state.outcomes) \in Nat
      BY <1>1
    <3>2. QED
      BY <1>1, <2>4, <2>5, <3>1
  <2>7. Sane(Resolved(q))
    BY <1>1, <2>1, <2>3, <2>6 DEF Sane, NoMinigame
  <2>8. QED
    BY <1>3, <2>3, <2>7
<1>4. QED
  BY <1>2, <1>3

(* What a submission knows survives the steps of others: the row only moves   *)
(* on, with a new count wherever its state is new.                            *)
LEMMA OthersKnow ==
  ASSUME TypeOK, TypeOK', NEW s \in Requests, Knows(s), req'[s] = req[s],
         participants' = participants, issued' \in {issued, issued + 1},
         \/ row'.turnCount = row.turnCount /\ row'.state = row.state
         \/ row'.turnCount = row.turnCount + 1
  PROVE  Knows(s)'
<1>1. req[s] \in Submissions /\ row.turnCount \in Nat /\ issued \in Nat
  BY DEF TypeOK
<1>2. Passed(s)'
  BY <1>1 DEF Knows, Passed
<1>3. SeenIsPast(s)'
  BY <1>1 DEF Knows, SeenIsPast, Submissions
<1>4. req[s].pc \in Streaming => Sane(req[s].loaded.state)'
  <2>1. SUFFICES ASSUME req[s].pc \in Streaming PROVE Sane(req[s].loaded.state)'
    OBVIOUS
  <2>2. Sane(req[s].loaded.state)
    BY <2>1 DEF Knows, LoadIsLater
  <2>3. QED
    BY <2>2, SaneGrows DEF Sane
<1>5. LoadIsLater(s)'
  BY <1>1, <1>4 DEF Knows, LoadIsLater, Submissions
<1>6. req[s].pc = "writing" => Sane(req[s].work)'
  <2>1. SUFFICES ASSUME req[s].pc = "writing" PROVE Sane(req[s].work)'
    OBVIOUS
  <2>2. Sane(req[s].work)
    BY <2>1 DEF Knows, WorkIsResolved
  <2>3. QED
    BY <2>2, SaneGrows DEF Sane
<1>7. TurnOf(s)' = TurnOf(s) /\ Resolved(req[s])' = Resolved(req[s]) /\ TurnOf(s) \in Nat
  BY <1>1 DEF TurnOf, Resolved, Submissions
<1>8. req[s].pc = "written" =>
        /\ TurnOf(s) <= row'.turnCount
        /\ TurnOf(s) = row'.turnCount =>
             row'.state.won = req[s].work.won /\ row'.state.pending = req[s].work.pending
  BY <1>1, <1>7 DEF Knows, WorkIsResolved
<1>9. WorkIsResolved(s)'
  BY <1>6, <1>7, <1>8 DEF Knows, WorkIsResolved
<1>10. QED
  BY <1>2, <1>3, <1>5, <1>9 DEF Knows

(* The steps of a submission that leave the row as it is.                     *)
LEMMA EarlyKnows ==
  ASSUME TypeOK, TypeOK', NEW r \in Requests, Sane(row.state), Knows(r), participants' = participants,
         Settling(r) \/ Arriving(r) \/ Admitting(r) \/ Loading(r) \/ Entering(r)
  PROVE  Knows(r)'
<1>1. req[r] \in Submissions /\ row.turnCount \in Nat /\ issued \in Nat /\ req'[r] \in Submissions
  BY DEF TypeOK
<1>2. CASE Settling(r)
  BY <1>2 DEF Settling, Settled, Knows, Passed, SeenIsPast, LoadIsLater, WorkIsResolved, InFlight, Streaming
<1>3. CASE Arriving(r)
  BY <1>1, <1>3 DEF Arriving, RowStays, Knows, Passed, SeenIsPast, LoadIsLater, WorkIsResolved,
                    InFlight, Streaming, Sane
<1>4. CASE Admitting(r)
  <2>1. req[r].seen.pending = req[r].attempt
    BY <1>4 DEF Admitting, Admissible, PassesGating
  <2>2. Len(participants) > 1 => req[r].who = Expected(participants, req[r].seen.turnCount)
    BY <1>4 DEF Admitting, Admissible
  <2>3. Passed(r)'
    BY <1>4, <2>1, <2>2 DEF Admitting, RowStays, Keeps, Knows, Passed, InFlight
  <2>4. QED
    BY <1>4, <2>3 DEF Admitting, RowStays, Keeps, Knows, SeenIsPast, LoadIsLater, WorkIsResolved, Streaming
<1>5. CASE Loading(r)
  <2>1. Passed(r)'
    BY <1>5 DEF Loading, RowStays, Knows, Passed, InFlight, Streaming
  <2>2. Sane(req[r].loaded.state)'
    BY <1>5 DEF Loading, RowStays, Sane
  <2>3. ~MasterMode => req'[r].attempt = NoMinigame
    BY <1>5 DEF Loading, Knows, Passed, SeenIsPast, InFlight
  <2>4. LoadIsLater(r)'
    BY <1>1, <1>5, <2>2, <2>3 DEF Loading, RowStays, Knows, SeenIsPast, LoadIsLater, Streaming, Sane
  <2>5. QED
    BY <1>5, <2>1, <2>4 DEF Loading, Knows, SeenIsPast, WorkIsResolved
<1>6. CASE Entering(r)
  <2>1. Passed(r)'
    BY <1>6 DEF Entering, RowStays, Knows, Passed, InFlight, Streaming
  <2>2. LoadIsLater(r)'
    BY <1>6 DEF Entering, RowStays, Knows, LoadIsLater, Streaming, Sane
  <2>3. Resolved(req[r])' = Resolved(req[r])
    BY <1>6 DEF Entering, Resolved
  <2>4. QED
    BY <1>6, <2>1, <2>2, <2>3 DEF Entering, Knows, SeenIsPast, WorkIsResolved
<1>7. QED
  BY <1>2, <1>3, <1>4, <1>5, <1>6

(* The narration may trigger a minigame where none is pending.                *)
LEMMA NarratingKnows ==
  ASSUME TypeOK, TypeOK', NEW r \in Requests, Knows(r), participants' = participants, Narrating(r)
  PROVE  Knows(r)'
<1> DEFINE q == req[r]
<1>1. q \in Submissions /\ row.turnCount \in Nat /\ issued \in Nat /\ q.pc = "narrating"
  BY DEF TypeOK, Narrating
<1>2. issued' \in {issued, issued + 1}
  BY DEF Narrating
<1>3. Sane(q.loaded.state) /\ q.attempt \in 0..issued /\ (~MasterMode => q.attempt = NoMinigame)
  BY <1>1 DEF Knows, LoadIsLater, Passed, InFlight, Streaming
<1>4. q.work = Resolved(q)
  BY <1>1 DEF Knows, WorkIsResolved
<1>5. /\ Sane(q.work)
      /\ q.attempt = NoMinigame => q.work = q.loaded.state
  BY <1>1, <1>3, <1>4, ResolvedIsSane
<1>6. Passed(r)'
  BY <1>1, <1>2 DEF Narrating, Knows, Passed, InFlight, Streaming
<1>7. LoadIsLater(r)'
  <2>1. Sane(q.loaded.state)'
    <3>1. req'[r].loaded = q.loaded
      BY DEF Narrating
    <3>2. QED
      BY <1>2, <1>3, <3>1, SaneGrows DEF Sane
  <2>2. QED
    BY <1>1, <2>1 DEF Narrating, Knows, LoadIsLater, Streaming
<1>8. Sane(req[r].work)'
  <2>1. req'[r].work.pending \in 0..issued' /\ (~MasterMode => req'[r].work.pending = NoMinigame)
    BY <1>1, <1>5 DEF Narrating, MayTrigger, Sane
  <2>2. \A i \in DOMAIN q.work.outcomes :
          q.work.outcomes[i] \in 1..issued' /\ q.work.outcomes[i] # req'[r].work.pending
    BY <1>1, <1>5 DEF Narrating, Sane
  <2>3. req'[r].work.outcomes = q.work.outcomes
    BY DEF Narrating
  <2>4. QED
    BY <2>1, <2>2, <2>3 DEF Sane
<1>9. WorkIsResolved(r)'
  <2>1. Resolved(req[r])' = Resolved(q)
    BY DEF Narrating, Resolved
  <2>2. q.attempt = NoMinigame /\ q.loaded.state.pending # NoMinigame =>
          req'[r].work.pending = q.loaded.state.pending
    BY <1>5 DEF Narrating, MayTrigger
  <2>3. req'[r].work.outcomes = Resolved(q).outcomes
    BY <1>4 DEF Narrating
  <2>4. req'[r].attempt = q.attempt /\ req'[r].loaded = q.loaded /\ req'[r].pc = "writing"
    BY DEF Narrating
  <2>5. QED
    BY <1>8, <2>1, <2>2, <2>3, <2>4 DEF WorkIsResolved
<1>10. QED
  BY <1>6, <1>7, <1>9 DEF Knows, SeenIsPast, Narrating

(* A write is of the state that the submission worked on, over the row that   *)
(* it loaded.                                                                 *)
LEMMA CommitOverLoaded ==
  ASSUME TypeOK, NEW r \in Requests, Knows(r), Committing(r)
  PROVE  /\ req[r].loaded.turnCount = row.turnCount
         /\ req[r].loaded.state = row.state
         /\ row'.turnCount = row.turnCount + 1
         /\ row'.status = row.status /\ row'.outcome = row.outcome
         /\ row'.state.pending = req[r].work.pending
         /\ row'.state.outcomes = req[r].work.outcomes
         /\ row'.state.won = req[r].work.won
         /\ turnLog' = turnLog \cup {[number |-> row.turnCount + 1, req |-> r, who |-> req[r].who]}
<1>1. req[r].loaded.turnCount = row.turnCount /\ req[r].pc = "writing"
  BY DEF Committing, Persist, LockHolds
<1>2. req[r].loaded.state = row.state
  BY <1>1 DEF Knows, LoadIsLater, Streaming
<1>3. /\ row' = [row EXCEPT !.turnCount = row.turnCount + 1, !.state = NewState(r)]
      /\ turnLog' = turnLog \cup {[number |-> row.turnCount + 1, req |-> r, who |-> req[r].who]}
  BY <1>1 DEF Committing, Persist
<1>4. /\ NewState(r).pending = req[r].work.pending
      /\ NewState(r).outcomes = req[r].work.outcomes
      /\ NewState(r).won = req[r].work.won
  BY DEF NewState, TypeOK, Submissions, GameStates
<1>5. /\ row'.turnCount = row.turnCount + 1 /\ row'.state = NewState(r)
      /\ row'.status = row.status /\ row'.outcome = row.outcome
  BY <1>3 DEF TypeOK
<1>6. QED
  BY <1>1, <1>2, <1>3, <1>4, <1>5

LEMMA LateKnows ==
  ASSUME TypeOK, TypeOK', NEW r \in Requests, Knows(r), participants' = participants,
         Committing(r) \/ Retrying(r) \/ Ending(r) \/ Flushing(r)
  PROVE  Knows(r)'
<1>1. req[r] \in Submissions /\ row.turnCount \in Nat /\ issued \in Nat
  BY DEF TypeOK
<1>2. CASE Committing(r)
  <2>1. /\ req[r].pc = "writing" /\ req[r].loaded.turnCount = row.turnCount
        /\ row'.turnCount = row.turnCount + 1 /\ issued' = issued
        /\ row'.state.pending = req[r].work.pending
        /\ row'.state.won = req[r].work.won
    BY <1>2, CommitOverLoaded DEF Committing
  <2>2. CASE req'[r].pc = "degraded"
    BY <2>2 DEF Knows, Passed, SeenIsPast, LoadIsLater, WorkIsResolved, InFlight, Streaming
  <2>3. CASE req'[r].pc \in {"writing", "written"} /\ Keeps(r)
    <3>1. Passed(r)'
      BY <2>1, <2>3 DEF Keeps, Knows, Passed, InFlight, Streaming
    <3>2. LoadIsLater(r)'
      BY <1>1, <2>1, <2>3 DEF Keeps, Knows, LoadIsLater, Streaming, Sane
    <3>3. Resolved(req[r])' = Resolved(req[r]) /\ TurnOf(r)' = row.turnCount + 1
      BY <2>1, <2>3 DEF Keeps, Resolved, TurnOf
    <3>4. WorkIsResolved(r)'
      BY <1>1, <2>1, <2>3, <3>3 DEF Keeps, Knows, WorkIsResolved, Sane
    <3>5. QED
      BY <2>3, <3>1, <3>2, <3>4 DEF Knows, SeenIsPast
  <2>4. QED
    BY <1>2, <2>2, <2>3 DEF Committing
<1>3. CASE Retrying(r)
  <2>1. Resolved(req[r])' = Resolved(req[r])
    BY <1>3 DEF Retrying, Keeps, Resolved
  <2>2. QED
    BY <1>3, <2>1 DEF Retrying, RowStays, Keeps, Knows, Passed, SeenIsPast, LoadIsLater, WorkIsResolved,
                      Sane, InFlight, Streaming
<1>4. CASE Ending(r) \/ Flushing(r)
  <2>1. /\ Keeps(r) /\ issued' = issued /\ row'.turnCount = row.turnCount /\ row'.state = row.state
        /\ req[r].pc \in {"written", "ended"} /\ req'[r].pc \in {"ended", "flushed"}
    BY <1>4 DEF Ending, Flushing, RowStays
  <2>2. QED
    BY <2>1 DEF Keeps, Knows, Passed, SeenIsPast, LoadIsLater, WorkIsResolved, Sane, InFlight, Streaming
<1>5. QED
  BY <1>2, <1>3, <1>4

LEMMA GameStep ==
  ASSUME TypeOK, TypeOK', GameInv, NEW r \in Requests, Submit(r) \/ Progress(r) \/ Disconnect(r)
  PROVE  GameInv'
<1>1. Knows(r) /\ Sane(row.state)
  BY DEF GameInv
<1>2. participants' = participants
  BY Kinds
<1>3. Knows(r)'
  BY <1>1, <1>2, Kinds, EarlyKnows, NarratingKnows, LateKnows
<1>4. /\ issued' \in {issued, issued + 1}
      /\ \/ row'.turnCount = row.turnCount /\ row'.state = row.state
         \/ Committing(r)
  BY Kinds DEF Settling, Arriving, Admitting, Loading, Entering, Narrating, Committing, Retrying,
               Ending, Flushing, RowStays
<1>5. Committing(r) => row'.turnCount = row.turnCount + 1
  BY <1>1, CommitOverLoaded
<1>6. ASSUME NEW s \in Requests \ {r} PROVE Knows(s)'
  <2>1. Knows(s) /\ req'[s] = req[s]
    BY OneMoves DEF GameInv
  <2>2. QED
    BY <1>2, <1>4, <1>5, <2>1, OthersKnow
<1>7. Sane(row.state)'
  <2>1. CASE row'.state = row.state
    BY <1>1, <1>4, <2>1, SaneGrows DEF Sane
  <2>2. CASE Committing(r)
    <3>1. Sane(req[r].work) /\ issued' = issued
      BY <1>1, <2>2 DEF Committing, Knows, WorkIsResolved
    <3>2. row'.state.pending = req[r].work.pending /\ row'.state.outcomes = req[r].work.outcomes
      BY <1>1, <2>2, CommitOverLoaded
    <3>3. QED
      BY <3>1, <3>2 DEF Sane
  <2>3. QED
    BY <1>4, <2>1, <2>2
<1>8. QED
  BY <1>3, <1>6, <1>7 DEF GameInv

LEMMA GameStays ==
  ASSUME TypeOK, TypeOK', GameInv, [Next]_vars
  PROVE  GameInv'
<1>1. CASE UNCHANGED vars
  BY <1>1 DEF vars, GameInv, Knows, Passed, SeenIsPast, LoadIsLater, WorkIsResolved, Sane, TurnOf, Resolved
<1>2. QED
  BY <1>1, GameStep DEF Next

-----------------------------------------------------------------------------
(* The properties of a step follow from what its submission knows. *)

TakesTurn(e) ==
  LET q == req[e.req] IN
  /\ Len(participants) > 1 => e.who = Expected(participants, q.seen.turnCount)
  /\ ~Overtaken(q) =>
       /\ q.seen.turnCount = e.number - 1
       /\ q.attempt = row.state.pending
       /\ \A i \in DOMAIN row.state.outcomes : row.state.outcomes[i] # q.attempt
       /\ q.attempt # NoMinigame =>
            row'.state.outcomes = Append(row.state.outcomes, q.attempt)

LeavesByResult(e) ==
  LET q == req[e.req] IN
  /\ q.attempt # NoMinigame
  /\ row'.state.outcomes = Append(row.state.outcomes, q.attempt)
  /\ q.attempt # row.state.pending => Overtaken(q)

LEMMA CommitTakesTurn ==
  ASSUME TypeOK, GameInv, NEW r \in Requests, Committing(r),
         NEW e, e = [number |-> row.turnCount + 1, req |-> r, who |-> req[r].who]
  PROVE  /\ TakesTurn(e)
         /\ row.state.pending # NoMinigame /\ row'.state.pending # row.state.pending => LeavesByResult(e)
<1> DEFINE q == req[r]
<1>1. e.req = r /\ e.number - 1 = row.turnCount /\ e.who = q.who
  BY DEF TypeOK
<1>2. Knows(r) /\ Sane(row.state) /\ q.pc = "writing" /\ q \in Submissions
  BY DEF GameInv, Committing, TypeOK
<1>3. /\ q.loaded.turnCount = row.turnCount /\ q.loaded.state = row.state
      /\ row'.state.outcomes = q.work.outcomes
      /\ row'.state.pending = q.work.pending
  BY <1>2, CommitOverLoaded
<1>4. /\ q.attempt \in 0..issued /\ q.seen.pending = q.attempt
      /\ Len(participants) > 1 => q.who = Expected(participants, q.seen.turnCount)
  BY <1>2 DEF Knows, Passed, InFlight, Streaming
<1>5. /\ q.seen.turnCount <= q.loaded.turnCount
      /\ q.seen.turnCount = q.loaded.turnCount => q.attempt = q.loaded.state.pending
      /\ ~MasterMode => q.attempt = NoMinigame
      /\ Sane(q.loaded.state)
  BY <1>2, <1>4 DEF Knows, LoadIsLater, Streaming
<1>6. q.attempt # NoMinigame => row'.state.outcomes = Append(row.state.outcomes, q.attempt)
  <2>1. q.work.outcomes = Resolved(q).outcomes
    BY <1>2 DEF Knows, WorkIsResolved
  <2>2. QED
    BY <1>2, <1>3, <1>4, <1>5, <2>1, ResolvedIsSane
<1>7. q.seen.turnCount \in Nat /\ q.loaded.turnCount \in Nat
  BY <1>2 DEF Submissions
<1>8. Overtaken(q) \/ q.seen.turnCount = q.loaded.turnCount
  BY <1>5, <1>7 DEF Overtaken
<1>9. TakesTurn(e)
  <2>1. ~Overtaken(q) => q.seen.turnCount = row.turnCount /\ q.attempt = row.state.pending
    BY <1>3, <1>5, <1>8
  <2>2. ~Overtaken(q) => \A i \in DOMAIN row.state.outcomes : row.state.outcomes[i] # q.attempt
    BY <1>2, <2>1 DEF Sane
  <2>3. QED
    BY <1>1, <1>4, <1>6, <2>1, <2>2 DEF TakesTurn
<1>10. ASSUME row.state.pending # NoMinigame, row'.state.pending # row.state.pending
       PROVE  LeavesByResult(e)
  <2>1. q.attempt # NoMinigame
    BY <1>2, <1>3, <1>10 DEF Knows, WorkIsResolved
  <2>2. q.attempt # row.state.pending => Overtaken(q)
    BY <1>3, <1>5, <1>8
  <2>3. QED
    BY <1>1, <1>6, <2>1, <2>2 DEF LeavesByResult
<1>11. QED
  BY <1>9, <1>10

(* Whatever does not commit leaves the log and the pending attempt alone.     *)
LEMMA OnlyCommits ==
  ASSUME TypeOK, [Next]_vars
  PROVE  \/ turnLog' = turnLog /\ row'.state = row.state
         \/ \E r \in Requests : Committing(r)
<1>1. CASE UNCHANGED vars
  BY <1>1 DEF vars
<1>2. ASSUME NEW r \in Requests, Submit(r) \/ Progress(r) \/ Disconnect(r)
      PROVE  (turnLog' = turnLog /\ row'.state = row.state) \/ Committing(r)
  BY <1>2, Kinds DEF Settling, Arriving, Admitting, Loading, Entering, Narrating, Retrying, Ending,
                     Flushing, RowStays
<1>3. QED
  BY <1>1, <1>2 DEF Next

LEMMA TurnStep ==
  ASSUME TypeOK, GameInv, [Next]_vars
  PROVE  /\ \A e \in turnLog' \ turnLog : TakesTurn(e)
         /\ row.state.pending # NoMinigame /\ row'.state.pending # row.state.pending =>
              \E e \in turnLog' \ turnLog : LeavesByResult(e)
<1>1. CASE turnLog' = turnLog /\ row'.state = row.state
  BY <1>1
<1>2. ASSUME NEW r \in Requests, Committing(r)
      PROVE  /\ \A e \in turnLog' \ turnLog : TakesTurn(e)
             /\ row.state.pending # NoMinigame /\ row'.state.pending # row.state.pending =>
                  \E e \in turnLog' \ turnLog : LeavesByResult(e)
  <2>1. PICK e : e = [number |-> row.turnCount + 1, req |-> r, who |-> req[r].who]
    OBVIOUS
  <2>2. turnLog' = turnLog \cup {e}
    BY <1>2, <2>1, CommitOverLoaded DEF GameInv
  <2>3. e \notin turnLog
    <3>1. NumberIsFree(row.turnCount + 1)
      BY <1>2 DEF Committing, Persist, LockHolds
    <3>2. QED
      BY <2>1, <3>1 DEF NumberIsFree
  <2>4. QED
    BY <1>2, <2>1, <2>2, <2>3, CommitTakesTurn
<1>3. QED
  BY <1>1, <1>2, OnlyCommits

(* After an ending nothing opens, and only what is open moves.                *)
LEMMA ClosingStep ==
  ASSUME TypeOK, GameInv, [Next]_vars, row.status = "completed"
  PROVE  /\ row'.status = "completed"
         /\ Open' \subseteq Open
         /\ \A e \in turnLog' \ turnLog : e.req \in Open
         /\ row' # row => Open # {}
<1>1. CASE UNCHANGED vars
  BY <1>1 DEF vars, Open
<1>2. ASSUME NEW r \in Requests, Submit(r) \/ Progress(r) \/ Disconnect(r)
      PROVE  /\ row'.status = "completed"
             /\ Open' \subseteq Open
             /\ \A e \in turnLog' \ turnLog : e.req \in Open
             /\ row' # row => Open # {}
  <2>1. ~Arriving(r)
    BY DEF Arriving, IsActive
  <2>2. req'[r].pc \in InFlight => req[r].pc \in InFlight
    BY <1>2, <2>1, Kinds DEF Settling, Settled, Admitting, Loading, Entering, Narrating, Committing,
                             Retrying, Ending, Flushing, InFlight, Streaming
  <2>3. \A s \in Requests \ {r} : req'[s] = req[s]
    BY <1>2, OneMoves
  <2>4. Open' \subseteq Open
    BY <2>2, <2>3 DEF Open
  <2>5. CASE Committing(r)
    <3>1. r \in Open
      BY <2>5 DEF Committing, Open, InFlight, Streaming
    <3>2. /\ row'.status = row.status
          /\ turnLog' = turnLog \cup {[number |-> row.turnCount + 1, req |-> r, who |-> req[r].who]}
      BY <2>5, CommitOverLoaded DEF GameInv
    <3>3. QED
      BY <2>4, <3>1, <3>2
  <2>6. CASE Ending(r)
    <3>1. r \in Open
      BY <2>6 DEF Ending, Open, InFlight, Streaming
    <3>2. QED
      BY <2>4, <2>6, <3>1 DEF Ending
  <2>7. CASE ~Committing(r) /\ ~Ending(r)
    <3>1. row' = row /\ turnLog' = turnLog
      BY <1>2, <2>7, Kinds DEF Settling, Arriving, Admitting, Loading, Entering, Narrating, Retrying,
                               Flushing, RowStays
    <3>2. QED
      BY <2>4, <3>1
  <2>8. QED
    BY <2>5, <2>6, <2>7
<1>3. QED
  BY <1>1, <1>2 DEF Next

(* An outcome is recorded by the coroutine that wrote its turn.               *)
LEMMA OutcomeStep ==
  ASSUME ConsistentStory, GameInv, [Next]_vars, row'.outcome # row.outcome
  PROVE  /\ \E e \in turnLog : e.number = row'.outcome
         /\ row'.outcome = row.turnCount => row.state.won /\ row.state.pending = NoMinigame
<1>1. TypeOK
  BY DEF ConsistentStory
<1>2. ASSUME NEW r \in Requests, Submit(r) \/ Progress(r) \/ Disconnect(r)
      PROVE  /\ \E e \in turnLog : e.number = row'.outcome
             /\ row'.outcome = row.turnCount => row.state.won /\ row.state.pending = NoMinigame
  <2>1. ~Committing(r)
    BY <1>1, CommitOverLoaded DEF GameInv
  <2>2. Ending(r)
    BY <1>1, <1>2, <2>1, Kinds DEF Settling, Arriving, Admitting, Loading, Entering, Narrating, Retrying,
                                   Flushing, RowStays
  <2>3. req[r].pc = "written" /\ Ends(r) /\ row'.outcome = TurnOf(r)
    BY <2>2 DEF Ending
  <2>4. TurnOf(r) \in Nat \ {0}
    BY <1>1 DEF TurnOf, TypeOK, Submissions
  <2>5. \E e \in turnLog : e.number = TurnOf(r)
    BY <2>3, <2>4 DEF ConsistentStory, BatchIsLogged
  <2>6. TurnOf(r) = row.turnCount =>
          row.state.won = req[r].work.won /\ row.state.pending = req[r].work.pending
    BY <2>3 DEF GameInv, Knows, WorkIsResolved
  <2>7. QED
    BY <2>3, <2>5, <2>6 DEF Ends
<1>3. QED
  BY <1>2 DEF Next, vars

(* However many submissions are open: the author of a new turn was to play    *)
(* when it was validated, and a submission that was not overtaken is what the *)
(* row asked for.                                                             *)
THEOREM TurnsAreTaken == Spec => TurnsTaken
<1>1. TypeOK /\ GameInv /\ [Next]_vars => \A e \in turnLog' \ turnLog : TakesTurn(e)
  BY TurnStep
<1>2. QED
  BY <1>1, TypeInit, TypeStep, GameInit, GameStays, PTL DEF Spec, TurnsTaken, TakesTurn

(* However many submissions are open: a pending attempt leaves with a result  *)
(* only, an ending lets nothing in that was not open, and the outcome is that *)
(* of a turn in the log.                                                      *)
THEOREM OutcomesAreKept == Spec => OutcomesStand
<1>1. TypeOK /\ GameInv /\ [Next]_vars =>
        (row.state.pending # NoMinigame /\ row'.state.pending # row.state.pending =>
           \E e \in turnLog' \ turnLog : LeavesByResult(e))
  BY TurnStep
<1>2. TypeOK /\ GameInv /\ [Next]_vars =>
        (row.status = "completed" =>
           /\ row'.status = "completed"
           /\ Open' \subseteq Open
           /\ \A e \in turnLog' \ turnLog : e.req \in Open
           /\ row' # row => Open # {})
  BY ClosingStep
<1>3. ConsistentStory /\ GameInv /\ [Next]_vars =>
        (row'.outcome # row.outcome =>
           /\ \E e \in turnLog : e.number = row'.outcome
           /\ row'.outcome = row.turnCount => row.state.won /\ row.state.pending = NoMinigame)
  BY OutcomeStep
<1>4. Spec => []ConsistentStory /\ []TypeOK /\ []GameInv
  BY StoryConsistent, TypeInit, TypeStep, GameInit, GameStays, PTL DEF Spec
<1>5. QED
  BY <1>1, <1>2, <1>3, <1>4, PTL DEF Spec, OutcomesStand, PendingLeavesByResult, EndingCloses, OutcomeFits,
     LeavesByResult

-----------------------------------------------------------------------------
(* The two services together. *)

(* Types. *)

RowRecords == [status : {"active", "completed", "abandoned"}, turnCount : Nat,
               state : GameStates, outcome : Nat]

CallRecords ==
  [op : {"none", "join", "edit", "abandon"},
   pc : {"idle", "read", "locked", "seated", "done", "rejected", "integrity_error", "lost"},
   who : Participants, seen : RowRecords, seat : Nat]

InJoin(c) == call[c].op = "join" /\ call[c].pc \in {"locked", "seated"}

LEMMA LifecycleTypeParts ==
  LifecycleTypeOK <=> /\ TypeOK
                      /\ call \in [Calls -> CallRecords]
                      /\ lock \in {Unlocked} \cup {c \in Calls : InJoin(c)}
BY DEF LifecycleTypeOK, CallRecords, RowRecords, InJoin

LEMMA NewCallType == NewCall \in CallRecords
<1>1. AnyParticipant \in Participants
  BY ParticipantsAssumption DEF AnyParticipant
<1>2. EmptyState \in GameStates
  BY DEF EmptyState, GameStates, NoMinigame
<1>3. NewRow \in RowRecords
  BY <1>2 DEF NewRow, RowRecords, NoOutcome
<1>4. QED
  BY <1>1, <1>3 DEF NewCall, CallRecords

(* An answered call is well typed, and forgets its row and its seat.          *)
LEMMA AnswerLifecycleType ==
  ASSUME call \in [Calls -> CallRecords], NEW c \in Calls,
         NEW outcome \in {"done", "rejected", "integrity_error", "lost"}, Answer(c, outcome)
  PROVE  /\ call' \in [Calls -> CallRecords]
         /\ call'[c].pc = outcome
         /\ \A d \in Calls \ {c} : call'[d] = call[d]
<1> DEFINE q == [call[c] EXCEPT !.pc = outcome, !.seen = NewRow, !.seat = 0]
<1>1. NewRow \in RowRecords
  BY NewCallType DEF NewCall, CallRecords
<1>2. q \in CallRecords /\ q.pc = outcome
  BY <1>1 DEF CallRecords
<1>3. call' = [call EXCEPT ![c] = q]
  BY DEF Answer
<1>4. QED
  BY <1>2, <1>3

(* A call that starts is well typed, and goes on only if its checks hold.     *)
LEMMA BeginType ==
  ASSUME call \in [Calls -> CallRecords], row \in RowRecords, NEW c \in Calls,
         NEW op \in {"join", "edit", "abandon"}, NEW p \in Participants,
         NEW ok \in BOOLEAN, NEW next \in {"read", "locked"},
         Begin(c, op, p, ok, next)
  PROVE  /\ call' \in [Calls -> CallRecords]
         /\ call[c].pc = "idle"
         /\ call'[c].pc = IF ok THEN next ELSE "rejected"
         /\ call'[c].op = op
         /\ \A d \in Calls \ {c} : call'[d] = call[d]
<1> DEFINE yes == [NewCall EXCEPT !.op = op, !.pc = next, !.who = p, !.seen = row]
           no == [NewCall EXCEPT !.op = op, !.pc = "rejected", !.who = p]
<1>1. /\ yes \in CallRecords /\ yes.pc = next /\ yes.op = op
      /\ no \in CallRecords /\ no.pc = "rejected" /\ no.op = op
  BY NewCallType DEF CallRecords
<1>2. call[c].pc = "idle" /\ call' = [call EXCEPT ![c] = IF ok THEN yes ELSE no]
  BY DEF Begin
<1> HIDE DEF yes, no
<1>3. QED
  BY <1>1, <1>2

(* A flush leaves a row, with the status it had or the one the call set.      *)
LEMMA FlushRowType ==
  ASSUME row \in RowRecords, NEW seen \in RowRecords, NEW new \in RowRecords,
         FlushRow(seen, new)
  PROVE  /\ row' \in RowRecords
         /\ row'.status = IF new.status # seen.status THEN new.status ELSE row.status
BY DEF FlushRow, RowRecords

LEMMA EditedType ==
  ASSUME call \in [Calls -> CallRecords], NEW c \in Calls
  PROVE  LET new == [call[c].seen EXCEPT !.state.setup = @ \cup {call[c].who}]
         IN  new \in RowRecords /\ new.status = call[c].seen.status
<1> DEFINE seen == call[c].seen
           setup == seen.state.setup \cup {call[c].who}
           state == [seen.state EXCEPT !.setup = setup]
<1>1. seen \in RowRecords /\ seen.state \in GameStates /\ call[c].who \in Participants
  BY DEF CallRecords, RowRecords
<1>2. setup \in SUBSET Participants
  BY <1>1 DEF GameStates
<1> HIDE DEF setup
<1>3. state \in GameStates
  BY <1>1, <1>2 DEF GameStates
<1> HIDE DEF state
<1>4. [seen EXCEPT !.state = state] \in RowRecords /\ [seen EXCEPT !.state = state].status = seen.status
  BY <1>1, <1>3 DEF RowRecords
<1>5. [seen EXCEPT !.state.setup = @ \cup {call[c].who}] = [seen EXCEPT !.state = state]
  BY <1>1 DEF state, setup, RowRecords
<1>6. QED
  BY <1>4, <1>5

-----------------------------------------------------------------------------
(* What each service leaves alone. *)

(* The turn pipeline never adds a participant and only ever completes a       *)
(* playthrough.                                                               *)
LEMMA TurnKeeps ==
  ASSUME TypeOK, Next
  PROVE  participants' = participants /\ row'.status \in {row.status, "completed"}
<1> USE DEF TypeOK
<1>1. ASSUME NEW r \in Requests, Submit(r) PROVE UNCHANGED <<participants, row>>
  BY <1>1 DEF Submit, Receive
<1>2. ASSUME NEW r \in Requests, Persist(r) PROVE row'.status = row.status
  BY <1>2 DEF Persist
<1>3. ASSUME NEW r \in Requests, Write(r)
      PROVE  participants' = participants /\ row'.status = row.status
  BY <1>2, <1>3 DEF Write, WriteCommits, WriteCommitsReplyLost, WriteFails, WriteConflicts
<1>4. ASSUME NEW r \in Requests, MarkEnded(r)
      PROVE  participants' = participants /\ row'.status = "completed"
  BY <1>4 DEF MarkEnded
<1>5. ASSUME NEW r \in Requests, Progress(r), ~Write(r), ~MarkEnded(r)
      PROVE  UNCHANGED <<participants, row>>
  BY <1>5 DEF Progress, Validate, Load, Intake, Narrate, NarrateAndTrigger, NarrationFails,
              MarkEndedFails, FlushMemory, Announce
<1>6. ASSUME NEW r \in Requests, Disconnect(r) PROVE UNCHANGED <<participants, row>>
  BY <1>6 DEF Disconnect
<1>7. QED
  BY <1>1, <1>3, <1>4, <1>5, <1>6 DEF Next

LEMMA LifecycleTypeInit == LifecycleInit => LifecycleTypeOK
BY TypeInit, NewCallType, LifecycleTypeParts DEF LifecycleInit, CoreInit

(* A call of core-api keeps the pipeline's types.                             *)
LEMMA CoreTypes ==
  ASSUME TypeOK, row' \in RowRecords, participants' \in Seq(Participants) \ {<<>>},
         UNCHANGED <<turnLog, playCount, issued, req, delivered, notices>>
  PROVE  TypeOK'
BY DEF TypeOK, RowRecords

LEMMA RowIsRecord == TypeOK => row \in RowRecords
BY DEF TypeOK, RowRecords

LEMMA OtherCallsKeepLock ==
  ASSUME lock \in {Unlocked} \cup {c \in Calls : InJoin(c)}, NEW c \in Calls,
         \A d \in Calls \ {c} : call'[d] = call[d],
         lock' = lock, lock # c
  PROVE  lock' \in {Unlocked} \cup {d \in Calls : InJoin(d)'}
BY DEF InJoin

(* A listed joiner is seated behind the participants that it listed.          *)
LEMMA SeatedType ==
  ASSUME TypeOK, call \in [Calls -> CallRecords], NEW c \in Calls,
         call' = [call EXCEPT ![c].pc = "seated", ![c].seat = Len(participants) + 1]
  PROVE  /\ call' \in [Calls -> CallRecords]
         /\ call'[c].pc = "seated"
         /\ call'[c].op = call[c].op
         /\ call'[c].who = call[c].who
         /\ call'[c].seat = Len(participants) + 1
         /\ \A d \in Calls \ {c} : call'[d] = call[d]
<1> DEFINE n == Len(participants) + 1
           q == [call[c] EXCEPT !.pc = "seated", !.seat = n]
<1>1. n \in Nat
  BY DEF TypeOK
<1>2. call' = [call EXCEPT ![c] = q]
  OBVIOUS
<1> HIDE DEF n
<1>3. q \in CallRecords /\ q.pc = "seated" /\ q.seat = n
      /\ q.op = call[c].op /\ q.who = call[c].who
  BY <1>1 DEF CallRecords
<1> HIDE DEF q
<1>4. QED
  BY <1>2, <1>3 DEF n

LEMMA LifecycleTypeStep ==
  LifecycleTypeOK /\ [LifecycleNext]_lifecycleVars => LifecycleTypeOK'
<1> SUFFICES ASSUME LifecycleTypeOK, [LifecycleNext]_lifecycleVars
             PROVE  /\ TypeOK'
                    /\ call' \in [Calls -> CallRecords]
                    /\ lock' \in {Unlocked} \cup {c \in Calls : InJoin(c)'}
  BY DEF LifecycleTypeOK, CallRecords, RowRecords, InJoin
<1>0. /\ TypeOK
      /\ row \in RowRecords
      /\ call \in [Calls -> CallRecords]
      /\ lock \in {Unlocked} \cup {c \in Calls : InJoin(c)}
      /\ \A c \in Calls : call[c].pc \in {"idle", "read"} => lock # c
  BY LifecycleTypeParts, RowIsRecord, UnlockedAssumption DEF InJoin
<1>a. UNCHANGED vars => TypeOK'
  BY <1>0, TypeStep
<1>1. CASE TurnNext
  <2>1. TypeOK'
    BY <1>0, <1>1, TypeStep DEF TurnNext
  <2>2. QED
    BY <1>0, <1>1, <2>1 DEF TurnNext, coreVars, InJoin
<1>2. ASSUME NEW c \in Calls, NEW p \in Participants, JoinLocks(c, p) PROVE
        /\ TypeOK'
        /\ call' \in [Calls -> CallRecords]
        /\ lock' \in {Unlocked} \cup {d \in Calls : InJoin(d)'}
  <2>1. Begin(c, "join", p, Joinable, "locked") /\ Joinable \in BOOLEAN
    BY <1>2 DEF JoinLocks, Joinable
  <2>2. /\ call' \in [Calls -> CallRecords]
        /\ call'[c].pc = IF Joinable THEN "locked" ELSE "rejected"
        /\ call'[c].op = "join"
    BY <1>0, <2>1, BeginType
  <2>3. QED
    BY <1>a, <1>2, <2>2 DEF JoinLocks, InJoin
<1>3. ASSUME NEW c \in Calls, NEW p \in Participants, EditReads(c, p) \/ AbandonReads(c, p)
      PROVE  /\ TypeOK'
             /\ call' \in [Calls -> CallRecords]
             /\ lock' \in {Unlocked} \cup {d \in Calls : InJoin(d)'}
  <2>1. UNCHANGED <<vars, lock>>
    BY <1>3 DEF EditReads, AbandonReads
  <2>2. PICK op \in {"edit", "abandon"}, ok \in BOOLEAN : Begin(c, op, p, ok, "read")
    BY <1>3 DEF EditReads, AbandonReads, IsMember
  <2>3. /\ call' \in [Calls -> CallRecords] /\ call[c].pc = "idle"
        /\ \A d \in Calls \ {c} : call'[d] = call[d]
    BY <1>0, <2>2, BeginType
  <2>4. QED
    BY <1>0, <1>a, <2>1, <2>3, OtherCallsKeepLock
<1>4. ASSUME NEW c \in Calls, JoinLists(c)
      PROVE  /\ TypeOK'
             /\ call' \in [Calls -> CallRecords]
             /\ lock' \in {Unlocked} \cup {d \in Calls : InJoin(d)'}
  <2>1. CASE IsMember(call[c].who)
    <3>1. Answer(c, "done") /\ Release(c)
      BY <1>4, <2>1 DEF JoinLists
    <3>2. call' \in [Calls -> CallRecords] /\ \A d \in Calls \ {c} : call'[d] = call[d]
      BY <1>0, <3>1, AnswerLifecycleType
    <3>3. QED
      BY <1>0, <1>a, <1>4, <3>1, <3>2 DEF JoinLists, Release, InJoin
  <2>2. CASE ~IsMember(call[c].who)
    <3>1. call' = [call EXCEPT ![c].pc = "seated", ![c].seat = Len(participants) + 1]
      BY <1>4, <2>2 DEF JoinLists
    <3>2. /\ call' \in [Calls -> CallRecords] /\ call'[c].pc = "seated"
          /\ call'[c].op = call[c].op
          /\ \A d \in Calls \ {c} : call'[d] = call[d]
      BY <1>0, <3>1, SeatedType
    <3>3. QED
      BY <1>0, <1>a, <1>4, <2>2, <3>2 DEF JoinLists, At, InJoin
  <2>3. QED
    BY <2>1, <2>2
<1>5. ASSUME NEW c \in Calls, JoinInserts(c)
      PROVE  /\ TypeOK'
             /\ call' \in [Calls -> CallRecords]
             /\ lock' \in {Unlocked} \cup {d \in Calls : InJoin(d)'}
  <2>1. Answer(c, "done") \/ Answer(c, "integrity_error")
    BY <1>5 DEF JoinInserts
  <2>2. call' \in [Calls -> CallRecords] /\ \A d \in Calls \ {c} : call'[d] = call[d]
    BY <1>0, <2>1, AnswerLifecycleType
  <2>3. participants' \in Seq(Participants) \ {<<>>}
    <3>1. call[c].who \in Participants /\ participants \in Seq(Participants) \ {<<>>}
      BY <1>0 DEF CallRecords, TypeOK
    <3>2. participants' \in {participants, Append(participants, call[c].who)}
      BY <1>5 DEF JoinInserts
    <3>3. QED
      BY <3>1, <3>2
  <2>4. TypeOK'
    BY <1>0, <1>5, <2>3, CoreTypes DEF JoinInserts
  <2>5. QED
    BY <1>0, <1>5, <2>2, <2>4 DEF JoinInserts, Release, InJoin
<1>6. ASSUME NEW c \in Calls, EditWrites(c) \/ AbandonWrites(c)
      PROVE  /\ TypeOK'
             /\ call' \in [Calls -> CallRecords]
             /\ lock' \in {Unlocked} \cup {d \in Calls : InJoin(d)'}
  <2>1. Answer(c, "done") /\ call[c].pc = "read"
    BY <1>6 DEF EditWrites, AbandonWrites, At
  <2>2. call' \in [Calls -> CallRecords] /\ \A d \in Calls \ {c} : call'[d] = call[d]
    BY <1>0, <2>1, AnswerLifecycleType
  <2>3. PICK new \in RowRecords : FlushRow(call[c].seen, new)
    <3>1. CASE EditWrites(c)
      BY <1>0, <3>1, EditedType DEF EditWrites
    <3>2. CASE AbandonWrites(c)
      <4>1. call[c].seen \in RowRecords
        BY <1>0 DEF CallRecords
      <4>2. [call[c].seen EXCEPT !.status = "abandoned"] \in RowRecords
        BY <4>1 DEF RowRecords
      <4>3. QED
        BY <3>2, <4>2 DEF AbandonWrites
    <3>3. QED
      BY <1>6, <3>1, <3>2
  <2>4. call[c].seen \in RowRecords
    BY <1>0 DEF CallRecords
  <2>5. row' \in RowRecords
    BY <1>0, <2>3, <2>4, FlushRowType
  <2>6. TypeOK'
    <3>1. participants' \in Seq(Participants) \ {<<>>}
      BY <1>0, <2>3 DEF FlushRow, TypeOK
    <3>2. QED
      BY <1>0, <2>3, <2>5, <3>1, CoreTypes DEF FlushRow
  <2>7. QED
    BY <1>0, <2>1, <2>2, <2>3, <2>6, OtherCallsKeepLock DEF FlushRow
<1>7. ASSUME NEW c \in Calls, Dies(c)
      PROVE  /\ TypeOK'
             /\ call' \in [Calls -> CallRecords]
             /\ lock' \in {Unlocked} \cup {d \in Calls : InJoin(d)'}
  <2>1. call' \in [Calls -> CallRecords] /\ \A d \in Calls \ {c} : call'[d] = call[d]
    BY <1>0, <1>7, AnswerLifecycleType DEF Dies
  <2>2. QED
    BY <1>0, <1>a, <1>7, <2>1 DEF Dies, Release, InJoin
<1>8. CASE UNCHANGED lifecycleVars
  BY <1>0, <1>a, <1>8 DEF lifecycleVars, coreVars, InJoin
<1>9. QED
  BY <1>1, <1>2, <1>3, <1>4, <1>5, <1>6, <1>7, <1>8 DEF LifecycleNext, CoreNext

(* Every variable of the two services keeps its type, and a row lock is only  *)
(* ever held by a join that is still running.                                 *)
THEOREM LifecycleTypeCorrect == LifecycleSpec => []LifecycleTypeOK
BY LifecycleTypeInit, LifecycleTypeStep, PTL DEF LifecycleSpec

-----------------------------------------------------------------------------
(* The status of the row. *)

LEMMA EndedStep ==
  ASSUME LifecycleTypeOK, [LifecycleNext]_lifecycleVars, row.status # "active"
  PROVE  row'.status # "active"
<1>0. /\ TypeOK
      /\ row \in RowRecords
      /\ call \in [Calls -> CallRecords]
  BY LifecycleTypeParts, RowIsRecord
<1>1. CASE TurnNext
  BY <1>0, <1>1, TurnKeeps DEF TurnNext
<1>2. ASSUME NEW c \in Calls, EditWrites(c) PROVE row'.status # "active"
  <2> DEFINE new == [call[c].seen EXCEPT !.state.setup = @ \cup {call[c].who}]
  <2>1. new \in RowRecords /\ new.status = call[c].seen.status
    BY <1>0, EditedType
  <2>2. FlushRow(call[c].seen, new) /\ call[c].seen \in RowRecords
    BY <1>0, <1>2 DEF EditWrites, CallRecords
  <2> HIDE DEF new
  <2>3. row'.status = row.status
    BY <1>0, <2>1, <2>2, FlushRowType
  <2>4. QED
    BY <2>3
<1>3. ASSUME NEW c \in Calls, AbandonWrites(c) PROVE row'.status # "active"
  <2> DEFINE new == [call[c].seen EXCEPT !.status = "abandoned"]
  <2>1. call[c].seen \in RowRecords
    BY <1>0 DEF CallRecords
  <2>2. new \in RowRecords /\ new.status = "abandoned"
    BY <2>1 DEF RowRecords
  <2>3. FlushRow(call[c].seen, new)
    BY <1>3 DEF AbandonWrites
  <2> HIDE DEF new
  <2>4. row'.status \in {row.status, "abandoned"}
    BY <1>0, <2>1, <2>2, <2>3, FlushRowType
  <2>5. QED
    BY <2>4
<1>4. ASSUME NEW c \in Calls, ~EditWrites(c), ~AbandonWrites(c), CoreNext,
             \/ \E p \in Participants : JoinLocks(c, p) \/ EditReads(c, p) \/ AbandonReads(c, p)
             \/ JoinLists(c) \/ JoinInserts(c) \/ Dies(c)
      PROVE  row'.status # "active"
  BY <1>4 DEF JoinLocks, EditReads, AbandonReads, JoinLists, JoinInserts, Dies, vars
<1>5. CASE UNCHANGED lifecycleVars
  BY <1>5 DEF lifecycleVars, vars
<1>6. QED
  BY <1>1, <1>2, <1>3, <1>4, <1>5 DEF LifecycleNext, CoreNext

(* A playthrough that was abandoned or has ended never becomes active again,  *)
(* whatever turns and edits write back rows they read while it was.           *)
THEOREM EndedStays == LifecycleSpec => EndedStaysEnded
BY LifecycleTypeInit, LifecycleTypeStep, EndedStep, PTL DEF LifecycleSpec, EndedStaysEnded

-----------------------------------------------------------------------------
(* Joins. *)

(* A join that goes on holds the lock, and while it does the playthrough is   *)
(* active and nobody else takes the seat or the membership it prepares.       *)
JoinInv ==
  /\ \A c \in Calls : call[c].pc \in {"locked", "seated"} => call[c].op = "join" /\ lock = c
  /\ \A c \in Calls : call[c].pc = "seated" =>
        call[c].seat = Len(participants) + 1 /\ ~IsMember(call[c].who)
  /\ lock # Unlocked => row.status = "active"
  /\ JoinNeverConflicts

LEMMA JoinInit == LifecycleInit => JoinInv
BY DEF LifecycleInit, CoreInit, NewCall, JoinInv, JoinNeverConflicts

(* A call that does not wait for an insert keeps the invariant of the others  *)
(* as long as it leaves row and participants alone and gives up only its own  *)
(* lock.                                                                      *)
LEMMA JoinBystanders ==
  ASSUME JoinInv, NEW c \in Calls, UNCHANGED <<row, participants>>,
         call' \in [Calls -> CallRecords], call'[c].pc \in {"read", "done", "rejected", "lost"},
         \A d \in Calls \ {c} : call'[d] = call[d],
         lock' # lock => lock = c /\ lock' = Unlocked
  PROVE  JoinInv'
<1>1. ASSUME NEW d \in Calls PROVE
        /\ call'[d].pc # "integrity_error"
        /\ call'[d].pc \in {"locked", "seated"} => call'[d].op = "join" /\ lock' = d
        /\ call'[d].pc = "seated" =>
             call'[d].seat = Len(participants) + 1 /\ ~IsMember(call'[d].who)
  <2>1. CASE d = c
    BY <2>1
  <2>2. CASE d # c
    BY <2>2 DEF JoinInv, JoinNeverConflicts
  <2>3. QED
    BY <2>1, <2>2
<1>2. lock' # Unlocked => row'.status = "active"
  BY DEF JoinInv
<1>3. \A p : IsMember(p)' <=> IsMember(p)
  BY DEF IsMember
<1>4. QED
  BY <1>1, <1>2, <1>3 DEF JoinInv, JoinNeverConflicts

LEMMA JoinStep ==
  LifecycleTypeOK /\ JoinInv /\ [LifecycleNext]_lifecycleVars => JoinInv'
<1> SUFFICES ASSUME LifecycleTypeOK, JoinInv, [LifecycleNext]_lifecycleVars
             PROVE  JoinInv'
  OBVIOUS
<1>0. /\ TypeOK
      /\ row \in RowRecords
      /\ call \in [Calls -> CallRecords]
      /\ call' \in [Calls -> CallRecords]
  BY LifecycleTypeParts, LifecycleTypeStep, RowIsRecord DEF LifecycleTypeOK, CallRecords, RowRecords
<1>1. CASE TurnNext
  <2>1. participants' = participants /\ (lock # Unlocked => row' = row) /\ UNCHANGED <<call, lock>>
    BY <1>0, <1>1, TurnKeeps DEF TurnNext, coreVars
  <2>2. QED
    BY <2>1 DEF JoinInv, JoinNeverConflicts, IsMember
<1>2. ASSUME NEW c \in Calls, NEW p \in Participants, JoinLocks(c, p) PROVE JoinInv'
  <2>1. Begin(c, "join", p, Joinable, "locked") /\ Joinable \in BOOLEAN
        /\ lock = Unlocked /\ UNCHANGED <<row, participants>>
    BY <1>2 DEF JoinLocks, Joinable, vars
  <2>2. /\ call'[c].pc = IF Joinable THEN "locked" ELSE "rejected"
        /\ call'[c].op = "join"
        /\ \A d \in Calls \ {c} : call'[d] = call[d]
    BY <1>0, <2>1, BeginType
  <2>3. \A d \in Calls : call[d].pc \notin {"locked", "seated"}
    BY <2>1, UnlockedAssumption DEF JoinInv
  <2>4. lock' = IF Joinable THEN c ELSE Unlocked
    BY <1>2 DEF JoinLocks
  <2>5. lock' # Unlocked => row'.status = "active"
    BY <2>1, <2>4 DEF Joinable
  <2>6. QED
    BY <2>2, <2>3, <2>4, <2>5 DEF JoinInv, JoinNeverConflicts
<1>3. ASSUME NEW c \in Calls, NEW p \in Participants, EditReads(c, p) \/ AbandonReads(c, p)
      PROVE  JoinInv'
  <2>1. UNCHANGED <<row, participants, lock>>
    BY <1>3 DEF EditReads, AbandonReads, vars
  <2>2. PICK op \in {"edit", "abandon"}, ok \in BOOLEAN : Begin(c, op, p, ok, "read")
    BY <1>3 DEF EditReads, AbandonReads, IsMember
  <2>3. /\ call[c].pc = "idle" /\ call'[c].pc \in {"read", "rejected"}
        /\ \A d \in Calls \ {c} : call'[d] = call[d]
    BY <1>0, <2>2, BeginType
  <2>4. QED
    BY <1>0, <2>1, <2>3, JoinBystanders
<1>4. ASSUME NEW c \in Calls, JoinLists(c) PROVE JoinInv'
  <2>0. UNCHANGED <<row, participants>> /\ At(c, "join", "locked")
    BY <1>4 DEF JoinLists, vars
  <2>1. CASE IsMember(call[c].who)
    <3>1. Answer(c, "done") /\ Release(c)
      BY <1>4, <2>1 DEF JoinLists
    <3>2. call'[c].pc = "done" /\ \A d \in Calls \ {c} : call'[d] = call[d]
      BY <1>0, <3>1, AnswerLifecycleType
    <3>3. lock' # lock => lock = c /\ lock' = Unlocked
      BY <3>1 DEF Release
    <3>4. QED
      BY <1>0, <2>0, <3>2, <3>3, JoinBystanders
  <2>2. CASE ~IsMember(call[c].who)
    <3>1. /\ call' = [call EXCEPT ![c].pc = "seated", ![c].seat = Len(participants) + 1]
          /\ lock' = lock
      BY <1>4, <2>2 DEF JoinLists
    <3>2. /\ call'[c].pc = "seated" /\ call'[c].seat = Len(participants) + 1
          /\ call'[c].op = call[c].op
          /\ call'[c].who = call[c].who
          /\ \A d \in Calls \ {c} : call'[d] = call[d]
      BY <1>0, <3>1, SeatedType
    <3>3. call[c].op = "join" /\ lock = c
      BY <2>0 DEF At, JoinInv
    <3>4. \A q : IsMember(q)' <=> IsMember(q)
      BY <2>0 DEF IsMember
    <3>5. QED
      BY <2>0, <2>2, <3>1, <3>2, <3>3, <3>4 DEF JoinInv, JoinNeverConflicts
  <2>3. QED
    BY <2>1, <2>2
<1>5. ASSUME NEW c \in Calls, JoinInserts(c) PROVE JoinInv'
  <2>1. call[c].seat = Len(participants) + 1 /\ ~IsMember(call[c].who) /\ lock = c
    BY <1>5 DEF JoinInserts, At, JoinInv
  <2>2. Answer(c, "done") /\ lock' = Unlocked
    BY <1>5, <2>1 DEF JoinInserts, Release
  <2>3. call'[c].pc = "done" /\ \A d \in Calls \ {c} : call'[d] = call[d]
    BY <1>0, <2>2, AnswerLifecycleType
  <2>4. \A d \in Calls : call'[d].pc \notin {"locked", "seated", "integrity_error"}
    BY <2>1, <2>3 DEF JoinInv, JoinNeverConflicts
  <2>5. QED
    BY <2>2, <2>4 DEF JoinInv, JoinNeverConflicts
<1>6. ASSUME NEW c \in Calls, EditWrites(c) \/ AbandonWrites(c) PROVE JoinInv'
  <2>1. Answer(c, "done") /\ lock = Unlocked /\ lock' = lock
    BY <1>6 DEF EditWrites, AbandonWrites, FlushRow
  <2>2. call'[c].pc = "done" /\ \A d \in Calls \ {c} : call'[d] = call[d]
    BY <1>0, <2>1, AnswerLifecycleType
  <2>3. \A d \in Calls : call'[d].pc \notin {"locked", "seated", "integrity_error"}
    BY <2>1, <2>2, UnlockedAssumption DEF JoinInv, JoinNeverConflicts
  <2>4. QED
    BY <2>1, <2>3 DEF JoinInv, JoinNeverConflicts
<1>7. ASSUME NEW c \in Calls, Dies(c) PROVE JoinInv'
  <2>1. Answer(c, "lost") /\ Release(c) /\ UNCHANGED <<row, participants>>
    BY <1>7 DEF Dies, vars
  <2>2. call'[c].pc = "lost" /\ \A d \in Calls \ {c} : call'[d] = call[d]
    BY <1>0, <2>1, AnswerLifecycleType
  <2>3. lock' # lock => lock = c /\ lock' = Unlocked
    BY <2>1 DEF Release
  <2>4. QED
    BY <1>0, <2>1, <2>2, <2>3, JoinBystanders
<1>8. CASE UNCHANGED lifecycleVars
  BY <1>8 DEF lifecycleVars, coreVars, vars, JoinInv, JoinNeverConflicts, IsMember
<1>9. QED
  BY <1>1, <1>2, <1>3, <1>4, <1>5, <1>6, <1>7, <1>8 DEF LifecycleNext, CoreNext

(* Users who join at the same moment never run into the unique constraints    *)
(* of the participants table: the row lock orders their listings and inserts. *)
THEOREM JoinsNeverConflict == LifecycleSpec => []JoinNeverConflicts
<1>1. JoinInv => JoinNeverConflicts
  BY DEF JoinInv
<1>2. QED
  BY <1>1, LifecycleTypeInit, LifecycleTypeStep, JoinInit, JoinStep, PTL DEF LifecycleSpec

(* Only the insert of a join adds a participant, and it holds the lock.       *)
LEMMA JoinActiveStep ==
  ASSUME LifecycleTypeOK, JoinInv, [LifecycleNext]_lifecycleVars, participants' # participants
  PROVE  row.status = "active"
<1>1. ASSUME TurnNext PROVE participants' = participants
  BY <1>1, TurnKeeps DEF TurnNext, LifecycleTypeOK
<1>2. PICK c \in Calls : JoinInserts(c)
  BY <1>1 DEF LifecycleNext, CoreNext, JoinLocks, EditReads, AbandonReads, JoinLists, EditWrites,
              AbandonWrites, FlushRow, Dies, lifecycleVars, vars
<1>3. lock = c
  BY <1>2 DEF JoinInserts, At, JoinInv
<1>4. QED
  BY <1>3, UnlockedAssumption DEF JoinInv

(* A participant is only ever added to an active playthrough, however turns   *)
(* that end it and abandonments race with the join.                           *)
THEOREM JoinsOnlyActive == LifecycleSpec => JoinOnlyActive
BY LifecycleTypeInit, LifecycleTypeStep, JoinInit, JoinStep, JoinActiveStep, PTL
   DEF LifecycleSpec, JoinOnlyActive

(* The two properties that the run checks, assembled from their parts.        *)
THEOREM JoinsAreSerialized == LifecycleSpec => []JoinsSerialized
BY LifecycleTypeCorrect, JoinsNeverConflict, PTL DEF JoinsSerialized

THEOREM EndingsAreFinal == LifecycleSpec => EndingIsFinal
BY EndedStays, JoinsOnlyActive DEF EndingIsFinal

-----------------------------------------------------------------------------
(* The log of turns under both services.  The narrative inside the row is not *)
(* part of this argument: an edit may write an older one back.                *)

(* A submission that loaded the row loaded a past of its turn count.          *)
CountIsPast(r) == req[r].pc \in Streaming => req[r].loaded.turnCount <= row.turnCount

LogInv ==
  /\ TurnsLogged
  /\ \A r \in Requests : CountIsPast(r) /\ TurnComesFromWrite(r)

(* A step that neither logs nor counts a turn.                                *)
LogQuiet == turnLog' = turnLog /\ row'.turnCount = row.turnCount

LEMMA LogInit == LifecycleInit => LogInv
<1>1. ASSUME Init PROVE TurnsLogged /\ \A r \in Requests : CountIsPast(r) /\ TurnComesFromWrite(r)
  <2>1. turnLog = {} /\ row.turnCount = 0 /\ \A r \in Requests : req[r].pc = "idle"
    BY <1>1 DEF Init, Idle
  <2>2. TurnsLogged
    BY <2>1 DEF TurnsLogged, LogDense, OneTurnPerRequest
  <2>3. QED
    BY <2>1, <2>2 DEF CountIsPast, TurnComesFromWrite, HasTurn, Streaming
<1>2. QED
  BY <1>1 DEF LifecycleInit, LogInv

(* Where a submission can go without writing its turn: it settles, it waits   *)
(* to load, it loads, or it goes on with what it loaded.                      *)
GoesOn(r) ==
  \/ req'[r].pc \in Settled
  \/ /\ req[r].pc \in {"idle", "received"}
     /\ req'[r].pc \in {"received", "admitted"}
  \/ /\ req[r].pc = "admitted"
     /\ req'[r].pc = "loaded"
     /\ req'[r].loaded.turnCount = row.turnCount
  \/ /\ req[r].pc \in Streaming
     /\ req'[r].pc \in Streaming \ {"loaded"}
     /\ req'[r].loaded = req[r].loaded
     /\ req'[r].pc = "narrating" => req[r].pc = "loaded"
     /\ req'[r].pc = "writing" => req[r].pc \in {"narrating", "writing"}

(* A step of the pipeline writes the turn of a submission that is writing, or *)
(* is quiet; either way the submission goes on.                               *)
LEMMA TurnMoves ==
  ASSUME TypeOK, NEW r \in Requests, Submit(r) \/ Progress(r) \/ Disconnect(r)
  PROVE  /\ GoesOn(r)
         /\ \/ LogQuiet
            \/ req[r].pc = "writing" /\ Persist(r)
<1>1. CASE Settling(r) \/ Arriving(r) \/ Admitting(r) \/ Loading(r) \/ Entering(r)
  BY <1>1 DEF Settling, Arriving, Admitting, Loading, Entering, RowStays, Keeps, GoesOn, LogQuiet,
              Streaming
<1>2. CASE Narrating(r) \/ Retrying(r) \/ Ending(r) \/ Flushing(r)
  BY <1>2 DEF Narrating, Retrying, Ending, Flushing, RowStays, Keeps, GoesOn, LogQuiet, Streaming
<1>3. CASE Committing(r)
  BY <1>3 DEF Committing, Keeps, GoesOn, Streaming, Settled
<1>4. QED
  BY <1>1, <1>2, <1>3, Kinds

(* A quiet step keeps the log, whatever submission goes on.                   *)
LEMMA QuietLog ==
  ASSUME TypeOK, LogInv, LogQuiet, \A r \in Requests : req'[r] = req[r] \/ GoesOn(r)
  PROVE  LogInv'
<1>1. TurnsLogged'
  BY DEF LogInv, TurnsLogged, LogDense, OneTurnPerRequest, LogQuiet
<1>2. row.turnCount \in Nat
  BY DEF TypeOK
<1>3. ASSUME NEW r \in Requests PROVE CountIsPast(r)' /\ TurnComesFromWrite(r)'
  <2>1. /\ HasTurn(r)' <=> HasTurn(r)
        /\ CountIsPast(r) /\ TurnComesFromWrite(r)
    BY DEF HasTurn, LogQuiet, LogInv
  <2>2. CASE req'[r] = req[r]
    BY <2>1, <2>2 DEF CountIsPast, TurnComesFromWrite, LogQuiet
  <2>3. CASE GoesOn(r)
    <3>1. CountIsPast(r)'
      BY <1>2, <2>1, <2>3 DEF GoesOn, CountIsPast, LogQuiet, Settled, Streaming
    <3>2. TurnComesFromWrite(r)'
      BY <2>1, <2>3 DEF GoesOn, TurnComesFromWrite, LogQuiet, Settled, Streaming
    <3>3. QED
      BY <3>1, <3>2
  <2>4. QED
    BY <2>2, <2>3
<1>4. QED
  BY <1>1, <1>3 DEF LogInv

(* A write whose lock holds adds the next number and makes every other        *)
(* snapshot stale.                                                            *)
LEMMA PersistLog ==
  ASSUME TypeOK, LogInv, NEW r \in Requests, req[r].pc = "writing", Persist(r), GoesOn(r),
         \A s \in Requests \ {r} : req'[s] = req[s]
  PROVE  LogInv'
<1> DEFINE n == row.turnCount
           new == [number |-> n + 1, req |-> r, who |-> req[r].who]
<1>1. n \in Nat /\ req[r].loaded.turnCount = n
  BY DEF Persist, LockHolds, TypeOK
<1>2. row'.turnCount = n + 1 /\ turnLog' = turnLog \cup {new}
  BY <1>1 DEF Persist, TypeOK
<1>3. ~HasTurn(r)
  BY <1>1 DEF LogInv, TurnComesFromWrite
<1>4. \A e \in turnLog : e.number \in 1..n /\ e.req # r
  BY <1>3 DEF HasTurn, LogInv, TurnsLogged, LogDense
<1>5. new.number = n + 1 /\ new.req = r
  OBVIOUS
<1> HIDE DEF new
<1>6. LogDense'
  <2>1. {e.number : e \in turnLog'} = {e.number : e \in turnLog} \cup {n + 1}
    BY <1>2, <1>5
  <2>2. {e.number : e \in turnLog} = 1..n
    BY DEF LogInv, TurnsLogged, LogDense
  <2>3. {e.number : e \in turnLog'} = 1..(n + 1)
    BY <1>1, <2>1, <2>2
  <2>4. \A e, f \in turnLog' : e.number = f.number => e = f
    BY <1>1, <1>2, <1>4, <1>5 DEF LogInv, TurnsLogged, LogDense
  <2>5. QED
    BY <1>2, <2>3, <2>4 DEF LogDense
<1>7. OneTurnPerRequest'
  BY <1>2, <1>4, <1>5 DEF LogInv, TurnsLogged, OneTurnPerRequest
<1>8. ASSUME NEW s \in Requests PROVE CountIsPast(s)' /\ TurnComesFromWrite(s)'
  <2>1. CountIsPast(s) /\ TurnComesFromWrite(s)
    BY DEF LogInv
  <2>2. req[s].loaded.turnCount \in Nat
    BY DEF TypeOK, Submissions
  <2>3. CASE s = r
    <3>1. /\ req'[r].pc \in Settled \/ req'[r].loaded = req[r].loaded
          /\ req'[r].pc \in Settled \cup (Streaming \ {"loaded", "narrating"})
      BY DEF GoesOn, Streaming
    <3>2. CountIsPast(r)'
      BY <1>1, <1>2, <3>1 DEF CountIsPast, Settled, Streaming
    <3>3. TurnComesFromWrite(r)'
      BY <1>1, <1>2, <3>1 DEF TurnComesFromWrite, Settled, Streaming
    <3>4. QED
      BY <2>3, <3>2, <3>3
  <2>4. CASE s # r
    <3>1. req'[s] = req[s] /\ (HasTurn(s)' <=> HasTurn(s))
      BY <1>2, <1>5, <2>4 DEF HasTurn
    <3>2. CountIsPast(s)'
      BY <1>1, <1>2, <2>1, <2>2, <3>1 DEF CountIsPast
    <3>3. TurnComesFromWrite(s)'
      BY <1>1, <1>2, <2>1, <2>2, <3>1 DEF TurnComesFromWrite
    <3>4. QED
      BY <3>2, <3>3
  <2>5. QED
    BY <2>3, <2>4
<1>9. QED
  BY <1>6, <1>7, <1>8 DEF LogInv, TurnsLogged

(* A call of core-api neither logs nor counts a turn: an edit writes back the *)
(* state it read, but not the count.                                          *)
LEMMA CoreLogQuiet ==
  ASSUME LifecycleTypeOK, CoreNext
  PROVE  LogQuiet /\ req' = req
<1>1. row \in RowRecords /\ call \in [Calls -> CallRecords]
  BY LifecycleTypeParts, RowIsRecord
<1>2. ASSUME NEW seen \in RowRecords, NEW new, new.turnCount = seen.turnCount, FlushRow(seen, new)
      PROVE  LogQuiet /\ req' = req
  BY <1>1, <1>2 DEF FlushRow, LogQuiet, RowRecords
<1>3. PICK c \in Calls :
         \/ \E p \in Participants : JoinLocks(c, p) \/ EditReads(c, p) \/ AbandonReads(c, p)
         \/ JoinLists(c) \/ JoinInserts(c) \/ EditWrites(c) \/ AbandonWrites(c) \/ Dies(c)
  BY DEF CoreNext
<1>4. call[c].seen \in RowRecords
  BY <1>1 DEF CallRecords
<1>5. CASE EditWrites(c)
  <2>1. [call[c].seen EXCEPT !.state.setup = @ \cup {call[c].who}].turnCount = call[c].seen.turnCount
    BY <1>4 DEF RowRecords
  <2>2. QED
    BY <1>2, <1>4, <1>5, <2>1 DEF EditWrites
<1>6. CASE AbandonWrites(c)
  <2>1. [call[c].seen EXCEPT !.status = "abandoned"].turnCount = call[c].seen.turnCount
    BY <1>4 DEF RowRecords
  <2>2. QED
    BY <1>2, <1>4, <1>6, <2>1 DEF AbandonWrites
<1>7. CASE ~EditWrites(c) /\ ~AbandonWrites(c)
  BY <1>3, <1>7 DEF JoinLocks, EditReads, AbandonReads, JoinLists, JoinInserts, Dies, vars, LogQuiet
<1>8. QED
  BY <1>5, <1>6, <1>7

LEMMA LogStep ==
  ASSUME LifecycleTypeOK, LogInv, [LifecycleNext]_lifecycleVars
  PROVE  LogInv'
<1>1. TypeOK
  BY DEF LifecycleTypeOK
<1>2. CASE TurnNext
  <2>1. PICK r \in Requests : Submit(r) \/ Progress(r) \/ Disconnect(r)
    BY <1>2 DEF TurnNext, Next
  <2>2. /\ GoesOn(r)
        /\ LogQuiet \/ (req[r].pc = "writing" /\ Persist(r))
    BY <1>1, <2>1, TurnMoves
  <2>3. \A s \in Requests \ {r} : req'[s] = req[s]
    BY <1>1, <2>1, OneMoves
  <2>4. QED
    BY <1>1, <2>2, <2>3, QuietLog, PersistLog
<1>3. CASE CoreNext
  BY <1>1, <1>3, CoreLogQuiet, QuietLog
<1>4. CASE UNCHANGED lifecycleVars
  <2>1. LogQuiet /\ req' = req
    BY <1>4 DEF lifecycleVars, vars, LogQuiet
  <2>2. QED
    BY <1>1, <2>1, QuietLog
<1>5. QED
  BY <1>2, <1>3, <1>4 DEF LifecycleNext

(* Whatever users join, edit or abandon meanwhile, the durable log numbers    *)
(* the turns without gap or repetition and no submission becomes two of them. *)
THEOREM TurnsStayLogged == LifecycleSpec => []TurnsLogged
<1>1. LifecycleInit => LogInv
  BY LogInit
<1>2. LogInv => TurnsLogged
  BY DEF LogInv
<1>3. QED
  BY <1>1, <1>2, LifecycleTypeInit, LifecycleTypeStep, LogStep, PTL DEF LifecycleSpec
=============================================================================
