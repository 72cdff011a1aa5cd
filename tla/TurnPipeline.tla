---------------------------- MODULE TurnPipeline ----------------------------
(***************************************************************************)
(* The turn pipeline of the turn-resolution service on one playthrough:    *)
(* app/turn/pipeline.py, the steps it calls that read or write shared      *)
(* state, and the repositories under them.  Every POST /v1/turn is a       *)
(* process; the awaits of the coroutine are its steps.  The playthrough    *)
(* row, its turn_logs rows, the participants and the scenario's play_count *)
(* are the shared database; each step that runs SQL sees the latest        *)
(* committed rows (READ COMMITTED) and a write commits as one step.        *)
(*                                                                         *)
(* What the narrator writes is abstracted to what the pipeline branches    *)
(* on: whether an end condition holds in the new state (won) and whether a *)
(* minigame's trigger does.  A turn's text is the identity of its request. *)
(***************************************************************************)
EXTENDS Integers, Sequences, FiniteSets

CONSTANTS
  Requests,            \* turn submissions, one process each
  Participants,        \* users that may be or become participants
  MasterMode,          \* scenario_snapshot.mode = "master"
  IsPlaytest,          \* playthroughs.is_playtest
  WriteAttempts,       \* settings.state_write_max_retries + 1
  PlayCountThreshold,  \* settings.play_count_increment_turn_threshold
  MemoryInterval       \* settings.memory_batch_turn_interval

ASSUME ParticipantsAssumption == IsFiniteSet(Participants) /\ Participants # {}
ASSUME FlagsAssumption == {MasterMode, IsPlaytest} \subseteq BOOLEAN
ASSUME SettingsAssumption ==
  {WriteAttempts, PlayCountThreshold, MemoryInterval} \subseteq Nat \ {0}

VARIABLES
  row,           \* the playthroughs row
  turnLog,       \* the turn_logs rows of the playthrough
  participants,  \* its participants in turn_order_position order
  playCount,     \* scenarios.play_count, as moved by this playthrough
  issued,        \* minigame attempt ids handed out so far (uuid4, in order)
  req,           \* the submissions: program counter and local variables
  delivered,     \* turns the memory layer has received
  notices        \* your_turn notifications pushed

vars == <<row, turnLog, participants, playCount, issued, req, delivered, notices>>

NoMinigame == 0
NoOutcome == 0

(* playthroughs.state, reduced: the narrative, the pending minigame attempt,  *)
(* the attempts whose result was applied, whether an end condition holds, and *)
(* the participants whose character edits (core-api) its setup holds.         *)
EmptyState == [narr |-> <<>>, pending |-> NoMinigame, outcomes |-> <<>>, won |-> FALSE,
               setup |-> {}]

AnyParticipant == CHOOSE p \in Participants : TRUE

Idle == [pc |-> "idle", who |-> AnyParticipant, attempt |-> NoMinigame,
         seen |-> [turnCount |-> 0, pending |-> NoMinigame], members |-> <<>>,
         loaded |-> [turnCount |-> 0, state |-> EmptyState], work |-> EmptyState,
         tries |-> 0]

Streaming == {"loaded", "narrating", "writing", "written", "ended", "flushed"}
InFlight == {"received", "admitted"} \cup Streaming
Settled == {"done", "rejected", "degraded", "failed", "gone"}

Init ==
  /\ row = [status |-> "active", turnCount |-> 0, state |-> EmptyState, outcome |-> NoOutcome]
  /\ turnLog = {}
  /\ participants \in UNION {[1..n -> Participants] : n \in 1..Cardinality(Participants)}
  /\ \A i, j \in DOMAIN participants : participants[i] = participants[j] => i = j
  /\ playCount = 0
  /\ issued = 0
  /\ req = [r \in Requests |-> Idle]
  /\ delivered = {}
  /\ notices = {}

Goto(r, pc) == req' = [req EXCEPT ![r].pc = pc]

(* the coroutine is over; its local variables are gone *)
Finish(r, outcome) == req' = [req EXCEPT ![r] = [Idle EXCEPT !.pc = outcome]]

(* turn_order.expected_participant *)
Expected(members, turnCount) == members[(turnCount % Len(members)) + 1]

-----------------------------------------------------------------------------
(* request_receiver: the row is read, then the participants. *)

IsActive_Unchecked == TRUE

(* _validate_playthrough_active *)
IsActive == row.status = "active"

Receive(r, p, attempt) ==
  /\ req[r].pc = "idle"
  /\ IF IsActive
     THEN req' = [req EXCEPT ![r] =
            [@ EXCEPT !.pc = "received", !.who = p, !.attempt = attempt,
                      !.seen = [turnCount |-> row.turnCount, pending |-> row.state.pending]]]
     ELSE Finish(r, "rejected")
  /\ UNCHANGED <<row, turnLog, participants, playCount, issued, delivered, notices>>

PassesGating_AnyAttempt(q) ==
  IF q.attempt = NoMinigame THEN q.seen.pending = NoMinigame
                            ELSE q.seen.pending # NoMinigame

(* a narrative action needs no pending minigame, a result needs its attempt *)
PassesGating(q) ==
  IF q.attempt = NoMinigame THEN q.seen.pending = NoMinigame
                            ELSE q.seen.pending = q.attempt

Admissible_NoOrder(q) ==
  /\ \E i \in DOMAIN participants : participants[i] = q.who
  /\ PassesGating(q)

Admissible(q) ==
  /\ \E i \in DOMAIN participants : participants[i] = q.who
  /\ PassesGating(q)
  /\ Len(participants) > 1 => q.who = Expected(participants, q.seen.turnCount)

Validate(r) ==
  /\ req[r].pc = "received"
  /\ IF Admissible(req[r]) THEN Goto(r, "admitted") ELSE Finish(r, "rejected")
  /\ UNCHANGED <<row, turnLog, participants, playCount, issued, delivered, notices>>

(* state_loader: a second read of the row; status, order and the pending     *)
(* minigame are not looked at again.                                         *)
Load(r) ==
  /\ req[r].pc = "admitted"
  /\ req' = [req EXCEPT ![r] =
       [@ EXCEPT !.pc = "loaded",
                 !.loaded = [turnCount |-> row.turnCount, state |-> row.state]]]
  /\ UNCHANGED <<row, turnLog, participants, playCount, issued, delivered, notices>>

(* minigame_result_resolver pops whatever is pending and applies the outcome *)
Resolved(q) ==
  IF MasterMode /\ q.attempt # NoMinigame
  THEN [q.loaded.state EXCEPT !.pending = NoMinigame, !.outcomes = Append(@, q.attempt)]
  ELSE q.loaded.state

(* _run_turn_events up to the narrator: participants, then the intake *)
Intake(r) ==
  /\ req[r].pc = "loaded"
  /\ req' = [req EXCEPT ![r] =
       [@ EXCEPT !.pc = "narrating", !.members = participants, !.work = Resolved(req[r])]]
  /\ UNCHANGED <<row, turnLog, participants, playCount, issued, delivered, notices>>

-----------------------------------------------------------------------------
(* The narrator, the tool calls it makes, and minigame_trigger_evaluator. *)

MayTrigger(q) == MasterMode /\ Len(q.members) <= 1 /\ q.work.pending = NoMinigame

Narrate(r, won) ==
  /\ req[r].pc = "narrating"
  /\ won => MasterMode
  /\ req' = [req EXCEPT ![r] =
       [@ EXCEPT !.pc = "writing", !.work.won = won]]
  /\ UNCHANGED <<row, turnLog, participants, playCount, issued, delivered, notices>>

NarrateAndTrigger(r, won) ==
  /\ req[r].pc = "narrating"
  /\ MayTrigger(req[r])
  /\ issued' = issued + 1
  /\ req' = [req EXCEPT ![r] =
       [@ EXCEPT !.pc = "writing", !.work.won = won, !.work.pending = issued + 1]]
  /\ UNCHANGED <<row, turnLog, participants, playCount, delivered, notices>>

(* NarrationGenerationError: retries exhausted, nothing is written *)
NarrationFails(r) ==
  /\ req[r].pc = "narrating"
  /\ Finish(r, "failed")
  /\ UNCHANGED <<row, turnLog, participants, playCount, issued, delivered, notices>>

-----------------------------------------------------------------------------
(* state_writer: up to WriteAttempts runs of one transaction. *)

(* WHERE turn_count = expected_turn_count *)
LockHolds(q) == row.turnCount = q.loaded.turnCount

(* unique (playthrough_id, turn_number) *)
NumberIsFree(n) == \A e \in turnLog : e.number # n

NewState(r) == [req[r].work EXCEPT !.narr = Append(@, r)]

CountsAsPlay(n) == n = PlayCountThreshold /\ ~IsPlaytest

(* the effect of _write_once when its commit is applied *)
Persist(r) ==
  LET n == req[r].loaded.turnCount + 1 IN
  /\ LockHolds(req[r])
  /\ NumberIsFree(n)
  /\ row' = [row EXCEPT !.turnCount = n, !.state = NewState(r)]
  /\ turnLog' = turnLog \cup {[number |-> n, req |-> r, who |-> req[r].who]}
  /\ playCount' = IF CountsAsPlay(n) THEN playCount + 1 ELSE playCount

(* _handle_write_error: the next attempt, or StateWriteError on the last one *)
Retry(r) ==
  IF req[r].tries + 1 < WriteAttempts
  THEN req' = [req EXCEPT ![r].tries = @ + 1]
  ELSE Finish(r, "degraded")

WriteCommits(r) ==
  /\ req[r].pc = "writing"
  /\ Persist(r)
  /\ Goto(r, "written")
  /\ UNCHANGED <<participants, issued, delivered, notices>>

(* the commit is applied, but the connection is lost before its reply *)
WriteCommitsReplyLost(r) ==
  /\ req[r].pc = "writing"
  /\ Persist(r)
  /\ Retry(r)
  /\ UNCHANGED <<participants, issued, delivered, notices>>

WriteFails(r) ==
  /\ req[r].pc = "writing"
  /\ Retry(r)
  /\ UNCHANGED <<row, turnLog, participants, playCount, issued, delivered, notices>>

WriteConflicts_Reload(r) ==
  /\ req[r].pc = "writing"
  /\ ~LockHolds(req[r])
  /\ req' = [req EXCEPT ![r].loaded = [turnCount |-> row.turnCount, state |-> row.state],
                        ![r].work = row.state]
  /\ UNCHANGED <<row, turnLog, participants, playCount, issued, delivered, notices>>

(* OptimisticLockError: no retry *)
WriteConflicts(r) ==
  /\ req[r].pc = "writing"
  /\ ~LockHolds(req[r])
  /\ Finish(r, "degraded")
  /\ UNCHANGED <<row, turnLog, participants, playCount, issued, delivered, notices>>

-----------------------------------------------------------------------------
(* After the write: the ending, the memory batch, the notification, done. *)

TurnOf(r) == req[r].loaded.turnCount + 1

(* end_condition_evaluator on the state just written *)
Ends(r) == MasterMode /\ req[r].work.won /\ req[r].work.pending = NoMinigame

(* playthrough_repo.mark_ended: no condition on the status *)
MarkEnded(r) ==
  /\ req[r].pc = "written"
  /\ Ends(r)
  /\ row' = [row EXCEPT !.status = "completed", !.outcome = TurnOf(r)]
  /\ Goto(r, "ended")
  /\ UNCHANGED <<turnLog, participants, playCount, issued, delivered, notices>>

(* an error of mark_ended is not caught: the stream breaks without done *)
MarkEndedFails(r) ==
  /\ req[r].pc = "written"
  /\ Ends(r)
  /\ Finish(r, "failed")
  /\ UNCHANGED <<row, turnLog, participants, playCount, issued, delivered, notices>>

(* memory_writer: the last MemoryInterval entries of the state just written, *)
(* numbered back from this turn's number                                     *)
Batch(r) ==
  LET narr == NewState(r).narr
      firstSent == IF Len(narr) > MemoryInterval THEN Len(narr) - MemoryInterval + 1 ELSE 1
  IN  {[number |-> TurnOf(r) - Len(narr) + i, req |-> narr[i]] : i \in firstSent..Len(narr)}

FlushMemory_OnlyAtInterval(r) ==
  /\ req[r].pc = IF Ends(r) THEN "ended" ELSE "written"
  /\ TurnOf(r) % MemoryInterval = 0
  /\ delivered' \in {delivered, delivered \cup Batch(r)}
  /\ Goto(r, "flushed")
  /\ UNCHANGED <<row, turnLog, participants, playCount, issued, notices>>

FlushMemory(r) ==
  /\ req[r].pc = IF Ends(r) THEN "ended" ELSE "written"
  /\ \/ /\ TurnOf(r) % MemoryInterval = 0
        /\ delivered' = delivered \cup Batch(r)
     \/ delivered' = delivered      \* not the interval, or ingest_batch failed
  /\ Goto(r, "flushed")
  /\ UNCHANGED <<row, turnLog, participants, playCount, issued, notices>>

(* notify_next_turn to the participants listed before narration, then done *)
Announce(r) ==
  /\ req[r].pc = "flushed"
  /\ notices' = IF Len(req[r].members) > 1
                THEN notices \cup {[turn |-> TurnOf(r), to |-> Expected(req[r].members, TurnOf(r))]}
                ELSE notices
  /\ Finish(r, "done")
  /\ UNCHANGED <<row, turnLog, participants, playCount, issued, delivered>>

(* The client leaves (sse-starlette cancels the generator) or the process    *)
(* dies: the coroutine never runs again, what it committed stays.            *)
Disconnect(r) ==
  /\ req[r].pc \in InFlight
  /\ Finish(r, "gone")
  /\ UNCHANGED <<row, turnLog, participants, playCount, issued, delivered, notices>>

-----------------------------------------------------------------------------
Write(r) == \/ WriteCommits(r)
            \/ WriteCommitsReplyLost(r)
            \/ WriteFails(r)
            \/ WriteConflicts(r)

Progress(r) ==
  \/ Validate(r)
  \/ Load(r)
  \/ Intake(r)
  \/ \E won \in BOOLEAN : Narrate(r, won) \/ NarrateAndTrigger(r, won)
  \/ NarrationFails(r)
  \/ Write(r)
  \/ MarkEnded(r)
  \/ MarkEndedFails(r)
  \/ FlushMemory(r)
  \/ Announce(r)

Submit(r) == \E p \in Participants, attempt \in 0..issued : Receive(r, p, attempt)

Next == \E r \in Requests : Submit(r) \/ Progress(r) \/ Disconnect(r)

Spec == Init /\ [][Next]_vars

(* Every await of the pipeline returns or times out: an open submission      *)
(* keeps running.  Nothing obliges a client to submit or to leave.           *)
Fairness == \A r \in Requests : WF_vars(Progress(r))

-----------------------------------------------------------------------------
(* Types. *)

GameStates == [narr : Seq(Requests), pending : Nat, outcomes : Seq(Nat), won : BOOLEAN,
               setup : SUBSET Participants]
TurnEntries == [number : Nat \ {0}, req : Requests, who : Participants]
Submissions ==
  [pc : {"idle"} \cup InFlight \cup Settled, who : Participants, attempt : Nat,
   seen : [turnCount : Nat, pending : Nat], members : Seq(Participants),
   loaded : [turnCount : Nat, state : GameStates], work : GameStates,
   tries : 0..WriteAttempts - 1]

(* Every variable keeps its type; a write never starts attempt WriteAttempts  *)
(* + 1 (state_writer's range(max_attempts)).                                  *)
TypeOK ==
  /\ row \in [status : {"active", "completed", "abandoned"}, turnCount : Nat,
              state : GameStates, outcome : Nat]
  /\ turnLog \subseteq TurnEntries
  /\ participants \in Seq(Participants) \ {<<>>}
  /\ playCount \in Nat
  /\ issued \in Nat
  /\ req \in [Requests -> Submissions]
  /\ delivered \subseteq [number : Int, req : Requests]
  /\ notices \subseteq [turn : Nat, to : Participants]

-----------------------------------------------------------------------------
(* Safety. *)

(* turn_logs, the durable source of truth, numbers the turns 1..turn_count    *)
(* with no gap and no repetition, whatever submissions race or are retried.   *)
LogDense ==
  /\ {e.number : e \in turnLog} = 1..row.turnCount
  /\ \A e, f \in turnLog : e.number = f.number => e = f

(* The narrative inside playthroughs.state, which the next prompt and the     *)
(* memory batches are built from, tells the same story as turn_logs.          *)
NarrativeMatchesLog ==
  /\ Len(row.state.narr) = row.turnCount
  /\ \A e \in turnLog : row.state.narr[e.number] = e.req

(* A submission becomes at most one turn, even when a commit succeeded, its   *)
(* reply was lost, and _persist_with_retry ran the transaction again.         *)
OneTurnPerRequest == \A e, f \in turnLog : e.req = f.req => e = f

(* A client never sees "done" for a turn that was not persisted.              *)
DoneIsDurable == \A r \in Requests : req[r].pc = "done" => \E e \in turnLog : e.req = r

(* play_count moves once, when the PlayCountThreshold-th turn is written, and *)
(* never for a playtest.                                                      *)
PlayCountedOnce ==
  playCount = IF ~IsPlaytest /\ row.turnCount >= PlayCountThreshold THEN 1 ELSE 0

(* What the memory layer was sent under a turn number is what turn_logs has   *)
(* under it: memory_writer's numbering back from new_turn_count is right.     *)
MemoryMatchesLog ==
  \A m \in delivered : \E e \in turnLog : e.number = m.number /\ e.req = m.req

(* A submission answered with "degraded" (your turn couldn't be saved, submit *)
(* again) has not been saved.                                                 *)
DegradedIsUnsaved ==
  \A r \in Requests : req[r].pc = "degraded" => \A e \in turnLog : e.req # r

(* The row is read twice, by the validation and by the load, and a turn may be *)
(* written in between: then the submission is overtaken.  A participant may    *)
(* have two submissions open, and the second result of an attempt is overtaken *)
(* by the first.                                                               *)
Overtaken(q) == q.seen.turnCount < q.loaded.turnCount

(* Turn discipline at each new turn, whatever races with it: its author was    *)
(* the one to play when the submission was validated.  And unless it was       *)
(* overtaken, it is what the row written over asked for: a narrative action    *)
(* where no minigame was pending, or the pending attempt's first result, which *)
(* is the one it applies.                                                      *)
TurnsTaken ==
  [][\A e \in turnLog' \ turnLog :
       LET q == req[e.req] IN
       /\ Len(participants) > 1 => e.who = Expected(participants, q.seen.turnCount)
       /\ ~Overtaken(q) =>
            /\ q.seen.turnCount = e.number - 1
            /\ q.attempt = row.state.pending
            /\ \A i \in DOMAIN row.state.outcomes : row.state.outcomes[i] # q.attempt
            /\ q.attempt # NoMinigame =>
                 row'.state.outcomes = Append(row.state.outcomes, q.attempt)]_vars

(* A pending minigame never leaves the state with a narrative action, however *)
(* late that is written: only a result takes it away, and a result of another *)
(* attempt only when it was overtaken.                                        *)
PendingLeavesByResult ==
  [][LET before == row.state.pending IN
     before # NoMinigame /\ row'.state.pending # before =>
       \E e \in turnLog' \ turnLog :
         LET q == req[e.req] IN
         /\ q.attempt # NoMinigame
         /\ row'.state.outcomes = Append(row.state.outcomes, q.attempt)
         /\ q.attempt # before => Overtaken(q)]_vars

Open == {r \in Requests : req[r].pc \in InFlight}

(* An ending closes the playthrough to whatever was not open when it was       *)
(* persisted: the submissions that were may still add turns or an outcome of   *)
(* their own (mark_ended looks at nothing), and no other ever joins them.      *)
EndingCloses ==
  [][row.status = "completed" =>
       /\ row'.status = "completed"
       /\ Open' \subseteq Open
       /\ \A e \in turnLog' \ turnLog : e.req \in Open
       /\ row' # row => Open # {}]_vars

(* An outcome is that of a turn in the log, and, unless a further turn was     *)
(* written between that turn and mark_ended, it fits the row: an end condition *)
(* holds in its state and no minigame is left that could not be played.        *)
OutcomeFits ==
  [][row'.outcome # row.outcome =>
       /\ \E e \in turnLog : e.number = row'.outcome
       /\ row'.outcome = row.turnCount => row.state.won /\ row.state.pending = NoMinigame]_vars

(* What a player has won or lost stands, up to the races named above.          *)
OutcomesStand == PendingLeavesByResult /\ EndingCloses /\ OutcomeFits

(* The pipeline implements the append-only log of PlaythroughLog: the story   *)
(* only grows, one turn per submission, and "done" only follows the commit.   *)
Log == INSTANCE PlaythroughLog WITH
         log <- row.state.narr,
         acked <- {r \in Requests : req[r].pc = "done"}
ImplementsLog == Log!Spec

-----------------------------------------------------------------------------
(* The inductive strengthening of the safety invariants above that hold      *)
(* without any assumption on the clients.                                    *)

HasTurn(r) == \E e \in turnLog : e.req = r

(* What a coroutine loaded is a past of the row, or its present.              *)
SnapshotIsPast(r) ==
  req[r].pc \in Streaming =>
    /\ Len(req[r].loaded.state.narr) = req[r].loaded.turnCount
    /\ req[r].loaded.turnCount <= row.turnCount
    /\ req[r].loaded.turnCount = row.turnCount => req[r].loaded.state.narr = row.state.narr

(* Intake and narration leave the narrative alone.                            *)
WorkKeepsNarrative(r) ==
  req[r].pc \in Streaming \ {"loaded"} => req[r].work.narr = req[r].loaded.state.narr

(* A submission has no turn before its write; once it has one, its lock is    *)
(* stale and a further attempt conflicts.                                     *)
TurnComesFromWrite(r) ==
  HasTurn(r) => /\ req[r].pc \notin {"idle", "received", "admitted", "loaded", "narrating"}
                /\ req[r].pc = "writing" => req[r].loaded.turnCount < row.turnCount

(* After a successful write the turn is in the log.                           *)
WrittenHasTurn(r) == req[r].pc \in {"written", "ended", "flushed", "done"} => HasTurn(r)

(* What memory_writer is about to send is in the log under the same numbers.  *)
BatchIsLogged(r) ==
  req[r].pc \in {"written", "ended"} =>
    \A i \in 1..TurnOf(r) : \E e \in turnLog : e.number = i /\ e.req = NewState(r).narr[i]

(* The database and every running coroutine agree on the story so far.        *)
ConsistentStory ==
  /\ TypeOK
  /\ LogDense
  /\ NarrativeMatchesLog
  /\ OneTurnPerRequest
  /\ PlayCountedOnce
  /\ MemoryMatchesLog
  /\ \A r \in Requests : /\ SnapshotIsPast(r)
                         /\ WorkKeepsNarrative(r)
                         /\ TurnComesFromWrite(r)
                         /\ WrittenHasTurn(r)
                         /\ BatchIsLogged(r)

-----------------------------------------------------------------------------
(* Liveness. *)

(* Every submission the service took is answered, refused or abandoned by its *)
(* client; no interleaving of retries and conflicts leaves it hanging.        *)
RequestSettles ==
  \A r \in Requests : req[r].pc = "received" ~> req[r].pc \in Settled
=============================================================================
