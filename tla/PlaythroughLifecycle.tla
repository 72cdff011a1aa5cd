------------------------ MODULE PlaythroughLifecycle ------------------------
(***************************************************************************)
(* One playthrough under both of its writers: the turn pipeline of the     *)
(* turn-resolution service (TurnPipeline) and core-api's playthrough       *)
(* service, which lets users join it, edit its character and abandon it.   *)
(* The two services share the database and nothing else.                   *)
(*                                                                         *)
(* A core-api call is a process of its own.  Its transaction commits at    *)
(* the end of the request, so its UPDATE and its commit are one step; a    *)
(* FOR UPDATE lock is held until then and blocks every UPDATE of the row.  *)
(***************************************************************************)
EXTENDS TurnPipeline

CONSTANTS
  Calls,         \* core-api calls on the playthrough, one process each
  Operations,    \* what they may be: a subset of {"join", "edit", "abandon"}
  SoloScenario,  \* scenario.player_count_support = "solo"
  Unlocked       \* nobody holds the row's FOR UPDATE lock

ASSUME OperationsAssumption == Operations \subseteq {"join", "edit", "abandon"}
ASSUME SoloAssumption == SoloScenario \in BOOLEAN
ASSUME UnlockedAssumption == Unlocked \notin Calls

VARIABLES
  call,  \* the core-api calls: program counter and local variables
  lock   \* the call that holds the row's FOR UPDATE lock

coreVars == <<call, lock>>
lifecycleVars == <<vars, coreVars>>

NewRow == [status |-> "active", turnCount |-> 0, state |-> EmptyState, outcome |-> NoOutcome]
NewCall == [op |-> "none", pc |-> "idle", who |-> AnyParticipant, seen |-> NewRow, seat |-> 0]

CoreInit == call = [c \in Calls |-> NewCall] /\ lock = Unlocked

IsMember(p) == \E i \in DOMAIN participants : participants[i] = p

(* the participants row with role = "owner", created with the playthrough *)
Owner == participants[1]

(* the call is answered and forgets what it read *)
Answer(c, outcome) ==
  call' = [call EXCEPT ![c] = [@ EXCEPT !.pc = outcome, !.seen = NewRow, !.seat = 0]]

(* A call of p starts: it reads the row and goes on if what it checks holds.  *)
Begin(c, op, p, ok, next) ==
  /\ op \in Operations
  /\ call[c].pc = "idle"
  /\ call' = [call EXCEPT ![c] =
       IF ok THEN [NewCall EXCEPT !.op = op, !.pc = next, !.who = p, !.seen = row]
             ELSE [NewCall EXCEPT !.op = op, !.pc = "rejected", !.who = p]]

At(c, op, pc) == call[c].op = op /\ call[c].pc = pc

(* An ORM flush: UPDATE the columns that the call changed since its read; the *)
(* JSONB state is one column.                                                 *)
FlushRow(seen, new) ==
  /\ lock = Unlocked
  /\ row' = [f \in DOMAIN row |-> IF new[f] # seen[f] THEN new[f] ELSE row[f]]
  /\ UNCHANGED <<turnLog, participants, playCount, issued, req, delivered, notices, lock>>

-----------------------------------------------------------------------------
(* POST /playthroughs/join: join_playthrough *)

Joinable == row.status = "active" /\ ~SoloScenario

JoinLocks_Unlocked(c, p) ==
  /\ Begin(c, "join", p, Joinable, "locked")
  /\ UNCHANGED <<vars, lock>>

(* get_by_id_for_update waits for the lock and reads the row as it is then *)
JoinLocks(c, p) ==
  /\ lock = Unlocked
  /\ Begin(c, "join", p, Joinable, "locked")
  /\ lock' = IF Joinable THEN c ELSE Unlocked
  /\ UNCHANGED vars

Release(c) == lock' = IF lock = c THEN Unlocked ELSE lock

(* _join_as_participant up to the insert: a no-op for a participant *)
JoinLists(c) ==
  /\ At(c, "join", "locked")
  /\ IF IsMember(call[c].who)
     THEN Answer(c, "done") /\ Release(c)
     ELSE /\ call' = [call EXCEPT ![c].pc = "seated", ![c].seat = Len(participants) + 1]
          /\ UNCHANGED lock
  /\ UNCHANGED vars

(* The insert and the commit.  The table's unique constraints refuse a seat   *)
(* or a user that is already there.                                           *)
JoinInserts(c) ==
  /\ At(c, "join", "seated")
  /\ IF call[c].seat = Len(participants) + 1 /\ ~IsMember(call[c].who)
     THEN participants' = Append(participants, call[c].who) /\ Answer(c, "done")
     ELSE participants' = participants /\ Answer(c, "integrity_error")
  /\ Release(c)
  /\ UNCHANGED <<row, turnLog, playCount, issued, req, delivered, notices>>

-----------------------------------------------------------------------------
(* PATCH /playthroughs/{id}/character: update_character_fields *)

(* the row is read without a lock; its status is not looked at *)
EditReads(c, p) ==
  /\ Begin(c, "edit", p, IsMember(p), "read")
  /\ UNCHANGED <<vars, lock>>

EditWrites_WholeRow(c) ==
  /\ At(c, "edit", "read")
  /\ lock = Unlocked
  /\ row' = [call[c].seen EXCEPT !.state.setup = @ \cup {call[c].who}]
  /\ Answer(c, "done")
  /\ UNCHANGED <<turnLog, participants, playCount, issued, req, delivered, notices, lock>>

(* state = {**state, "setup": merged_setup}: the whole state as it was read *)
EditWrites(c) ==
  /\ At(c, "edit", "read")
  /\ FlushRow(call[c].seen, [call[c].seen EXCEPT !.state.setup = @ \cup {call[c].who}])
  /\ Answer(c, "done")

-----------------------------------------------------------------------------
(* POST /playthroughs/{id}/abandon: abandon_playthrough *)

AbandonReads(c, p) ==
  /\ Begin(c, "abandon", p, p = Owner, "read")
  /\ UNCHANGED <<vars, lock>>

AbandonWrites(c) ==
  /\ At(c, "abandon", "read")
  /\ FlushRow(call[c].seen, [call[c].seen EXCEPT !.status = "abandoned"])
  /\ Answer(c, "done")

(* the request is cancelled or core-api dies: its transaction is rolled back *)
Dies(c) ==
  /\ call[c].pc \in {"locked", "seated", "read"}
  /\ Answer(c, "lost")
  /\ Release(c)
  /\ UNCHANGED vars

-----------------------------------------------------------------------------
CoreNext ==
  \E c \in Calls :
    \/ \E p \in Participants : JoinLocks(c, p) \/ EditReads(c, p) \/ AbandonReads(c, p)
    \/ JoinLists(c) \/ JoinInserts(c) \/ EditWrites(c) \/ AbandonWrites(c) \/ Dies(c)

(* A step of the turn pipeline; its UPDATEs wait for the row's lock.          *)
TurnNext ==
  /\ Next
  /\ row' # row => lock = Unlocked
  /\ UNCHANGED coreVars

LifecycleInit == Init /\ CoreInit
LifecycleNext == TurnNext \/ CoreNext
LifecycleSpec == LifecycleInit /\ [][LifecycleNext]_lifecycleVars

-----------------------------------------------------------------------------
(* Every variable keeps its type; the lock belongs to a join in progress.     *)
LifecycleTypeOK ==
  /\ TypeOK
  /\ call \in [Calls -> [op : {"none", "join", "edit", "abandon"},
                         pc : {"idle", "read", "locked", "seated", "done", "rejected",
                               "integrity_error", "lost"},
                         who : Participants,
                         seen : [status : {"active", "completed", "abandoned"},
                                 turnCount : Nat, state : GameStates, outcome : Nat],
                         seat : Nat]]
  /\ lock \in {Unlocked} \cup {c \in Calls : call[c].op = "join"
                                              /\ call[c].pc \in {"locked", "seated"}}

(* A participant is only added to an active playthrough: an ending or an      *)
(* abandonment cannot slip between join_playthrough's check and its insert.   *)
JoinOnlyActive == [][participants' # participants => row.status = "active"]_lifecycleVars

(* Two users who join at the same moment get different seats, without either  *)
(* request running into the table's unique constraints.                       *)
JoinNeverConflicts == \A c \in Calls : call[c].pc # "integrity_error"

(* A playthrough that was abandoned or has ended never becomes active again,  *)
(* although core-api writes back rows that it read before.                    *)
EndedStaysEnded ==
  [][row.status # "active" => row'.status # "active"]_lifecycleVars

(* Whatever core-api does meanwhile, the log stays dense and a submission     *)
(* becomes at most one turn.                                                  *)
TurnsLogged == LogDense /\ OneTurnPerRequest

(* The row lock orders joins, with the types.                                 *)
JoinsSerialized == LifecycleTypeOK /\ JoinNeverConflicts

(* A playthrough that is over stays over and takes nobody in.                 *)
EndingIsFinal == EndedStaysEnded /\ JoinOnlyActive
=============================================================================
