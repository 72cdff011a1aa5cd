--------------------------- MODULE MemoryIngestion ---------------------------
(***************************************************************************)
(* The memory layer's ingestion of one playthrough's turns:                *)
(* MemoryEngine.submit_batch, retry_batch and get_batch_status             *)
(* (context_memory/engine.py) over IngestionOrchestrator.run_batch         *)
(* (context_memory/ingestion/orchestrator.py), which runs in a thread pool *)
(* and writes to the graph database, to the embedding and search-index     *)
(* tables and to the journal of jobs, each with its own transactions.      *)
(*                                                                         *)
(* Every extraction of a turn mints new fact identities                    *)
(* (model_adapters.py, uuid4), so a fact is identified with the attempt    *)
(* that extracted it, and stands for all the facts of that attempt.  All   *)
(* facts are about the same subject and predicate; whether one supersedes  *)
(* an earlier one is the classifier's (a model's) free choice.             *)
(***************************************************************************)
EXTENDS Naturals, Sequences

CONSTANTS
  Batches,      \* batch ids
  Turns,        \* turn numbers of the playthrough: one chunk, one job each
  Submissions,  \* the turn sequences a client may submit as a batch
  Workers,      \* threads of the executor (ingestion_executor_max_workers)
  GroupSize,    \* ingestion_write_batch_size
  MaxRuns,      \* bound: submissions and retries
  MaxFaults     \* bound: errors of the services it calls, and restarts of the process

ASSUME TurnsAssumption == Turns \subseteq Nat
ASSUME SubmissionsAssumption == Submissions \subseteq Seq(Turns) \ {<<>>}
ASSUME GroupSizeAssumption == GroupSize \in Nat \ {0}
ASSUME BoundsAssumption == MaxRuns \in Nat /\ MaxFaults \in Nat

VARIABLES
  jobs,      \* ingestion_jobs: state and last_verified_state of each turn's chunk
  facts,     \* what each attempt's facts look like in the three stores
  batches,   \* ingestion_batches, and the entry of MemoryEngine._batches
  queue,     \* the executor's queue of batches to run
  work,      \* the run each thread is executing
  runs,      \* how many runs were asked for
  faults     \* how many errors and restarts there were

vars == <<jobs, facts, batches, queue, work, runs, faults>>

Forward == <<"pending_graph", "pending_embeddings", "verifying", "completed">>
Failures == {"retryable_failed", "terminal_failed"}
InFlight == {"pending_graph", "pending_embeddings", "verifying"}
JobStates == InFlight \cup Failures \cup {"completed", "absent"}

Idle == [at |-> "idle", batch |-> CHOOSE b \in Batches : TRUE, todo |-> <<>>, group |-> <<>>,
         solo |-> FALSE, pending |-> <<>>, i |-> 1, undo |-> <<>>, fail |-> <<>>,
         kind |-> "retryable_failed", results |-> [t \in Turns |-> "absent"]]

Init ==
  /\ jobs = [t \in Turns |-> [state |-> "absent", last |-> "pending_graph"]]
  /\ facts = <<>>
  /\ batches = [b \in Batches |-> [turns |-> <<>>, entry |-> "absent", runError |-> FALSE]]
  /\ queue = <<>>
  /\ work = [w \in Workers |-> Idle]
  /\ runs = 0
  /\ faults = 0

-----------------------------------------------------------------------------
(* The journal of jobs: PostgresJobStore.transition locks the row, checks  *)
(* the move and raises when it is not legal.                               *)

Rank(s) == CHOOSE n \in 1 .. 4 : Forward[n] = s

(* is_legal_job_transition; manual_repair is entered by hand only *)
IsLegal(job, new) ==
  \/ /\ job.state \in InFlight
     /\ new \notin Failures => Rank(new) >= Rank(job.state)
  \/ /\ job.state = "retryable_failed"
     /\ IF new \in Failures THEN new = "terminal_failed" ELSE Rank(new) >= Rank(job.last)

Moved(job, new) ==
  [state |-> new, last |-> IF job.state \in Failures THEN job.last ELSE job.state]

(* an error of a database or a model, or the death of the process *)
Fault == faults < MaxFaults /\ faults' = faults + 1

(* transition, when it succeeds *)
Transition(t, new) == IsLegal(jobs[t], new) /\ jobs' = [jobs EXCEPT ![t] = Moved(@, new)]

(* _safe_transition: a refused move, or an error of the journal, is logged *)
(* and dropped                                                              *)
SafeTransition(t, new) == Transition(t, new) \/ UNCHANGED jobs

-----------------------------------------------------------------------------
(* Requests *)

Known(b) == batches[b].turns # <<>>

(* submit_batch: the in-memory entry, the durable row, the executor *)
Submit(b, turns) ==
  /\ runs < MaxRuns
  /\ ~Known(b)
  /\ batches' = [batches EXCEPT ![b] = [turns |-> turns, entry |-> "pending", runError |-> FALSE]]
  /\ queue' = Append(queue, b)
  /\ runs' = runs + 1
  /\ UNCHANGED <<jobs, facts, work, faults>>

(* retry_batch: allowed at any time, also while an earlier run goes on *)
Retry(b) ==
  /\ runs < MaxRuns
  /\ Known(b)
  /\ batches' = [batches EXCEPT ![b].entry = "pending", ![b].runError = FALSE]
  /\ queue' = Append(queue, b)
  /\ runs' = runs + 1
  /\ UNCHANGED <<jobs, facts, work, faults>>

(* a batch with failed chunks counts as succeeded if some completed *)
Verdict_Some(states) ==
  CASE "completed" \in states -> "succeeded"
    [] OTHER -> "failed"

(* what both derivations of a batch's status do with its chunks' states *)
Verdict(states) ==
  CASE states \subseteq {"completed"} -> "succeeded"
    [] "completed" \in states -> "partial"
    [] OTHER -> "failed"

StatesOf(b, f) == {f[batches[b].turns[n]] : n \in DOMAIN batches[b].turns}

(* PostgresBatchStore.get_status, derived from the journal of jobs *)
DurableStatus(b) ==
  LET states == StatesOf(b, [t \in Turns |-> jobs[t].state]) IN
  CASE batches[b].runError -> "failed"
    [] states \cap (InFlight \cup {"absent"}) # {} -> "pending"
    [] OTHER -> Verdict(states)

(* get_batch_status: this process's entry when there is one *)
Status(b) == IF batches[b].entry = "absent" THEN DurableStatus(b) ELSE batches[b].entry

-----------------------------------------------------------------------------
(* run_batch *)

Set(w, r) == work' = [work EXCEPT ![w] = r]

Start(w) ==
  /\ work[w].at = "idle"
  /\ queue # <<>>
  /\ Set(w, [Idle EXCEPT !.at = "group", !.batch = Head(queue), !.todo = batches[Head(queue)].turns])
  /\ queue' = Tail(queue)
  /\ UNCHANGED <<jobs, facts, batches, runs, faults>>

(* the next write_batch_size records; a group of one takes run_record's path *)
NextGroup(w) ==
  LET r == work[w]
      n == IF Len(r.todo) < GroupSize THEN Len(r.todo) ELSE GroupSize IN
  /\ r.at = "group"
  /\ r.todo # <<>>
  /\ Set(w, [r EXCEPT !.at = "begin", !.group = SubSeq(r.todo, 1, n),
                      !.todo = SubSeq(r.todo, n + 1, Len(r.todo)),
                      !.solo = (n = 1), !.pending = <<>>, !.i = 1])
  /\ UNCHANGED <<jobs, facts, batches, queue, runs, faults>>

(* _run_batch_safe: the result of a run that returned *)
Finish(w) ==
  LET r == work[w] IN
  /\ r.at = "group"
  /\ r.todo = <<>>
  /\ batches' = [batches EXCEPT ![r.batch].entry = Verdict(StatesOf(r.batch, r.results))]
  /\ Set(w, Idle)
  /\ UNCHANGED <<jobs, facts, queue, runs, faults>>

(* chunk_store.put, which creates the job with the chunk, and job_store.get; *)
(* a chunk that is completed or terminally failed is skipped                 *)
Begin(w) ==
  LET r == work[w]
      t == Head(r.group)
      job == IF jobs[t].state = "absent" THEN [jobs[t] EXCEPT !.state = "pending_graph"] ELSE jobs[t] IN
  /\ r.at = "begin"
  /\ r.group # <<>>
  /\ jobs' = [jobs EXCEPT ![t] = job]
  /\ IF job.state \in {"completed", "terminal_failed"}
     THEN Set(w, [r EXCEPT !.group = Tail(r.group), !.results[t] = job.state])
     ELSE Set(w, [r EXCEPT !.at = "extract"])
  /\ UNCHANGED <<facts, batches, queue, runs, faults>>

(* put, get and seed stand outside the try: their errors end the run.  *)
(* Recording that durably is best effort.                              *)
Abort(w) ==
  LET r == work[w] IN
  /\ r.at = "begin"
  /\ r.group # <<>>
  /\ \E recorded \in BOOLEAN :
       batches' = [batches EXCEPT ![r.batch].entry = "failed",
                                  ![r.batch].runError = @ \/ recorded]
  /\ facts' = [a \in DOMAIN facts |-> IF \E n \in DOMAIN r.pending : r.pending[n] = a
                                      THEN [facts[a] EXCEPT !.fate = "failed"] ELSE facts[a]]
  /\ Set(w, Idle)
  /\ Fault
  /\ UNCHANGED <<jobs, queue, runs>>

(* HydraFactLookup.find_existing, then the classifier's gate: only facts    *)
(* observed earlier can be superseded                                       *)
Supersedable(t) == {a \in DOMAIN facts : facts[a].graph /\ facts[a].current /\ facts[a].turn < t}

(* _extract_and_plan: new facts, and the priors the model says they replace *)
Extract(w) ==
  LET r == work[w]
      t == Head(r.group) IN
  /\ r.at = "extract"
  /\ \E priors \in SUBSET Supersedable(t) :
       facts' = Append(facts, [turn |-> t, priors |-> priors, graph |-> FALSE, current |-> FALSE,
                               archived |-> FALSE, embedding |-> "none", indexed |-> FALSE,
                               fate |-> "running"])
  /\ Set(w, [r EXCEPT !.at = "begin", !.group = Tail(r.group), !.pending = Append(@, Len(facts) + 1)])
  /\ UNCHANGED <<jobs, batches, queue, runs, faults>>

ExtractFails(w, kind) ==
  LET r == work[w]
      t == Head(r.group) IN
  /\ r.at = "extract"
  /\ SafeTransition(t, kind)
  /\ Set(w, [r EXCEPT !.at = "begin", !.group = Tail(r.group), !.results[t] = kind])
  /\ Fault
  /\ UNCHANGED <<facts, batches, queue, runs>>

(* nothing of the group is left to write *)
SkipGroup(w) ==
  /\ work[w].at = "begin"
  /\ work[w].group = <<>>
  /\ work[w].pending = <<>>
  /\ Set(w, [work[w] EXCEPT !.at = "group"])
  /\ UNCHANGED <<jobs, facts, batches, queue, runs, faults>>

-----------------------------------------------------------------------------
(* The group's stages *)

Members(s) == {s[n] : n \in DOMAIN s}

(* the plan's two kinds of Fact nodes are written by separate calls *)
Written(as, withPriors) ==
  LET priors == IF withPriors THEN UNION {facts[a].priors : a \in as} ELSE {} IN
  facts' = [a \in DOMAIN facts |->
              IF a \in as THEN [facts[a] EXCEPT !.graph = TRUE, !.current = TRUE]
              ELSE IF a \in priors THEN [facts[a] EXCEPT !.current = FALSE]
              ELSE facts[a]]

(* the stages leave r.i at the first attempt they have not handled *)
Failing(r, undo, kind) ==
  [r EXCEPT !.at = "undo", !.undo = undo, !.fail = r.pending, !.kind = kind, !.pending = <<>>, !.i = 1]

ToWrite(w) == work[w].at = "begin" /\ work[w].group = <<>> /\ work[w].pending # <<>>

WriteGraph(w) ==
  /\ ToWrite(w)
  /\ Written(Members(work[w].pending), TRUE)
  /\ Set(w, [work[w] EXCEPT !.at = "embed_mark", !.i = 1])
  /\ UNCHANGED <<jobs, batches, queue, runs, faults>>

(* the write raises before, between or after its calls: nothing is undone; *)
(* a conflict with the manifest is terminal, and comes before any call      *)
WriteGraphFails(w) ==
  LET as == Members(work[w].pending) IN
  /\ ToWrite(w)
  /\ \/ \E kind \in Failures : facts' = facts /\ Set(w, Failing(work[w], <<>>, kind))
     \/ \E withPriors \in BOOLEAN :
          Written(as, withPriors) /\ Set(w, Failing(work[w], <<>>, "retryable_failed"))
  /\ Fault
  /\ UNCHANGED <<jobs, batches, queue, runs>>

(* one transition per attempt of the group.  A move that is refused, or     *)
(* that the journal fails to make, is an exception of the stage: after the  *)
(* graph write, only the path of a single record compensates.               *)
Mark(w, at, new, next) ==
  LET r == work[w]
      t == facts[r.pending[r.i]].turn IN
  /\ r.at = at
  /\ \/ /\ Transition(t, new)
        /\ UNCHANGED faults
        /\ Set(w, IF r.i < Len(r.pending) THEN [r EXCEPT !.i = @ + 1] ELSE [r EXCEPT !.at = next, !.i = 1])
     \/ /\ UNCHANGED jobs
        /\ IF IsLegal(jobs[t], new) THEN Fault ELSE UNCHANGED faults
        /\ Set(w, Failing(r, IF at = "verify_mark" \/ r.solo THEN r.pending ELSE <<>>, "retryable_failed"))
  /\ UNCHANGED <<facts, batches, queue, runs>>

MarkEmbeddings(w) == Mark(w, "embed_mark", "pending_embeddings", "persist")
MarkVerifying(w) == Mark(w, "verify_mark", "verifying", "verify")

(* the embeddings are in before the search index is written *)
Persisted(as, index) ==
  facts' = [a \in DOMAIN facts |-> IF a \in as THEN [facts[a] EXCEPT !.embedding = "active", !.indexed = index]
                                   ELSE facts[a]]

(* _build_embeddings and _persist_embeddings_and_index *)
Persist(w) ==
  /\ work[w].at = "persist"
  /\ Persisted(Members(work[w].pending), TRUE)
  /\ Set(w, [work[w] EXCEPT !.at = "verify_mark"])
  /\ UNCHANGED <<jobs, batches, queue, runs, faults>>

(* the model or either table fails; the embeddings may be in by then *)
PersistFails(w) ==
  /\ work[w].at = "persist"
  /\ \/ facts' = facts
     \/ Persisted(Members(work[w].pending), FALSE)
  /\ Set(w, Failing(work[w], work[w].pending, "retryable_failed"))
  /\ Fault
  /\ UNCHANGED <<jobs, batches, queue, runs>>

(* _verify *)
Readable(f) == f.graph /\ f.embedding # "none" /\ f.indexed

AfterVerify(r) == IF r.i < Len(r.pending) THEN [r EXCEPT !.at = "verify", !.i = @ + 1] ELSE [r EXCEPT !.at = "group"]

(* one attempt verified and its job completed *)
Complete(w) ==
  LET r == work[w]
      a == r.pending[r.i]
      t == facts[a].turn IN
  /\ r.at = "verify"
  /\ Readable(facts[a])
  /\ Transition(t, "completed")
  /\ facts' = [facts EXCEPT ![a].fate = "completed"]
  /\ Set(w, AfterVerify([r EXCEPT !.results[t] = "completed"]))
  /\ UNCHANGED <<batches, queue, runs, faults>>

(* a failed verification undoes the whole group *)
VerifyFails_Group(w) ==
  LET r == work[w]
      a == r.pending[r.i] IN
  /\ r.at = "verify"
  /\ Set(w, [r EXCEPT !.at = "undo_one", !.undo = r.pending, !.fail = <<a>>,
                      !.kind = "retryable_failed"])
  /\ IF Readable(facts[a]) /\ IsLegal(jobs[facts[a].turn], "completed") THEN Fault ELSE UNCHANGED faults
  /\ UNCHANGED <<jobs, facts, batches, queue, runs>>

(* a read fails, something is missing or the journal refuses: this attempt *)
(* alone is undone, the others of the group go on                          *)
VerifyFails(w) ==
  LET r == work[w]
      a == r.pending[r.i] IN
  /\ r.at = "verify"
  /\ Set(w, [r EXCEPT !.at = "undo_one", !.undo = <<a>>, !.fail = <<a>>,
                      !.kind = "retryable_failed"])
  /\ IF Readable(facts[a]) /\ IsLegal(jobs[facts[a].turn], "completed") THEN Fault ELSE UNCHANGED faults
  /\ UNCHANGED <<jobs, facts, batches, queue, runs>>

-----------------------------------------------------------------------------
(* Compensation, then the failure is recorded *)

(* compensation archives the new facts only *)
Compensated_NewOnly(a, withPriors) ==
  [x \in DOMAIN facts |->
     IF x = a THEN [facts[x] EXCEPT !.graph = TRUE, !.current = FALSE, !.archived = TRUE] ELSE facts[x]]

(* _compensating_fact_properties: the new facts are archived, and what they *)
(* were to supersede is current again                                       *)
Compensated(a, withPriors) ==
  [x \in DOMAIN facts |->
     IF x = a THEN [facts[x] EXCEPT !.graph = TRUE, !.current = FALSE, !.archived = TRUE]
     ELSE IF withPriors /\ x \in facts[a].priors THEN [facts[x] EXCEPT !.current = TRUE]
     ELSE facts[x]]

Undoing(w) == work[w].at \in {"undo", "undo_one"} /\ work[w].undo # <<>>
Undone(w) == Set(w, [work[w] EXCEPT !.undo = Tail(@)])

(* _compensate_chunk: the graph, the embedding, the search index *)
Undo(w) ==
  LET a == Head(work[w].undo) IN
  /\ Undoing(w)
  /\ facts' = [Compensated(a, TRUE) EXCEPT
                 ![a].embedding = IF @ = "active" THEN "inactive" ELSE @,
                 ![a].indexed = FALSE]
  /\ Undone(w)
  /\ UNCHANGED <<jobs, batches, queue, runs, faults>>

(* one of its parts fails, which is logged and no more: the graph write,   *)
(* after which nothing is deactivated, or either of the deactivations       *)
UndoFails(w) ==
  LET a == Head(work[w].undo) IN
  /\ Undoing(w)
  /\ \/ \E fs \in {facts, Compensated(a, FALSE), Compensated(a, TRUE)} :
          facts' = [fs EXCEPT ![a].fate = "repair"]
     \/ facts' = [Compensated(a, TRUE) EXCEPT ![a].indexed = FALSE, ![a].fate = "repair"]
     \/ facts' = [Compensated(a, TRUE) EXCEPT ![a].embedding = IF @ = "active" THEN "inactive" ELSE @,
                                              ![a].fate = "repair"]
  /\ Undone(w)
  /\ Fault
  /\ UNCHANGED <<jobs, batches, queue, runs>>

(* _fail_pending and _record_failure *)
RecordFailure(w) ==
  LET r == work[w]
      a == Head(r.fail)
      t == facts[a].turn IN
  /\ r.at \in {"undo", "undo_one"}
  /\ r.undo = <<>>
  /\ r.fail # <<>>
  /\ SafeTransition(t, r.kind)
  /\ IF IsLegal(jobs[t], r.kind) /\ jobs' = jobs THEN Fault ELSE UNCHANGED faults
  /\ facts' = [facts EXCEPT ![a].fate = IF @ = "running" THEN "failed" ELSE @]
  /\ LET s == [r EXCEPT !.fail = Tail(@), !.results[t] = r.kind] IN
     Set(w, IF Tail(r.fail) # <<>> THEN s
            ELSE IF r.at = "undo_one" THEN AfterVerify(s)
            ELSE [s EXCEPT !.at = "group"])
  /\ UNCHANGED <<batches, queue, runs>>

-----------------------------------------------------------------------------
(* The process dies and comes back: threads, queue and entries are gone *)
Restart ==
  /\ Fault
  /\ work' = [w \in Workers |-> Idle]
  /\ queue' = <<>>
  /\ batches' = [b \in Batches |-> [batches[b] EXCEPT !.entry = "absent"]]
  /\ facts' = [a \in DOMAIN facts |-> IF facts[a].fate = "running"
                                      THEN [facts[a] EXCEPT !.fate = "dead"] ELSE facts[a]]
  /\ UNCHANGED <<jobs, runs>>

Request == \E b \in Batches : Retry(b) \/ \E turns \in Submissions : Submit(b, turns)

WorkerStep(w) ==
  \/ Start(w) \/ NextGroup(w) \/ Finish(w)
  \/ Begin(w) \/ Abort(w)
  \/ Extract(w) \/ \E kind \in Failures : ExtractFails(w, kind)
  \/ SkipGroup(w)
  \/ WriteGraph(w) \/ WriteGraphFails(w)
  \/ MarkEmbeddings(w) \/ MarkVerifying(w)
  \/ Persist(w) \/ PersistFails(w)
  \/ Complete(w) \/ VerifyFails(w)
  \/ Undo(w) \/ UndoFails(w)
  \/ RecordFailure(w)

Next == Request \/ Restart \/ \E w \in Workers : WorkerStep(w)

Spec == Init /\ [][Next]_vars

(* a thread of the pool that has work goes on with it *)
FairSpec == Spec /\ \A w \in Workers : WF_vars(WorkerStep(w))

-----------------------------------------------------------------------------
(* Properties *)

Attempts == DOMAIN facts
Of(t) == {a \in Attempts : facts[a].turn = t}

(* Every variable stays within its type; at most MaxRuns runs are asked for *)
(* and nothing refers to an attempt that was not made.                      *)
TypeOK ==
  /\ jobs \in [Turns -> [state : JobStates, last : JobStates \ (Failures \cup {"absent"})]]
  /\ facts \in Seq([turn : Turns, priors : SUBSET Attempts, graph : BOOLEAN, current : BOOLEAN,
                    archived : BOOLEAN, embedding : {"none", "active", "inactive"},
                    indexed : BOOLEAN, fate : {"running", "completed", "failed", "repair", "dead"}])
  /\ batches \in [Batches -> [turns : Submissions \cup {<<>>}, runError : BOOLEAN,
                              entry : {"absent", "pending", "succeeded", "partial", "failed"}]]
  /\ queue \in Seq(Batches)
  /\ \A w \in Workers : Members(work[w].pending) \cup Members(work[w].undo) \cup Members(work[w].fail) \subseteq Attempts
  /\ runs \in 0 .. MaxRuns
  /\ faults \in 0 .. MaxFaults

(* A chunk the journal calls completed has facts that retrieval finds in    *)
(* all three stores, whatever other runs of the same chunk, in the same     *)
(* group or in another thread, failed and were undone since                 *)
(* (orchestrator._verify, _compensate_chunk).                               *)
CompletedIsSearchable ==
  \A t \in Turns : jobs[t].state = "completed" =>
    \E a \in Of(t) : /\ facts[a].graph
                     /\ ~facts[a].archived
                     /\ facts[a].embedding = "active"
                     /\ facts[a].indexed

(* Of the runs of one chunk, concurrent or repeated, one completes: the     *)
(* others find the journal's last state taken (is_legal_job_transition).    *)
CompletedOnce ==
  \A t \in Turns : \A a, b \in Of(t) :
    facts[a].fate = "completed" /\ facts[b].fate = "completed" => a = b

(* An attempt that failed without an error logged by its compensation left  *)
(* nothing for semantic or keyword search to find (_deactivate_downstream). *)
FailedIsUnsearchable ==
  \A a \in Attempts : facts[a].fate = "failed" => facts[a].embedding # "active" /\ ~facts[a].indexed

(* A fact that stopped being current without being archived was replaced by *)
(* one that is still there: undoing the replacement brings it back, also    *)
(* when several runs replaced it (_compensating_fact_properties).           *)
NoFactLost ==
  \A p \in Attempts :
    facts[p].graph /\ ~facts[p].current /\ ~facts[p].archived =>
      \E a \in Attempts : /\ p \in facts[a].priors
                          /\ facts[a].graph
                          /\ facts[a].archived => facts[a].fate = "repair"

(* A batch reported as succeeded has every one of its chunks completed,     *)
(* whether the report comes from this process's entry or from the journal,  *)
(* and whatever was retried meanwhile (get_batch_status).                   *)
SuccessIsReal ==
  \A b \in Batches : Known(b) /\ Status(b) = "succeeded" =>
    StatesOf(b, [t \in Turns |-> jobs[t].state]) = {"completed"}

(* In a live process a batch is reported pending only while a run of it is  *)
(* queued or going on: no failure of a stage leaves its report hanging, and *)
(* a retry always brings a run (_run_batch_safe, retry_batch).              *)
PendingHasRun ==
  \A b \in Batches : batches[b].entry = "pending" =>
    \/ b \in Members(queue)
    \/ \E w \in Workers : work[w].at # "idle" /\ work[w].batch = b

(* A client that polls a batch it submitted is not told "pending" for ever, *)
(* restarts included (engine.py, get_batch_status).                         *)
NoEternalPending == \A b \in Batches : Known(b) ~> Status(b) # "pending"

(* A chunk that failed retryably can be run again from the top: the journal *)
(* accepts the first move of the replay (the comment on _FORWARD_ORDER).    *)
ReplayIsLegal ==
  \A t \in Turns : jobs[t].state = "retryable_failed" => IsLegal(jobs[t], "pending_embeddings")

(* The state of a batch agrees with what the stores hold of it, with the types. *)
BatchesSound == TypeOK /\ CompletedIsSearchable /\ CompletedOnce /\ FailedIsUnsearchable

(* What is reported of a batch is true: success is stored, pending is running.  *)
ReportsTrue == SuccessIsReal /\ PendingHasRun
=============================================================================
