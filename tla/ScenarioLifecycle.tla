------------------------- MODULE ScenarioLifecycle -------------------------
(***************************************************************************)
(* The life of one scenario in core-api: publish_service (the synchronous  *)
(* start and the background job), scenario_service (PATCH and DELETE) and  *)
(* the creation of playthroughs from it, by racing HTTP calls.  The        *)
(* memory layer's template of the scenario is an external service: it      *)
(* retires the old template before it writes the new one, and goes on      *)
(* after its caller has timed out.                                         *)
(*                                                                         *)
(* The story a scenario tells (the STORY_SCHEMA_FIELDS) is abstracted to   *)
(* the identity of the call that last changed it, and content_tag to       *)
(* whether it is one of ALLOWED_CONTENT_TAGS.                              *)
(***************************************************************************)
EXTENDS Naturals, FiniteSets

CONSTANTS
  Calls,        \* HTTP calls on the scenario, one process each
  PatchFields,  \* what clients PATCH: a subset of {"story", "tag", "status"}
  MayRestart,   \* whether core-api may be restarted
  Original,     \* the story the scenario is created with
  Empty         \* the memory template with no current fact

ASSUME StoriesAssumption == Original \notin Calls /\ Empty \notin Calls /\ Original # Empty
ASSUME PatchAssumption == PatchFields \subseteq {"story", "tag", "status"}
ASSUME RestartAssumption == MayRestart \in BOOLEAN

VARIABLES
  scenario,      \* the scenarios row
  call,          \* the HTTP calls: program counter and local variables
  job,           \* the background publish job each publish call scheduled
  ingest,        \* the template ingestion each job requested
  template,      \* the story the scenario's memory template holds
  playthroughs   \* the playthroughs rows made from the scenario

vars == <<scenario, call, job, ingest, template, playthroughs>>

Stories == Calls \cup {Original}
Rows == [exists : BOOLEAN, status : {"draft", "publishing", "published", "publish_failed", "archived"},
         publishedAt : BOOLEAN, tagOk : BOOLEAN, story : Stories, version : Nat]

(* create_scenario: a draft at version 1 *)
NewScenario(tagOk) ==
  [exists |-> TRUE, status |-> "draft", publishedAt |-> FALSE, tagOk |-> tagOk,
   story |-> Original, version |-> 1]

(* a scenario whose first publish is over, and maybe PATCHed since *)
LiveScenario(tagOk) == [NewScenario(tagOk) EXCEPT !.status = "published", !.publishedAt = TRUE]

Init ==
  /\ scenario \in {NewScenario(tagOk) : tagOk \in BOOLEAN} \cup {LiveScenario(tagOk) : tagOk \in BOOLEAN}
  /\ call = [c \in Calls |-> [op |-> "none", pc |-> "idle", seen |-> scenario,
                              unplayed |-> TRUE, memory |-> Empty]]
  /\ job = [c \in Calls |-> [pc |-> "none", seen |-> scenario]]
  /\ ingest = [c \in Calls |-> "none"]
  /\ template = IF scenario.publishedAt THEN Original ELSE Empty
  /\ playthroughs = {}

Answer(c, op, outcome) == call' = [call EXCEPT ![c].op = op, ![c].pc = outcome]

(* get_by_id: the call goes on with the row it read *)
Read(c, op) == call' = [call EXCEPT ![c].op = op, ![c].pc = "read", ![c].seen = scenario]

At(c, op, pc) == call[c].op = op /\ call[c].pc = pc

(* A flush writes the columns that differ from the row that was read.         *)
Flush(seen, new) ==
  [f \in DOMAIN scenario |-> IF new[f] # seen[f] THEN new[f] ELSE scenario[f]]

Missing == ~scenario.exists \/ scenario.status = "archived"

-----------------------------------------------------------------------------
(* POST /publish: start_publish, under FOR UPDATE and with its own commit. *)

StartPublish_Unguarded(c) ==
  /\ call[c].pc = "idle"
  /\ IF Missing
     THEN Answer(c, "publish", "rejected") /\ UNCHANGED <<scenario, job>>
     ELSE /\ scenario' = [scenario EXCEPT !.status = "publishing"]
          /\ job' = [job EXCEPT ![c].pc = "scheduled"]
          /\ Answer(c, "publish", "done")
  /\ UNCHANGED <<ingest, template, playthroughs>>

StartPublish(c) ==
  /\ call[c].pc = "idle"
  /\ IF Missing \/ scenario.status = "publishing"
     THEN Answer(c, "publish", "rejected") /\ UNCHANGED <<scenario, job>>
     ELSE /\ scenario' = [scenario EXCEPT !.status = "publishing"]
          /\ job' = [job EXCEPT ![c].pc = "scheduled"]
          /\ Answer(c, "publish", "done")
  /\ UNCHANGED <<ingest, template, playthroughs>>

(* run_publish_job: its own session, an unlocked read, no look at the status *)
JobLoads(c) ==
  /\ job[c].pc = "scheduled"
  /\ job' = [job EXCEPT ![c] =
       [pc |-> IF scenario.exists THEN "loaded" ELSE "over", seen |-> scenario]]
  /\ UNCHANGED <<scenario, call, ingest, template, playthroughs>>

(* the content tag and the start pin pass; the ingestion request is sent *)
JobRequestsIngest(c) ==
  /\ job[c].pc = "loaded"
  /\ job[c].seen.tagOk
  /\ job' = [job EXCEPT ![c].pc = "ingesting"]
  /\ ingest' = [ingest EXCEPT ![c] = "sent"]
  /\ UNCHANGED <<scenario, call, template, playthroughs>>

(* the session.commit at the end of the job; no row left to update is an error *)
JobCommits(c, new) ==
  /\ job' = [job EXCEPT ![c].pc = "over"]
  /\ scenario' = IF scenario.exists THEN Flush(job[c].seen, new) ELSE scenario
  /\ UNCHANGED <<call, ingest, template, playthroughs>>

JobPublishes_BeforeIngest(c) ==
  /\ job[c].pc = "ingesting"
  /\ JobCommits(c, [job[c].seen EXCEPT !.status = "published", !.publishedAt = TRUE])

JobPublishes(c) ==
  /\ job[c].pc = "ingesting"
  /\ ingest[c] = "written"
  /\ JobCommits(c, [job[c].seen EXCEPT !.status = "published", !.publishedAt = TRUE])

JobFails_Uncaught(c) ==
  /\ job[c].pc \in {"loaded", "ingesting"}
  /\ JobCommits(c, job[c].seen)

(* a check failed, or the ingestion failed or timed out *)
JobFails(c) ==
  /\ job[c].pc \in {"loaded", "ingesting"}
  /\ JobCommits(c, [job[c].seen EXCEPT
       !.status = IF job[c].seen.publishedAt THEN "publish_failed" ELSE "draft"])

-----------------------------------------------------------------------------
(* The memory layer works on each request it received, awaited or not. *)

(* begin_template_republish: every current fact of the template is archived *)
TemplateRetires(c) ==
  /\ ingest[c] = "sent"
  /\ ingest' = [ingest EXCEPT ![c] = "retired"]
  /\ template' = Empty
  /\ UNCHANGED <<scenario, call, job, playthroughs>>

TemplateWrites(c) ==
  /\ ingest[c] = "retired"
  /\ ingest' = [ingest EXCEPT ![c] = "written"]
  /\ template' = job[c].seen.story
  /\ UNCHANGED <<scenario, call, job, playthroughs>>

TemplateFails(c) ==
  /\ ingest[c] \in {"sent", "retired"}
  /\ ingest' = [ingest EXCEPT ![c] = "failed"]
  /\ UNCHANGED <<scenario, call, job, template, playthroughs>>

-----------------------------------------------------------------------------
(* PATCH /scenarios/{id}: update_scenario *)

UpdateReads(c) ==
  /\ call[c].pc = "idle"
  /\ IF Missing \/ scenario.status = "publishing"
     THEN Answer(c, "update", "rejected")
     ELSE Read(c, "update")
  /\ UNCHANGED <<scenario, job, ingest, template, playthroughs>>

(* the row as the call leaves it; only a story field bumps the version *)
Patched(c) ==
  LET seen == call[c].seen IN
  {[seen EXCEPT !.story = c, !.version = @ + 1] : f \in PatchFields \cap {"story"}}
  \cup {[seen EXCEPT !.tagOk = ok] : ok \in IF "tag" \in PatchFields THEN BOOLEAN ELSE {}}
  \cup {[seen EXCEPT !.status = s] : s \in IF "status" \in PatchFields
                                           THEN {"draft", "archived"} ELSE {}}

UpdateWrites(c) ==
  /\ At(c, "update", "read")
  /\ \E new \in Patched(c) :
       IF scenario.exists
       THEN scenario' = Flush(call[c].seen, new) /\ Answer(c, "update", "done")
       ELSE scenario' = scenario /\ Answer(c, "update", "failed")
  /\ UNCHANGED <<job, ingest, template, playthroughs>>

-----------------------------------------------------------------------------
(* DELETE /scenarios/{id}: delete_scenario *)

DeleteReads(c) ==
  /\ call[c].pc = "idle"
  /\ IF Missing THEN Answer(c, "delete", "rejected") ELSE Read(c, "delete")
  /\ UNCHANGED <<scenario, job, ingest, template, playthroughs>>

DeleteCounts(c) ==
  /\ At(c, "delete", "read")
  /\ call' = [call EXCEPT ![c].pc = "counted", ![c].unplayed = (playthroughs = {})]
  /\ UNCHANGED <<scenario, job, ingest, template, playthroughs>>

RemoveRow_Cascade(c) ==
  /\ scenario' = [scenario EXCEPT !.exists = FALSE]
  /\ Answer(c, "delete", "done")

(* the foreign key of playthroughs is ON DELETE RESTRICT *)
RemoveRow(c) ==
  IF playthroughs = {}
  THEN scenario' = [scenario EXCEPT !.exists = FALSE] /\ Answer(c, "delete", "done")
  ELSE scenario' = scenario /\ Answer(c, "delete", "integrity_error")

DeleteRemoves(c) ==
  /\ At(c, "delete", "counted")
  /\ call[c].unplayed
  /\ RemoveRow(c)
  /\ UNCHANGED <<job, ingest, template, playthroughs>>

DeleteArchives(c) ==
  /\ At(c, "delete", "counted")
  /\ ~call[c].unplayed
  /\ scenario' = Flush(call[c].seen, [call[c].seen EXCEPT !.status = "archived"])
  /\ Answer(c, "delete", "done")
  /\ UNCHANGED <<job, ingest, template, playthroughs>>

-----------------------------------------------------------------------------
(* POST /playthroughs and POST /scenarios/{id}/playtest: create_playthrough *)

Creations == {"play", "playtest"}

CreateReads(c, op) ==
  /\ call[c].pc = "idle"
  /\ IF Missing \/ (op = "play" /\ scenario.status # "published")
     THEN Answer(c, op, "rejected")
     ELSE Read(c, op)
  /\ UNCHANGED <<scenario, job, ingest, template, playthroughs>>

(* _clone_memory_space: the template's current facts, whatever they are now *)
CreateClones(c) ==
  /\ call[c].op \in Creations /\ call[c].pc = "read"
  /\ call' = [call EXCEPT ![c].pc = "cloned", ![c].memory = template]
  /\ UNCHANGED <<scenario, job, ingest, template, playthroughs>>

(* PlaythroughMemoryCloneError: nothing has been written yet *)
CloneFails(c) ==
  /\ call[c].op \in Creations /\ call[c].pc = "read"
  /\ Answer(c, call[c].op, "failed")
  /\ UNCHANGED <<scenario, job, ingest, template, playthroughs>>

Playthrough(c) ==
  [id |-> c, story |-> call[c].seen.story, version |-> call[c].seen.version,
   memory |-> call[c].memory, playtest |-> call[c].op = "playtest"]

(* the insert; its foreign key needs the scenario's row *)
CreateInserts(c) ==
  /\ call[c].op \in Creations /\ call[c].pc = "cloned"
  /\ IF scenario.exists
     THEN playthroughs' = playthroughs \cup {Playthrough(c)} /\ Answer(c, call[c].op, "done")
     ELSE playthroughs' = playthroughs /\ Answer(c, call[c].op, "failed")
  /\ UNCHANGED <<scenario, job, ingest, template>>

(* The core-api process dies: requests and background jobs are gone.          *)
Restart ==
  /\ MayRestart
  /\ call' = [c \in Calls |-> IF call[c].pc \in {"read", "counted", "cloned"}
                              THEN [call[c] EXCEPT !.pc = "lost"] ELSE call[c]]
  /\ job' = [c \in Calls |-> IF job[c].pc \in {"scheduled", "loaded", "ingesting"}
                             THEN [job[c] EXCEPT !.pc = "lost"] ELSE job[c]]
  /\ UNCHANGED <<scenario, ingest, template, playthroughs>>

-----------------------------------------------------------------------------
JobStep(c) == JobLoads(c) \/ JobRequestsIngest(c) \/ JobPublishes(c) \/ JobFails(c)

Next ==
  \/ \E c \in Calls :
       \/ StartPublish(c) \/ JobStep(c)
       \/ TemplateRetires(c) \/ TemplateWrites(c) \/ TemplateFails(c)
       \/ UpdateReads(c) \/ UpdateWrites(c)
       \/ DeleteReads(c) \/ DeleteCounts(c) \/ DeleteRemoves(c) \/ DeleteArchives(c)
       \/ \E op \in Creations : CreateReads(c, op)
       \/ CreateClones(c) \/ CloneFails(c) \/ CreateInserts(c)
  \/ Restart

Spec == Init /\ [][Next]_vars

(* A scheduled background task runs to its end: every call it makes returns   *)
(* or times out (memory_template_timeout_seconds).                            *)
FairSpec == Spec /\ \A c \in Calls : WF_vars(JobStep(c))

-----------------------------------------------------------------------------
JobRuns(c) == job[c].pc \in {"scheduled", "loaded", "ingesting"}

(* the discovery filter of list_scenarios(published_only=True) *)
Discoverable == scenario.exists /\ scenario.publishedAt

(* Every variable keeps its type.                                             *)
TypeOK ==
  /\ scenario \in Rows
  /\ call \in [Calls -> [op : {"none", "publish", "update", "delete"} \cup Creations,
                         pc : {"idle", "read", "counted", "cloned", "done", "rejected",
                               "failed", "integrity_error", "lost"},
                         seen : Rows, unplayed : BOOLEAN, memory : Stories \cup {Empty}]]
  /\ job \in [Calls -> [pc : {"none", "scheduled", "loaded", "ingesting", "over", "lost"},
                        seen : Rows]]
  /\ ingest \in [Calls -> {"none", "sent", "retired", "written", "failed"}]
  /\ template \in Stories \cup {Empty}
  /\ playthroughs \subseteq [id : Calls, story : Stories, version : Nat,
                             memory : Stories \cup {Empty}, playtest : BOOLEAN]

(* A scenario only goes live in discovery through a publish job whose content *)
(* tag check passed and whose template ingestion the memory layer finished.   *)
LivePassedChecks ==
  [][~Discoverable /\ Discoverable' =>
       \E c \in Calls : job[c].pc = "ingesting" /\ job[c].seen.tagOk /\ ingest[c] = "written"]_vars

(* A scenario that was ever published stays in discovery through every        *)
(* republish, failed ones included.                                           *)
ListingStays == [][Discoverable /\ scenario'.exists => Discoverable']_vars

(* A publish is refused while another one is in flight, and with it a second  *)
(* publish job (start_publish's lock and 409).                                *)
OneJobAtATime == \A c, d \in Calls : JobRuns(c) /\ JobRuns(d) => c = d

(* Two publish jobs run at once only after a PATCH got in: racing calls of    *)
(* POST /publish, DELETE and restarts alone do not bring it about.            *)
JobsApartUnlessPatched ==
  (\A c \in Calls : call[c].op = "update" => call[c].pc # "done") => OneJobAtATime

(* Only a scenario that has been published is played, playtests aside.        *)
PlayedWasPublished == (\E p \in playthroughs : ~p.playtest) => scenario.publishedAt

(* No playthrough outlives its scenario, although count_playthroughs and the  *)
(* delete are two statements with an insert possible in between.              *)
PlaythroughsKeepScenario == playthroughs # {} => scenario.exists

(* What players have started stays playable, with the types.                  *)
PlayedIsKept == TypeOK /\ PlayedWasPublished /\ PlaythroughsKeepScenario

(* Discovery is entered by passing the checks and left only by deletion.      *)
ListingIsEarned == LivePassedChecks /\ ListingStays

(* A publish that was accepted settles: the client that polls the scenario    *)
(* sees it leave "publishing", unless the process lost the job in a restart,  *)
(* which ADR-10 accepts.                                                      *)
PublishSettles ==
  scenario.exists /\ scenario.status = "publishing"
    ~> \/ ~scenario.exists
       \/ scenario.status # "publishing"
       \/ \E c \in Calls : job[c].pc = "lost"
=============================================================================
