----------------------- MODULE ScenarioLifecycleProofs -----------------------
(***************************************************************************)
(* TLAPS proofs about ScenarioLifecycle, for any number of HTTP calls.     *)
(***************************************************************************)
EXTENDS ScenarioLifecycle, TLAPS

-----------------------------------------------------------------------------
(* Types. *)

CallRecords ==
  [op : {"none", "publish", "update", "delete"} \cup Creations,
   pc : {"idle", "read", "counted", "cloned", "done", "rejected", "failed", "integrity_error", "lost"},
   seen : Rows, unplayed : BOOLEAN, memory : Stories \cup {Empty}]

JobRecords ==
  [pc : {"none", "scheduled", "loaded", "ingesting", "over", "lost"}, seen : Rows]

LEMMA TypeParts ==
  TypeOK <=> /\ scenario \in Rows
             /\ call \in [Calls -> CallRecords]
             /\ job \in [Calls -> JobRecords]
             /\ ingest \in [Calls -> {"none", "sent", "retired", "written", "failed"}]
             /\ template \in Stories \cup {Empty}
             /\ playthroughs \subseteq [id : Calls, story : Stories, version : Nat,
                                        memory : Stories \cup {Empty}, playtest : BOOLEAN]
BY DEF TypeOK, CallRecords, JobRecords

(* A flush of a row over a row is a row.                                      *)
LEMMA FlushType ==
  ASSUME scenario \in Rows, NEW seen \in Rows, NEW new \in Rows
  PROVE  Flush(seen, new) \in Rows
BY DEF Flush, Rows

(* The flush changes the columns that the new row changes, and no others.     *)
LEMMA FlushColumns ==
  ASSUME scenario \in Rows, NEW seen \in Rows, NEW new \in Rows
  PROVE  /\ new.exists = seen.exists => Flush(seen, new).exists = scenario.exists
         /\ new.publishedAt = seen.publishedAt
              => Flush(seen, new).publishedAt = scenario.publishedAt
         /\ new.publishedAt # seen.publishedAt
              => Flush(seen, new).publishedAt = new.publishedAt
         /\ Flush(seen, new).status = IF new.status # seen.status THEN new.status ELSE scenario.status
BY DEF Flush, Rows

LEMMA AnswerType ==
  ASSUME call \in [Calls -> CallRecords], NEW c \in Calls,
         NEW op \in {"none", "publish", "update", "delete"} \cup Creations,
         NEW outcome \in {"done", "rejected", "failed", "integrity_error"},
         Answer(c, op, outcome)
  PROVE  call' \in [Calls -> CallRecords]
BY DEF Answer, CallRecords, Creations

LEMMA ReadType ==
  ASSUME call \in [Calls -> CallRecords], scenario \in Rows, NEW c \in Calls,
         NEW op \in {"none", "publish", "update", "delete"} \cup Creations,
         Read(c, op)
  PROVE  call' \in [Calls -> CallRecords]
<1> DEFINE q == [call[c] EXCEPT !.op = op, !.pc = "read", !.seen = scenario]
<1>1. q \in CallRecords
  BY DEF CallRecords
<1>2. call' = [call EXCEPT ![c] = q]
  BY DEF Read
<1>3. QED
  BY <1>1, <1>2

LEMMA PatchedType ==
  ASSUME TypeOK, NEW c \in Calls, NEW new \in Patched(c)
  PROVE  /\ new \in Rows
         /\ new.exists = call[c].seen.exists
         /\ new.publishedAt = call[c].seen.publishedAt
         /\ new.status \in {call[c].seen.status, "draft", "archived"}
<1>1. call[c].seen \in Rows
  BY TypeParts DEF CallRecords
<1> DEFINE seen == call[c].seen
<1>2. CASE new = [seen EXCEPT !.story = c, !.version = @ + 1]
  <2> DEFINE next == seen.version + 1
  <2>1. next \in Nat
    BY <1>1 DEF Rows
  <2>2. c \in Stories
    BY DEF Stories
  <2>3. new = [seen EXCEPT !.story = c, !.version = next]
    BY <1>2
  <2> HIDE DEF next
  <2>4. QED
    BY <1>1, <2>1, <2>2, <2>3 DEF Rows
<1>3. CASE \E ok \in BOOLEAN : new = [seen EXCEPT !.tagOk = ok]
  BY <1>1, <1>3 DEF Rows
<1>4. CASE \E st \in {"draft", "archived"} : new = [seen EXCEPT !.status = st]
  BY <1>1, <1>4 DEF Rows
<1>5. QED
  BY <1>2, <1>3, <1>4 DEF Patched

LEMMA JobCommitsType ==
  ASSUME TypeOK, NEW c \in Calls, NEW new \in Rows, JobCommits(c, new)
  PROVE  TypeOK'
<1>1. job[c].seen \in Rows
  BY TypeParts DEF JobRecords
<1>2. scenario' \in Rows
  BY <1>1, FlushType, TypeParts DEF JobCommits
<1>3. job' \in [Calls -> JobRecords]
  BY TypeParts DEF JobCommits, JobRecords
<1>4. QED
  BY <1>2, <1>3 DEF JobCommits, TypeOK, JobRecords

(* Steps that only change the calls, or only the jobs, keep the types.        *)
LEMMA CallsOnlyType ==
  ASSUME TypeOK, call' \in [Calls -> CallRecords],
         UNCHANGED <<scenario, job, ingest, template, playthroughs>>
  PROVE  TypeOK'
BY DEF TypeOK, CallRecords

LEMMA TypeInit == Init => TypeOK
<1> SUFFICES ASSUME Init PROVE TypeOK
  OBVIOUS
<1>1. scenario \in Rows
  <2>1. \A tagOk \in BOOLEAN : NewScenario(tagOk) \in Rows
    BY DEF NewScenario, Rows, Stories
  <2>2. \A tagOk \in BOOLEAN : LiveScenario(tagOk) \in Rows
    BY <2>1 DEF LiveScenario, Rows
  <2>3. QED
    BY <2>1, <2>2 DEF Init
<1>2. call \in [Calls -> CallRecords]
  BY <1>1 DEF Init, CallRecords, Stories
<1>3. job \in [Calls -> JobRecords]
  BY <1>1 DEF Init, JobRecords
<1>4. QED
  BY <1>1, <1>2, <1>3, TypeParts DEF Init, Stories

LEMMA TypeStep == TypeOK /\ [Next]_vars => TypeOK'
<1> SUFFICES ASSUME TypeOK, [Next]_vars PROVE TypeOK'
  OBVIOUS
<1> USE TypeParts
<1>1. ASSUME NEW c \in Calls, StartPublish(c) PROVE TypeOK'
  <2>1. call' \in [Calls -> CallRecords]
    BY <1>1, AnswerType DEF StartPublish
  <2>2. scenario' \in Rows
    BY <1>1 DEF StartPublish, Rows
  <2>3. job' \in [Calls -> JobRecords]
    BY <1>1 DEF StartPublish, JobRecords
  <2>4. QED
    BY <1>1, <2>1, <2>2, <2>3 DEF StartPublish, TypeOK, CallRecords, JobRecords
<1>2. ASSUME NEW c \in Calls, JobLoads(c) PROVE TypeOK'
  <2>1. job' \in [Calls -> JobRecords]
    BY <1>2 DEF JobLoads, JobRecords
  <2>2. QED
    BY <1>2, <2>1 DEF JobLoads, TypeOK, JobRecords
<1>3. ASSUME NEW c \in Calls, JobRequestsIngest(c) PROVE TypeOK'
  <2>1. job' \in [Calls -> JobRecords]
    BY <1>3 DEF JobRequestsIngest, JobRecords
  <2>2. QED
    BY <1>3, <2>1 DEF JobRequestsIngest, TypeOK, JobRecords
<1>4. ASSUME NEW c \in Calls, JobPublishes(c) PROVE TypeOK'
  <2>1. [job[c].seen EXCEPT !.status = "published", !.publishedAt = TRUE] \in Rows
    BY DEF JobRecords, Rows
  <2>2. QED
    BY <1>4, <2>1, JobCommitsType DEF JobPublishes
<1>5. ASSUME NEW c \in Calls, JobFails(c) PROVE TypeOK'
  <2>1. [job[c].seen EXCEPT
           !.status = IF job[c].seen.publishedAt THEN "publish_failed" ELSE "draft"] \in Rows
    BY DEF JobRecords, Rows
  <2>2. QED
    BY <1>5, <2>1, JobCommitsType DEF JobFails
<1>6. ASSUME NEW c \in Calls, TemplateRetires(c) \/ TemplateFails(c) PROVE TypeOK'
  BY <1>6 DEF TemplateRetires, TemplateFails, TypeOK
<1>7. ASSUME NEW c \in Calls, TemplateWrites(c) PROVE TypeOK'
  <2>1. job[c].seen.story \in Stories
    BY DEF JobRecords, Rows
  <2>2. QED
    BY <1>7, <2>1 DEF TemplateWrites, TypeOK
<1>8. ASSUME NEW c \in Calls, UpdateReads(c) \/ DeleteReads(c) PROVE TypeOK'
  BY <1>8, AnswerType, ReadType, CallsOnlyType DEF UpdateReads, DeleteReads
<1>9. ASSUME NEW c \in Calls, UpdateWrites(c) PROVE TypeOK'
  <2>1. call' \in [Calls -> CallRecords]
    BY <1>9, AnswerType DEF UpdateWrites
  <2>2. scenario' \in Rows
    <3>1. call[c].seen \in Rows
      BY DEF CallRecords
    <3>2. QED
      BY <1>9, <3>1, PatchedType, FlushType DEF UpdateWrites
  <2>3. QED
    BY <1>9, <2>1, <2>2 DEF UpdateWrites, TypeOK, CallRecords
<1>10. ASSUME NEW c \in Calls, DeleteCounts(c) PROVE TypeOK'
  <2>1. call' \in [Calls -> CallRecords]
    <3> DEFINE q == [call[c] EXCEPT !.pc = "counted", !.unplayed = (playthroughs = {})]
    <3>1. (playthroughs = {}) \in BOOLEAN
      OBVIOUS
    <3>2. q \in CallRecords
      BY <3>1 DEF CallRecords
    <3>3. call' = [call EXCEPT ![c] = q]
      BY <1>10 DEF DeleteCounts
    <3>4. QED
      BY <3>2, <3>3
  <2>2. QED
    BY <1>10, <2>1, CallsOnlyType DEF DeleteCounts
<1>11. ASSUME NEW c \in Calls, DeleteRemoves(c) PROVE TypeOK'
  <2>1. call' \in [Calls -> CallRecords]
    BY <1>11, AnswerType DEF DeleteRemoves, RemoveRow
  <2>2. scenario' \in Rows
    BY <1>11 DEF DeleteRemoves, RemoveRow, Rows
  <2>3. QED
    BY <1>11, <2>1, <2>2 DEF DeleteRemoves, TypeOK, CallRecords
<1>12. ASSUME NEW c \in Calls, DeleteArchives(c) PROVE TypeOK'
  <2>1. call' \in [Calls -> CallRecords]
    BY <1>12, AnswerType DEF DeleteArchives
  <2>2. scenario' \in Rows
    <3>1. call[c].seen \in Rows /\ [call[c].seen EXCEPT !.status = "archived"] \in Rows
      BY DEF CallRecords, Rows
    <3>2. QED
      BY <1>12, <3>1, FlushType DEF DeleteArchives
  <2>3. QED
    BY <1>12, <2>1, <2>2 DEF DeleteArchives, TypeOK, CallRecords
<1>13. ASSUME NEW c \in Calls, NEW op \in Creations, CreateReads(c, op) PROVE TypeOK'
  BY <1>13, AnswerType, ReadType, CallsOnlyType DEF CreateReads
<1>14. ASSUME NEW c \in Calls, CreateClones(c) PROVE TypeOK'
  <2>1. call' \in [Calls -> CallRecords]
    <3> DEFINE q == [call[c] EXCEPT !.pc = "cloned", !.memory = template]
    <3>1. template \in Stories \cup {Empty}
      BY DEF TypeOK
    <3>2. q \in CallRecords
      BY <3>1 DEF CallRecords
    <3>3. call' = [call EXCEPT ![c] = q]
      BY <1>14 DEF CreateClones
    <3> HIDE DEF q
    <3>4. QED
      BY <3>2, <3>3
  <2>2. QED
    BY <1>14, <2>1, CallsOnlyType DEF CreateClones
<1>15. ASSUME NEW c \in Calls, CloneFails(c) PROVE TypeOK'
  BY <1>15, AnswerType, CallsOnlyType DEF CloneFails
<1>16. ASSUME NEW c \in Calls, CreateInserts(c) PROVE TypeOK'
  <2>1. call' \in [Calls -> CallRecords]
    BY <1>16, AnswerType DEF CreateInserts
  <2>2. Playthrough(c) \in [id : Calls, story : Stories, version : Nat,
                            memory : Stories \cup {Empty}, playtest : BOOLEAN]
    BY DEF Playthrough, CallRecords, Rows
  <2>3. QED
    BY <1>16, <2>1, <2>2 DEF CreateInserts, TypeOK, CallRecords
<1>17. ASSUME Restart PROVE TypeOK'
  <2>1. call' \in [Calls -> CallRecords]
    BY <1>17 DEF Restart, CallRecords
  <2>2. job' \in [Calls -> JobRecords]
    BY <1>17 DEF Restart, JobRecords
  <2>3. QED
    BY <1>17, <2>1, <2>2 DEF Restart, TypeOK, CallRecords, JobRecords
<1>18. CASE UNCHANGED vars
  BY <1>18 DEF vars, TypeOK
<1>19. QED
  BY <1>1, <1>2, <1>3, <1>4, <1>5, <1>6, <1>7, <1>8, <1>9, <1>10, <1>11, <1>12, <1>13,
     <1>14, <1>15, <1>16, <1>17, <1>18 DEF Next, JobStep

(* Every variable keeps its type: no call, job or ingestion leaves its states, *)
(* and what is stored about a scenario or a playthrough is always a row.       *)
THEOREM TypeCorrect == Spec => []TypeOK
<1>1. QED
  BY TypeInit, TypeStep, PTL DEF Spec

-----------------------------------------------------------------------------
(* What a step may do to the row. *)

(* A row comes back from nothing never, is deleted only while it has no       *)
(* playthrough, and only a job that publishes makes it live.                  *)
RowMoves ==
  /\ scenario'.exists => scenario.exists
  /\ scenario.exists /\ ~scenario'.exists => playthroughs = {} /\ playthroughs' = {}
  /\ scenario'.publishedAt # scenario.publishedAt
       => scenario'.publishedAt /\ \E c \in Calls : JobPublishes(c)
  /\ scenario'.status = "published"
       => scenario.status = "published" \/ \E c \in Calls : JobPublishes(c)

LEMMA SameRow == ASSUME UNCHANGED scenario PROVE RowMoves
BY DEF RowMoves

LEMMA RowStep == TypeOK /\ [Next]_vars => RowMoves
<1> SUFFICES ASSUME TypeOK, [Next]_vars PROVE RowMoves
  OBVIOUS
<1> USE TypeParts
<1>1. ASSUME NEW c \in Calls, StartPublish(c) PROVE RowMoves
  BY <1>1 DEF StartPublish, RowMoves, Rows
<1>2. ASSUME NEW c \in Calls, JobLoads(c) \/ JobRequestsIngest(c) PROVE RowMoves
  BY <1>2, SameRow DEF JobLoads, JobRequestsIngest
<1>3. ASSUME NEW c \in Calls, JobPublishes(c) PROVE RowMoves
  <2> DEFINE seen == job[c].seen
             new == [seen EXCEPT !.status = "published", !.publishedAt = TRUE]
  <2>1. seen \in Rows /\ new \in Rows
    BY DEF JobRecords, Rows
  <2>2. new.exists = seen.exists /\ new.publishedAt
    BY <2>1 DEF Rows
  <2>3. CASE scenario' = scenario
    BY <2>3, SameRow
  <2>4. CASE scenario' = Flush(seen, new)
    <3>1. /\ scenario'.exists = scenario.exists
          /\ scenario'.publishedAt \in {scenario.publishedAt, TRUE}
      BY <2>1, <2>2, <2>4, FlushColumns
    <3>2. QED
      BY <1>3, <3>1 DEF RowMoves, Rows
  <2>5. QED
    BY <1>3, <2>3, <2>4 DEF JobPublishes, JobCommits
<1>4. ASSUME NEW c \in Calls, JobFails(c) PROVE RowMoves
  <2> DEFINE seen == job[c].seen
             new == [seen EXCEPT !.status = IF seen.publishedAt THEN "publish_failed" ELSE "draft"]
  <2>1. seen \in Rows /\ new \in Rows
    BY DEF JobRecords, Rows
  <2>2. /\ new.exists = seen.exists /\ new.publishedAt = seen.publishedAt
        /\ new.status # "published"
    BY <2>1 DEF Rows
  <2>3. CASE scenario' = scenario
    BY <2>3, SameRow
  <2>4. CASE scenario' = Flush(seen, new)
    <3> HIDE DEF new
    <3>1. /\ scenario'.exists = scenario.exists
          /\ scenario'.publishedAt = scenario.publishedAt
          /\ scenario'.status \in {new.status, scenario.status}
      BY <2>1, <2>2, <2>4, FlushColumns
    <3>2. QED
      BY <2>2, <3>1 DEF RowMoves
  <2>5. QED
    BY <1>4, <2>3, <2>4 DEF JobFails, JobCommits
<1>5. ASSUME NEW c \in Calls, TemplateRetires(c) \/ TemplateWrites(c) \/ TemplateFails(c)
      PROVE  RowMoves
  BY <1>5, SameRow DEF TemplateRetires, TemplateWrites, TemplateFails
<1>6. ASSUME NEW c \in Calls, UpdateReads(c) \/ DeleteReads(c) \/ DeleteCounts(c)
      PROVE  RowMoves
  BY <1>6, SameRow DEF UpdateReads, DeleteReads, DeleteCounts
<1>7. ASSUME NEW c \in Calls, UpdateWrites(c) PROVE RowMoves
  <2>1. call[c].seen \in Rows
    BY DEF CallRecords
  <2>2. CASE scenario' = scenario
    BY <2>2, SameRow
  <2>3. ASSUME NEW new \in Patched(c), scenario' = Flush(call[c].seen, new) PROVE RowMoves
    <3>1. /\ scenario'.exists = scenario.exists
          /\ scenario'.publishedAt = scenario.publishedAt
          /\ scenario'.status = IF new.status # call[c].seen.status THEN new.status ELSE scenario.status
      BY <2>1, <2>3, PatchedType, FlushColumns
    <3>2. new.status \in {call[c].seen.status, "draft", "archived"}
      BY <2>3, PatchedType
    <3>3. QED
      BY <3>1, <3>2 DEF RowMoves
  <2>4. QED
    BY <1>7, <2>2, <2>3 DEF UpdateWrites
<1>8. ASSUME NEW c \in Calls, DeleteRemoves(c) PROVE RowMoves
  BY <1>8 DEF DeleteRemoves, RemoveRow, RowMoves, Rows
<1>9. ASSUME NEW c \in Calls, DeleteArchives(c) PROVE RowMoves
  <2> DEFINE seen == call[c].seen
             new == [seen EXCEPT !.status = "archived"]
  <2>1. seen \in Rows /\ new \in Rows
    BY DEF CallRecords, Rows
  <2>2. /\ new.exists = seen.exists /\ new.publishedAt = seen.publishedAt
        /\ new.status = "archived"
    BY <2>1 DEF Rows
  <2>3. QED
    <3> HIDE DEF new
    <3>1. scenario' = Flush(seen, new)
      BY <1>9 DEF DeleteArchives, new
    <3>2. /\ scenario'.exists = scenario.exists
          /\ scenario'.publishedAt = scenario.publishedAt
          /\ scenario'.status \in {new.status, scenario.status}
      BY <2>1, <2>2, <3>1, FlushColumns
    <3>3. QED
      BY <2>2, <3>2 DEF RowMoves
<1>10. ASSUME NEW c \in Calls, NEW op \in Creations, CreateReads(c, op) PROVE RowMoves
  BY <1>10, SameRow DEF CreateReads
<1>11. ASSUME NEW c \in Calls, CreateClones(c) \/ CloneFails(c) \/ CreateInserts(c)
       PROVE  RowMoves
  BY <1>11, SameRow DEF CreateClones, CloneFails, CreateInserts
<1>12. CASE Restart \/ UNCHANGED vars
  BY <1>12, SameRow DEF Restart, vars
<1>13. QED
  BY <1>1, <1>2, <1>3, <1>4, <1>5, <1>6, <1>7, <1>8, <1>9, <1>10, <1>11, <1>12
     DEF Next, JobStep

(* A scenario that was ever published stays in discovery through every        *)
(* republish, failed ones included.                                           *)
THEOREM ListingIsStable == Spec => ListingStays
<1>1. TypeOK /\ [Next]_vars => [Discoverable /\ scenario'.exists => Discoverable']_vars
  BY RowStep DEF RowMoves, Discoverable
<1>2. QED
  BY <1>1, TypeCorrect, PTL DEF Spec, ListingStays

(* A job that is past the checks passed them.                                  *)
IngestingPassed == \A c \in Calls : job[c].pc = "ingesting" => job[c].seen.tagOk

LEMMA IngestingInit == Init => IngestingPassed
BY DEF Init, IngestingPassed

LEMMA IngestingStep == TypeOK /\ IngestingPassed /\ [Next]_vars => IngestingPassed'
<1> SUFFICES ASSUME TypeOK, IngestingPassed, [Next]_vars PROVE IngestingPassed'
  OBVIOUS
<1> USE TypeParts
<1>1. ASSUME UNCHANGED job PROVE IngestingPassed'
  BY <1>1 DEF IngestingPassed
<1>2. ASSUME NEW c \in Calls, StartPublish(c) PROVE IngestingPassed'
  BY <1>2 DEF StartPublish, IngestingPassed, JobRecords
<1>3. ASSUME NEW c \in Calls, JobStep(c) PROVE IngestingPassed'
  BY <1>3 DEF JobStep, JobLoads, JobRequestsIngest, JobPublishes, JobFails, JobCommits,
              IngestingPassed, JobRecords
<1>4. CASE Restart
  BY <1>4 DEF Restart, IngestingPassed, JobRecords
<1>5. QED
  BY <1>1, <1>2, <1>3, <1>4
     DEF Next, TemplateRetires, TemplateWrites, TemplateFails, UpdateReads, UpdateWrites,
         DeleteReads, DeleteCounts, DeleteRemoves, DeleteArchives, CreateReads, CreateClones,
         CloneFails, CreateInserts, vars

(* A scenario only goes live in discovery through a publish job whose content *)
(* tag check passed and whose template ingestion the memory layer finished.   *)
THEOREM LiveIsChecked == Spec => LivePassedChecks
<1> DEFINE Goes == ~Discoverable /\ Discoverable' =>
      \E c \in Calls : job[c].pc = "ingesting" /\ job[c].seen.tagOk /\ ingest[c] = "written"
<1>1. TypeOK /\ IngestingPassed /\ [Next]_vars => [Goes]_vars
  <2> SUFFICES ASSUME TypeOK, IngestingPassed, [Next]_vars, ~Discoverable, Discoverable'
               PROVE  \E c \in Calls : /\ job[c].pc = "ingesting"
                                       /\ job[c].seen.tagOk
                                       /\ ingest[c] = "written"
    OBVIOUS
  <2>1. scenario'.publishedAt # scenario.publishedAt
    BY RowStep DEF RowMoves, Discoverable
  <2>2. PICK c \in Calls : JobPublishes(c)
    BY <2>1, RowStep DEF RowMoves
  <2>3. QED
    BY <2>2 DEF JobPublishes, IngestingPassed
<1>2. QED
  BY <1>1, TypeCorrect, IngestingInit, IngestingStep, PTL DEF Spec, LivePassedChecks

-----------------------------------------------------------------------------
(* Playthroughs. *)

(* Only CreateInserts adds a playthrough, and it needs the scenario's row.    *)
LEMMA PlaythroughsStep ==
  [Next]_vars => \/ playthroughs' = playthroughs
                 \/ \E c \in Calls : /\ CreateInserts(c)
                                      /\ scenario.exists /\ scenario' = scenario
                                      /\ playthroughs' = playthroughs \cup {Playthrough(c)}
<1> SUFFICES ASSUME [Next]_vars, playthroughs' # playthroughs
             PROVE  \E c \in Calls : /\ CreateInserts(c)
                                    /\ scenario.exists /\ scenario' = scenario
                                    /\ playthroughs' = playthroughs \cup {Playthrough(c)}
  OBVIOUS
<1>1. \E c \in Calls : CreateInserts(c)
  BY DEF Next, JobStep, StartPublish, JobLoads, JobRequestsIngest, JobPublishes, JobFails,
         JobCommits, TemplateRetires, TemplateWrites, TemplateFails, UpdateReads, UpdateWrites,
         DeleteReads, DeleteCounts, DeleteRemoves, DeleteArchives, CreateReads, CreateClones,
         CloneFails, Restart, vars
<1>2. QED
  BY <1>1 DEF CreateInserts

(* No playthrough outlives its scenario: the count and the delete are two     *)
(* statements, and the foreign key closes the gap between them.               *)
THEOREM PlaythroughsKept == Spec => []PlaythroughsKeepScenario
<1>1. Init => PlaythroughsKeepScenario
  BY DEF Init, PlaythroughsKeepScenario
<1>2. TypeOK /\ PlaythroughsKeepScenario /\ [Next]_vars => PlaythroughsKeepScenario'
  BY RowStep, PlaythroughsStep, TypeParts DEF RowMoves, PlaythroughsKeepScenario, Rows
<1>3. QED
  BY <1>1, <1>2, TypeCorrect, PTL DEF Spec

(* What a call or a job remembers as published was and is published, and so   *)
(* is what a play call goes on with.                                          *)
PublishedStays ==
  /\ scenario.status = "published" => scenario.publishedAt
  /\ \A c \in Calls : job[c].seen.publishedAt => scenario.publishedAt
  /\ \A c \in Calls : call[c].op = "play" /\ call[c].pc \in {"read", "cloned"}
                        => scenario.publishedAt
  /\ PlayedWasPublished

LEMMA PublishedInit == Init => PublishedStays
<1> SUFFICES ASSUME Init PROVE PublishedStays
  OBVIOUS
<1>1. scenario.status = "published" => scenario.publishedAt
  <2>1. \A tagOk \in BOOLEAN : NewScenario(tagOk).status = "draft"
    BY DEF NewScenario
  <2>2. \A tagOk \in BOOLEAN : LiveScenario(tagOk).publishedAt = TRUE
    BY DEF LiveScenario, NewScenario
  <2>3. QED
    BY <2>1, <2>2 DEF Init
<1>2. QED
  BY <1>1 DEF Init, PublishedStays, PlayedWasPublished

(* A job's row is the one it had, or the scenario's own.                      *)
LEMMA JobRowStep ==
  ASSUME TypeOK, [Next]_vars, NEW c \in Calls
  PROVE  job'[c].seen \in {job[c].seen, scenario}
<1> USE TypeParts
<1>1. CASE UNCHANGED job
  BY <1>1
<1>2. ASSUME NEW d \in Calls, StartPublish(d) PROVE job'[c].seen \in {job[c].seen, scenario}
  BY <1>2 DEF StartPublish, JobRecords
<1>3. ASSUME NEW d \in Calls, JobStep(d) PROVE job'[c].seen \in {job[c].seen, scenario}
  BY <1>3 DEF JobStep, JobLoads, JobRequestsIngest, JobPublishes, JobFails, JobCommits, JobRecords
<1>4. CASE Restart
  BY <1>4 DEF Restart, JobRecords
<1>5. QED
  BY <1>1, <1>2, <1>3, <1>4
     DEF Next, TemplateRetires, TemplateWrites, TemplateFails, UpdateReads, UpdateWrites,
         DeleteReads, DeleteCounts, DeleteRemoves, DeleteArchives, CreateReads, CreateClones,
         CloneFails, CreateInserts, vars

(* A play call gets past its check only on a published scenario.              *)
LEMMA PlayCallStep ==
  ASSUME TypeOK, [Next]_vars, NEW c \in Calls,
         call'[c].op = "play", call'[c].pc \in {"read", "cloned"}
  PROVE  \/ call[c].op = "play" /\ call[c].pc \in {"read", "cloned"}
         \/ scenario.status = "published"
<1> USE TypeParts
<1>1. CASE UNCHANGED call
  BY <1>1
<1>2. ASSUME NEW d \in Calls,
             StartPublish(d) \/ UpdateReads(d) \/ UpdateWrites(d) \/ DeleteReads(d)
               \/ DeleteRemoves(d) \/ DeleteArchives(d) \/ CloneFails(d) \/ CreateInserts(d)
      PROVE  call'[c] = call[c] \/ call'[c].op # "play" \/ call'[c].pc \notin {"read", "cloned"}
  BY <1>2 DEF StartPublish, UpdateReads, UpdateWrites, DeleteReads, DeleteRemoves, RemoveRow,
              DeleteArchives, CloneFails, CreateInserts, Answer, Read, CallRecords
<1>3. ASSUME NEW d \in Calls, DeleteCounts(d) \/ CreateClones(d)
      PROVE  call'[c].op = call[c].op /\ (call'[c].pc # call[c].pc =>
               call'[c].pc = "counted" \/ call[c].pc = "read")
  BY <1>3 DEF DeleteCounts, CreateClones, CallRecords
<1>4. ASSUME NEW d \in Calls, NEW op \in Creations, CreateReads(d, op)
      PROVE  call'[c] = call[c] \/ scenario.status = "published" \/ call'[c].op # "play"
               \/ call'[c].pc = "rejected"
  BY <1>4 DEF CreateReads, Answer, Read, CallRecords
<1>5. CASE Restart
  BY <1>5 DEF Restart, CallRecords
<1>6. QED
  BY <1>1, <1>2, <1>3, <1>4, <1>5
     DEF Next, JobStep, JobLoads, JobRequestsIngest, JobPublishes, JobFails, JobCommits,
         TemplateRetires, TemplateWrites, TemplateFails, vars

LEMMA PublishedStep == TypeOK /\ PublishedStays /\ [Next]_vars => PublishedStays'
<1> SUFFICES ASSUME TypeOK, PublishedStays, [Next]_vars PROVE PublishedStays'
  OBVIOUS
<1> USE TypeParts
<1>1. scenario.publishedAt => scenario'.publishedAt
  BY RowStep DEF RowMoves, Rows
<1>2. ASSUME NEW c \in Calls, JobPublishes(c), scenario' # scenario PROVE scenario'.publishedAt
  <2> DEFINE seen == job[c].seen
             new == [seen EXCEPT !.status = "published", !.publishedAt = TRUE]
  <2>1. seen \in Rows /\ new \in Rows /\ new.publishedAt = TRUE
    BY DEF JobRecords, Rows
  <2>2. CASE seen.publishedAt
    BY <1>1, <2>2 DEF PublishedStays
  <2>3. CASE ~seen.publishedAt
    BY <1>2, <2>1, <2>3, FlushColumns DEF JobPublishes, JobCommits
  <2>4. QED
    BY <2>2, <2>3
<1>3. scenario'.status = "published" => scenario'.publishedAt
  BY <1>1, <1>2, RowStep DEF RowMoves, PublishedStays
<1>4. ASSUME NEW c \in Calls, job'[c].seen.publishedAt PROVE scenario'.publishedAt
  BY <1>1, <1>4, JobRowStep DEF PublishedStays
<1>5. ASSUME NEW c \in Calls, call'[c].op = "play", call'[c].pc \in {"read", "cloned"}
      PROVE  scenario'.publishedAt
  BY <1>1, <1>5, PlayCallStep DEF PublishedStays
<1>6. PlayedWasPublished'
  <2>1. CASE playthroughs' = playthroughs
    BY <1>1, <2>1 DEF PublishedStays, PlayedWasPublished
  <2>2. ASSUME NEW c \in Calls, CreateInserts(c), playthroughs' = playthroughs \cup {Playthrough(c)}
        PROVE  PlayedWasPublished'
    <3>1. ~Playthrough(c).playtest => scenario.publishedAt
      BY <2>2 DEF CreateInserts, Playthrough, PublishedStays, Creations
    <3>2. QED
      BY <1>1, <2>2, <3>1 DEF PublishedStays, PlayedWasPublished
  <2>3. QED
    BY <2>1, <2>2, PlaythroughsStep
<1>7. QED
  BY <1>3, <1>4, <1>5, <1>6 DEF PublishedStays

(* Only a scenario that has been published is played, playtests aside,        *)
(* although the check, the clone and the insert are separate steps.           *)
THEOREM PlayedPublished == Spec => []PlayedWasPublished
<1>1. PublishedStays => PlayedWasPublished
  BY DEF PublishedStays
<1>2. QED
  BY <1>1, TypeCorrect, PublishedInit, PublishedStep, PTL DEF Spec

-----------------------------------------------------------------------------
(* Publish jobs. *)

NoPatch == \A c \in Calls : call[c].op = "update" => call[c].pc # "done"

(* While no PATCH got in, a job that runs finds the scenario still            *)
(* "publishing", or archived or deleted under it.                             *)
JobHoldsStatus ==
  NoPatch => /\ OneJobAtATime
             /\ \A c \in Calls : JobRuns(c) => Missing \/ scenario.status = "publishing"

LEMMA JobInit == Init => JobHoldsStatus
BY DEF Init, JobHoldsStatus, OneJobAtATime, JobRuns

(* An answered call is over.                                                  *)
LEMMA DoneStays ==
  ASSUME TypeOK, [Next]_vars, NEW c \in Calls, call[c].pc = "done"
  PROVE  call'[c] = call[c]
<1> USE TypeParts DEF CallRecords
<1>1. ASSUME NEW d \in Calls, StartPublish(d) \/ UpdateReads(d) \/ DeleteReads(d)
                               \/ \E op \in Creations : CreateReads(d, op)
      PROVE  call'[c] = call[c]
  BY <1>1 DEF StartPublish, UpdateReads, DeleteReads, CreateReads, Answer, Read
<1>2. ASSUME NEW d \in Calls, UpdateWrites(d) \/ DeleteCounts(d) \/ DeleteRemoves(d)
                               \/ DeleteArchives(d)
      PROVE  call'[c] = call[c]
  BY <1>2 DEF UpdateWrites, DeleteCounts, DeleteRemoves, RemoveRow, DeleteArchives, Answer, At
<1>3. ASSUME NEW d \in Calls, CreateClones(d) \/ CloneFails(d) \/ CreateInserts(d)
      PROVE  call'[c] = call[c]
  BY <1>3 DEF CreateClones, CloneFails, CreateInserts, Answer
<1>4. CASE Restart
  BY <1>4 DEF Restart
<1>5. CASE UNCHANGED call
  BY <1>5
<1>6. QED
  BY <1>1, <1>2, <1>3, <1>4, <1>5
     DEF Next, JobStep, JobLoads, JobRequestsIngest, JobPublishes, JobFails, JobCommits,
         TemplateRetires, TemplateWrites, TemplateFails, vars

LEMMA JobHoldsStep == TypeOK /\ JobHoldsStatus /\ [Next]_vars => JobHoldsStatus'
<1> DEFINE Holds == \A c \in Calls : JobRuns(c) => Missing \/ scenario.status = "publishing"
<1> SUFFICES ASSUME TypeOK, JobHoldsStatus, [Next]_vars, NoPatch'
             PROVE  OneJobAtATime' /\ Holds'
  BY DEF JobHoldsStatus
<1> USE TypeParts
<1>1. OneJobAtATime /\ Holds
  BY DoneStays DEF JobHoldsStatus, NoPatch
<1>2. ASSUME NEW d \in Calls, StartPublish(d) PROVE OneJobAtATime' /\ Holds'
  <2>1. CASE UNCHANGED <<scenario, job>>
    BY <1>1, <2>1 DEF OneJobAtATime, JobRuns, Missing
  <2>2. CASE ~Missing /\ scenario.status # "publishing"
    <3>1. \A c \in Calls : ~JobRuns(c)
      BY <1>1, <2>2
    <3>2. scenario'.status = "publishing" /\ \A c \in Calls \ {d} : job'[c] = job[c]
      BY <1>2, <2>2 DEF StartPublish, Rows, JobRecords
    <3>3. QED
      BY <3>1, <3>2 DEF OneJobAtATime, JobRuns
  <2>3. QED
    BY <1>2, <2>1, <2>2 DEF StartPublish
<1>3. ASSUME NEW d \in Calls, JobLoads(d) \/ JobRequestsIngest(d) PROVE OneJobAtATime' /\ Holds'
  <2>1. scenario' = scenario /\ \A c \in Calls : JobRuns(c)' => JobRuns(c)
    BY <1>3 DEF JobLoads, JobRequestsIngest, JobRuns, JobRecords
  <2>2. QED
    BY <1>1, <2>1 DEF OneJobAtATime, Missing
<1>4. ASSUME NEW d \in Calls, JobPublishes(d) \/ JobFails(d) PROVE OneJobAtATime' /\ Holds'
  <2>1. \A c \in Calls \ {d} : ~JobRuns(c)
    BY <1>1, <1>4 DEF OneJobAtATime, JobRuns, JobPublishes, JobFails
  <2>2. job'[d].pc = "over" /\ \A c \in Calls \ {d} : job'[c] = job[c]
    BY <1>4 DEF JobPublishes, JobFails, JobCommits, JobRecords
  <2>3. \A c \in Calls : ~JobRuns(c)'
    BY <2>1, <2>2 DEF JobRuns
  <2>4. QED
    BY <2>3 DEF OneJobAtATime
<1>5. ASSUME UNCHANGED <<scenario, job>> PROVE OneJobAtATime' /\ Holds'
  BY <1>1, <1>5 DEF OneJobAtATime, JobRuns, Missing
<1>6. ASSUME NEW d \in Calls, UpdateWrites(d) PROVE UNCHANGED <<scenario, job>>
  <2>1. call'[d].op = "update" /\ call'[d].pc # "done"
    BY <1>6 DEF UpdateWrites, Answer, CallRecords, NoPatch
  <2>2. QED
    BY <1>6, <2>1 DEF UpdateWrites, Answer, CallRecords
<1>7. ASSUME NEW d \in Calls, DeleteRemoves(d) PROVE OneJobAtATime' /\ Holds'
  <2>1. job' = job /\ (scenario' = scenario \/ ~scenario'.exists)
    BY <1>7 DEF DeleteRemoves, RemoveRow, Rows
  <2>2. QED
    BY <1>1, <2>1 DEF OneJobAtATime, JobRuns, Missing
<1>8. ASSUME NEW d \in Calls, DeleteArchives(d) PROVE OneJobAtATime' /\ Holds'
  <2> DEFINE seen == call[d].seen
             new == [seen EXCEPT !.status = "archived"]
  <2>1. seen \in Rows /\ new \in Rows /\ new.exists = seen.exists /\ new.status = "archived"
    BY DEF CallRecords, Rows
  <2>2. scenario'.exists = scenario.exists /\ scenario'.status \in {"archived", scenario.status}
    BY <1>8, <2>1, FlushColumns DEF DeleteArchives
  <2>3. job' = job
    BY <1>8 DEF DeleteArchives
  <2>4. QED
    BY <1>1, <2>2, <2>3 DEF OneJobAtATime, JobRuns, Missing
<1>9. CASE Restart
  <2>1. scenario' = scenario /\ \A c \in Calls : JobRuns(c)' => JobRuns(c)
    BY <1>9 DEF Restart, JobRuns, JobRecords
  <2>2. QED
    BY <1>1, <2>1 DEF OneJobAtATime, Missing
<1>10. QED
  BY <1>2, <1>3, <1>4, <1>5, <1>6, <1>7, <1>8, <1>9
     DEF Next, JobStep, TemplateRetires, TemplateWrites, TemplateFails, UpdateReads, DeleteReads,
         DeleteCounts, CreateReads, CreateClones, CloneFails, CreateInserts, vars

(* Without a PATCH in between, start_publish's lock and 409 keep two publish  *)
(* jobs of a scenario apart, whatever is deleted or restarted meanwhile.      *)
THEOREM JobsApart == Spec => []JobsApartUnlessPatched
<1>1. JobHoldsStatus => JobsApartUnlessPatched
  BY DEF JobHoldsStatus, JobsApartUnlessPatched, NoPatch
<1>2. QED
  BY <1>1, TypeCorrect, JobInit, JobHoldsStep, PTL DEF Spec

(* The two properties that the run checks, assembled from their parts.        *)
THEOREM PlayedKept == Spec => []PlayedIsKept
BY TypeCorrect, PlayedPublished, PlaythroughsKept, PTL DEF PlayedIsKept

THEOREM ListingEarned == Spec => ListingIsEarned
BY LiveIsChecked, ListingIsStable DEF ListingIsEarned
=============================================================================
