------------------------ MODULE MemoryIngestionProofs ------------------------
(* The memory layer's ingestion, for any number of turns, batches, threads,   *)
(* runs and errors: what the journal calls completed is in all three stores   *)
(* and was completed once, what failed cleanly cannot be found, no superseded *)
(* fact is lost, and what is reported of a batch is true.                     *)
(*                                                                            *)
(* The argument is ownership: an attempt is held by one thread at most, every *)
(* other thread changes nothing of it but whether it is current, and what     *)
(* the three stores say of it follows from the stage its thread is in.        *)
EXTENDS MemoryIngestion, SequenceTheorems, TLAPS

StageNames == {"idle", "group", "begin", "extract", "embed_mark", "persist",
               "verify_mark", "verify", "undo", "undo_one"}
Handling == {"embed_mark", "persist", "verify_mark", "verify", "undo_one"}
Undoings == {"undo", "undo_one"}

Run == [at : StageNames, batch : Batches \cup {Idle.batch}, todo : Seq(Turns), group : Seq(Turns),
        solo : BOOLEAN, pending : Seq(Nat), i : Nat \ {0}, undo : Seq(Nat), fail : Seq(Nat),
        kind : Failures, results : [Turns -> JobStates]]

Job == [state : JobStates, last : JobStates \ (Failures \cup {"absent"})]

Fact(as) == [turn : Turns, priors : SUBSET as, graph : BOOLEAN, current : BOOLEAN,
             archived : BOOLEAN, embedding : {"none", "active", "inactive"},
             indexed : BOOLEAN, fate : {"running", "completed", "failed", "repair", "dead"}]

(* The attempts a run still answers for. *)
Held(r) == Members(r.pending) \cup Members(r.undo) \cup Members(r.fail)

(* A run knows its batch, its turn and its place in the group. *)
Placed(r) ==
  /\ r.at # "idle" => r.batch \in Batches
  /\ r.at = "extract" => r.group # <<>>
  /\ r.at \in Handling => r.i <= Len(r.pending)

Ordered(s) == \A m, n \in DOMAIN s : m < n => s[m] < s[n]

WorkTyped == work \in [Workers -> Run]

Typed == TypeOK /\ WorkTyped /\ \A w \in Workers : Placed(work[w])

-----------------------------------------------------------------------------
(* Sequences. *)

(* A sequence mapped element by element. *)
LEMMA Remapped ==
  ASSUME NEW S, NEW T, NEW s \in Seq(S), NEW e, DOMAIN e = DOMAIN s, e = [x \in DOMAIN s |-> e[x]],
         \A x \in DOMAIN s : e[x] \in T
  PROVE  e \in Seq(T) /\ Len(e) = Len(s)
<1>1. Len(s) \in Nat /\ DOMAIN s = 1 .. Len(s)
  BY LenProperties
<1>2. e \in [1 .. Len(s) -> T]
  BY <1>1
<1>3. e \in Seq(T)
  BY <1>1, <1>2, IsASeq
<1>4. QED
  BY <1>1, <1>3, LenProperties

LEMMA AppendMembers ==
  ASSUME NEW s \in Seq(Nat), NEW x \in Nat
  PROVE  /\ Append(s, x) \in Seq(Nat) /\ Append(s, x) # <<>>
         /\ DOMAIN Append(s, x) = DOMAIN s \cup {Len(s) + 1}
         /\ Append(s, x)[Len(s) + 1] = x
         /\ \A n \in DOMAIN s : Append(s, x)[n] = s[n] /\ n < Len(s) + 1
         /\ Members(Append(s, x)) = Members(s) \cup {x}
<1>1. /\ Append(s, x) \in Seq(Nat) /\ Append(s, x) # <<>> /\ Len(Append(s, x)) = Len(s) + 1
      /\ \A n \in 1 .. Len(s) : Append(s, x)[n] = s[n]
      /\ Append(s, x)[Len(s) + 1] = x
  BY AppendProperties
<1>2. Len(s) \in Nat /\ DOMAIN s = 1 .. Len(s) /\ DOMAIN Append(s, x) = 1 .. Len(s) + 1
  BY <1>1, LenProperties
<1>3. DOMAIN Append(s, x) = DOMAIN s \cup {Len(s) + 1}
  BY <1>2
<1>4. \A n \in DOMAIN s : Append(s, x)[n] = s[n] /\ n < Len(s) + 1
  BY <1>1, <1>2
<1>5. Members(Append(s, x)) = Members(s) \cup {x}
  BY <1>1, <1>3, <1>4 DEF Members
<1>6. QED
  BY <1>1, <1>3, <1>4, <1>5

LEMMA TailMembers ==
  ASSUME NEW S, NEW s \in Seq(S), s # <<>>
  PROVE  /\ Head(s) \in Members(s) /\ Tail(s) \in Seq(S)
         /\ Members(Tail(s)) \subseteq Members(s)
         /\ \A x \in Members(s) : x = Head(s) \/ x \in Members(Tail(s))
<1>1. /\ Len(s) \in Nat \ {0} /\ DOMAIN s = 1 .. Len(s) /\ Head(s) = s[1] /\ Tail(s) \in Seq(S)
      /\ Len(Tail(s)) = Len(s) - 1 /\ \A n \in 1 .. Len(Tail(s)) : Tail(s)[n] = s[n + 1]
  BY HeadTailProperties, EmptySeq, LenProperties
<1>2. DOMAIN Tail(s) = 1 .. Len(s) - 1
  BY <1>1, LenProperties
<1>3. \A n \in DOMAIN Tail(s) : Tail(s)[n] = s[n + 1] /\ n + 1 \in DOMAIN s
  BY <1>1, <1>2
<1>4. Members(Tail(s)) \subseteq Members(s)
  BY <1>3 DEF Members
<1>5. \A n \in DOMAIN s : n = 1 \/ (n - 1 \in DOMAIN Tail(s) /\ Tail(s)[n - 1] = s[n])
  BY <1>1, <1>2
<1>6. \A x \in Members(s) : x = Head(s) \/ x \in Members(Tail(s))
  BY <1>1, <1>5 DEF Members
<1>7. 1 \in DOMAIN s
  BY <1>1
<1>8. QED
  BY <1>1, <1>4, <1>6, <1>7 DEF Members

LEMMA MemberTyped ==
  ASSUME NEW S, NEW s \in Seq(S)
  PROVE  /\ Members(s) \subseteq S
         /\ s # <<>> => Head(s) \in S /\ 1 <= Len(s) /\ 1 \in DOMAIN s
         /\ Len(s) \in Nat /\ DOMAIN s = 1 .. Len(s)
<1>1. Len(s) \in Nat /\ DOMAIN s = 1 .. Len(s) /\ \A n \in 1 .. Len(s) : s[n] \in S
  BY LenProperties, ElementOfSeq
<1>2. s # <<>> => Len(s) # 0 /\ Head(s) = s[1]
  BY EmptySeq, HeadTailProperties
<1>3. QED
  BY <1>1, <1>2 DEF Members

-----------------------------------------------------------------------------
(* Types. *)

LEMMA AttemptsShape ==
  ASSUME Typed
  PROVE  /\ Len(facts) \in Nat /\ Attempts = 1 .. Len(facts)
         /\ facts \in Seq(Fact(Attempts))
         /\ \A a \in Attempts : facts[a] \in Fact(Attempts)
         /\ Len(facts) + 1 \notin Attempts
<1>1. facts \in Seq(Fact(Attempts))
  BY DEF Typed, TypeOK, Fact
<1>2. Len(facts) \in Nat /\ DOMAIN facts = 1 .. Len(facts) /\ \A a \in 1 .. Len(facts) : facts[a] \in Fact(Attempts)
  BY <1>1, LenProperties, ElementOfSeq
<1>3. QED
  BY <1>1, <1>2 DEF Attempts

LEMMA HeldAttempts ==
  ASSUME Typed, NEW w \in Workers
  PROVE  /\ work[w] \in Run /\ Held(work[w]) \subseteq Attempts
         /\ work[w].at \in Handling => /\ work[w].i \in DOMAIN work[w].pending
                                       /\ work[w].pending[work[w].i] \in Members(work[w].pending)
<1>1. work[w] \in Run /\ Held(work[w]) \subseteq Attempts
  BY DEF Typed, TypeOK, WorkTyped, Held
<1>2. work[w].pending \in Seq(Nat) /\ work[w].i \in Nat \ {0}
  BY <1>1 DEF Run
<1>3. DOMAIN work[w].pending = 1 .. Len(work[w].pending) /\ Len(work[w].pending) \in Nat
  BY <1>2, MemberTyped
<1>4. work[w].at \in Handling => work[w].i \in DOMAIN work[w].pending
  BY <1>2, <1>3 DEF Typed, Placed
<1>5. QED
  BY <1>1, <1>4 DEF Members

LEMMA SetRun ==
  ASSUME Typed, NEW w \in Workers, NEW r \in Run, Set(w, r)
  PROVE  WorkTyped' /\ work'[w] = r /\ \A v \in Workers \ {w} : work'[v] = work[v]
BY DEF Typed, WorkTyped, Set

LEMMA IdleRun == Idle \in Run
<1>1. <<>> \in Seq(Turns) /\ <<>> \in Seq(Nat)
  BY EmptySeq
<1>2. QED
  BY <1>1 DEF Idle, Run, StageNames, Failures, JobStates

(* A job moved forward by its journal: a completed job never is. *)
LEMMA JobMoves ==
  ASSUME Typed, NEW t \in Turns, NEW new \in JobStates \ {"absent"}, Transition(t, new)
  PROVE  /\ jobs' \in [Turns -> Job] /\ jobs[t].state # "completed"
         /\ jobs'[t].state = new
         /\ \A u \in Turns \ {t} : jobs'[u] = jobs[u]
<1>1. jobs \in [Turns -> Job] /\ jobs[t] \in Job
  BY DEF Typed, TypeOK, Job
<1>2. jobs[t].state # "completed" /\ jobs[t].state # "absent" /\ jobs[t].state # "terminal_failed"
  BY DEF Transition, IsLegal, InFlight
<1> DEFINE moved == Moved(jobs[t], new)
<1>3. moved \in Job /\ moved.state = new
  BY <1>1, <1>2 DEF Moved, Job, JobStates, InFlight, Failures
<1>4. jobs' = [jobs EXCEPT ![t] = moved]
  BY <1>1 DEF Transition
<1> HIDE DEF moved
<1>5. QED
  BY <1>1, <1>2, <1>3, <1>4

(* The same chunks are completed after the step as before. *)
JobsKept ==
  /\ jobs' \in [Turns -> Job]
  /\ \A t \in Turns : jobs'[t].state = "completed" <=> jobs[t].state = "completed"

LEMMA OtherMove ==
  ASSUME Typed, NEW t \in Turns, NEW new \in JobStates \ {"absent", "completed"}, SafeTransition(t, new)
  PROVE  JobsKept
<1>1. CASE Transition(t, new)
  BY <1>1, JobMoves DEF JobsKept
<1>2. CASE UNCHANGED jobs
  BY <1>2 DEF JobsKept, Typed, TypeOK, Job
<1>3. QED
  BY <1>1, <1>2 DEF SafeTransition

(* What a mapped assignment to the facts needs. *)
LEMMA FactsMapped ==
  ASSUME Typed, DOMAIN facts' = Attempts, facts' = [a \in Attempts |-> facts'[a]],
         \A a \in Attempts : facts'[a] \in Fact(Attempts)
  PROVE  facts' \in Seq(Fact(Attempts)) /\ Attempts' = Attempts /\ facts' \in Seq(Fact(Attempts))'
<1>1. facts' \in Seq(Fact(Attempts)) /\ Len(facts') = Len(facts)
  <2>1. facts \in Seq(Fact(Attempts)) /\ DOMAIN facts = Attempts
    BY AttemptsShape DEF Attempts
  <2>2. QED
    BY <2>1, Remapped
<1>2. Attempts' = Attempts
  BY DEF Attempts
<1>3. QED
  BY <1>1, <1>2 DEF Fact

-----------------------------------------------------------------------------
(* What each step makes of its thread's run. *)

Goes(w, at, pending, i, undo, fail) ==
  /\ WorkTyped' /\ Placed(work'[w]) /\ \A v \in Workers \ {w} : work'[v] = work[v]
  /\ work'[w].at = at /\ work'[w].pending = pending /\ work'[w].i = i
  /\ work'[w].undo = undo /\ work'[w].fail = fail

Tells(w, results) == work'[w].batch = work[w].batch /\ work'[w].results = results

LEMMA GoesIdle ==
  ASSUME Typed, NEW w \in Workers, Set(w, Idle)
  PROVE  Goes(w, "idle", <<>>, 1, <<>>, <<>>) /\ work'[w].results = [t \in Turns |-> "absent"]
<1>1. Idle \in Run
  BY IdleRun
<1>2. WorkTyped' /\ work'[w] = Idle /\ \A v \in Workers \ {w} : work'[v] = work[v]
  BY <1>1, SetRun
<1>3. QED
  BY <1>2 DEF Goes, Placed, Idle, Handling

LEMMA StartGoes ==
  ASSUME Typed, NEW w \in Workers, Start(w)
  PROVE  /\ Goes(w, "group", <<>>, 1, <<>>, <<>>)
         /\ work'[w].results = [t \in Turns |-> "absent"]
         /\ work'[w].batch = Head(queue) /\ Head(queue) \in Batches
<1>1. Idle \in Run
  BY IdleRun
<1>2. Head(queue) \in Batches /\ batches[Head(queue)].turns \in Seq(Turns)
  <2>1. queue \in Seq(Batches) /\ queue # <<>>
    BY DEF Start, Typed, TypeOK
  <2>2. Head(queue) \in Batches
    BY <2>1, MemberTyped
  <2>3. batches[Head(queue)].turns \in Submissions \cup {<<>>}
    BY <2>2 DEF Typed, TypeOK
  <2>4. QED
    BY <2>2, <2>3, EmptySeq, SubmissionsAssumption
<1> DEFINE r == [Idle EXCEPT !.at = "group", !.batch = Head(queue), !.todo = batches[Head(queue)].turns]
<1>3. /\ r \in Run /\ r.at = "group" /\ r.batch = Head(queue) /\ r.pending = Idle.pending /\ r.i = Idle.i
      /\ r.undo = Idle.undo /\ r.fail = Idle.fail /\ r.results = Idle.results
  BY <1>1, <1>2 DEF Run, StageNames
<1>4. Set(w, r)
  BY DEF Start
<1> HIDE DEF r
<1>5. WorkTyped' /\ work'[w] = r /\ \A v \in Workers \ {w} : work'[v] = work[v]
  BY <1>3, <1>4, SetRun
<1>6. QED
  BY <1>2, <1>3, <1>5 DEF Goes, Placed, Idle, Handling

LEMMA NextGroupGoes ==
  ASSUME Typed, NEW w \in Workers, NextGroup(w)
  PROVE  /\ Goes(w, "begin", <<>>, 1, work[w].undo, work[w].fail)
         /\ Tells(w, work[w].results)
<1> DEFINE r == work[w]
           n == IF Len(r.todo) < GroupSize THEN Len(r.todo) ELSE GroupSize
           alone == (n = 1)
           s == [r EXCEPT !.at = "begin", !.group = SubSeq(r.todo, 1, n),
                          !.todo = SubSeq(r.todo, n + 1, Len(r.todo)),
                          !.solo = alone, !.pending = <<>>, !.i = 1]
<1>1. r \in Run /\ r.at = "group"
  BY HeldAttempts DEF NextGroup
<1>2. SubSeq(r.todo, 1, n) \in Seq(Turns) /\ SubSeq(r.todo, n + 1, Len(r.todo)) \in Seq(Turns)
  <2>1. r.todo \in Seq(Turns)
    BY <1>1 DEF Run
  <2>2. Len(r.todo) \in Nat /\ n \in Nat /\ n <= Len(r.todo)
    BY <2>1, MemberTyped, GroupSizeAssumption
  <2>3. QED
    BY <2>1, <2>2
<1>3. <<>> \in Seq(Nat) /\ 1 \in Nat \ {0}
  BY EmptySeq
<1>4. alone \in BOOLEAN
  OBVIOUS
<1>5. Set(w, s)
  BY DEF NextGroup
<1> HIDE DEF alone, n
<1>6. /\ s \in Run /\ s.at = "begin" /\ s.pending = <<>> /\ s.i = 1 /\ s.undo = r.undo /\ s.fail = r.fail
      /\ s.batch = r.batch /\ s.results = r.results
  BY <1>1, <1>2, <1>3, <1>4 DEF Run, StageNames
<1>7. r.batch \in Batches
  BY <1>1 DEF Typed, Placed
<1> HIDE DEF s
<1>8. WorkTyped' /\ work'[w] = s /\ \A v \in Workers \ {w} : work'[v] = work[v]
  BY <1>6, <1>5, SetRun
<1>9. QED
  BY <1>6, <1>7, <1>8 DEF Goes, Tells, Placed, Handling

(* A run that goes on, to any stage but the extraction. *)
LEMMA GoesOn ==
  ASSUME Typed, NEW w \in Workers, work[w].at # "idle", NEW s \in Run, Set(w, s),
         s.at # "idle", s.at # "extract", s.at \in Handling => s.i <= Len(s.pending), s.batch = work[w].batch
  PROVE  Goes(w, s.at, s.pending, s.i, s.undo, s.fail) /\ Tells(w, s.results)
<1>1. work[w].batch \in Batches
  BY DEF Typed, Placed
<1>2. WorkTyped' /\ work'[w] = s /\ \A v \in Workers \ {w} : work'[v] = work[v]
  BY SetRun
<1>3. QED
  BY <1>1, <1>2 DEF Goes, Tells, Placed

LEMMA BeginGoes ==
  ASSUME Typed, NEW w \in Workers, Begin(w)
  PROVE  /\ Head(work[w].group) \in Turns
         /\ \E at \in {"begin", "extract"} : Goes(w, at, work[w].pending, work[w].i, work[w].undo, work[w].fail)
         /\ \/ Tells(w, work[w].results)
            \/ /\ Tells(w, [work[w].results EXCEPT ![Head(work[w].group)] = jobs'[Head(work[w].group)].state])
               /\ jobs[Head(work[w].group)].state # "absent"
<1> DEFINE r == work[w]
           t == Head(r.group)
           job == IF jobs[t].state = "absent" THEN [jobs[t] EXCEPT !.state = "pending_graph"] ELSE jobs[t]
           s == [r EXCEPT !.group = Tail(r.group), !.results[t] = job.state]
           e == [r EXCEPT !.at = "extract"]
<1>1. r \in Run /\ r.at = "begin" /\ r.group \in Seq(Turns) /\ r.group # <<>>
  BY HeldAttempts DEF Begin, Run
<1>2. t \in Turns /\ Tail(r.group) \in Seq(Turns) /\ r.batch \in Batches
  BY <1>1, MemberTyped, TailMembers DEF Typed, Placed
<1>3. job \in Job /\ jobs' = [jobs EXCEPT ![t] = job] /\ jobs \in [Turns -> Job]
  <2>1. jobs \in [Turns -> Job] /\ jobs[t] \in Job
    BY <1>2 DEF Typed, TypeOK, Job
  <2>2. job \in Job
    BY <2>1 DEF Job, JobStates, InFlight
  <2>3. QED
    BY <2>1, <2>2 DEF Begin
<1>4. jobs'[t] = job
  BY <1>2, <1>3
<1>5. CASE job.state \in {"completed", "terminal_failed"}
  <2>1. Set(w, s)
    BY <1>5 DEF Begin
  <2> DEFINE told == [r.results EXCEPT ![t] = job.state]
  <2>2. told \in [Turns -> JobStates]
    BY <1>1, <1>2, <1>3 DEF Run, Job
  <2>3. s = [r EXCEPT !.group = Tail(r.group), !.results = told]
    BY <1>1 DEF Run
  <2> HIDE DEF told
  <2>4. /\ s \in Run /\ s.at = "begin" /\ s.batch = r.batch /\ s.pending = r.pending /\ s.i = r.i
        /\ s.undo = r.undo /\ s.fail = r.fail /\ s.results = told
    BY <1>1, <1>2, <2>2, <2>3 DEF Run
  <2>5. s.at # "idle" /\ s.at # "extract" /\ s.at \notin Handling
    BY <2>4 DEF Handling
  <2>6. Goes(w, s.at, s.pending, s.i, s.undo, s.fail) /\ Tells(w, s.results)
    BY <1>1, <2>1, <2>4, <2>5, GoesOn
  <2>7. jobs[t].state # "absent"
    BY <1>2, <1>3, <1>5 DEF Job
  <2>8. QED
    BY <1>2, <1>4, <2>4, <2>6, <2>7 DEF told
<1>6. CASE job.state \notin {"completed", "terminal_failed"}
  <2>1. Set(w, e)
    BY <1>6 DEF Begin
  <2>2. /\ e \in Run /\ e.at = "extract" /\ e.batch = r.batch /\ e.pending = r.pending /\ e.i = r.i
        /\ e.undo = r.undo /\ e.fail = r.fail /\ e.results = r.results /\ e.group = r.group
    BY <1>1 DEF Run, StageNames
  <2> HIDE DEF e
  <2>3. WorkTyped' /\ work'[w] = e /\ \A v \in Workers \ {w} : work'[v] = work[v]
    BY <2>1, <2>2, SetRun
  <2>4. Goes(w, "extract", r.pending, r.i, r.undo, r.fail) /\ Tells(w, r.results)
    BY <1>1, <1>2, <2>2, <2>3 DEF Goes, Tells, Placed, Handling
  <2>5. QED
    BY <1>2, <2>4
<1>7. QED
  BY <1>5, <1>6

LEMMA ExtractGoes ==
  ASSUME Typed, NEW w \in Workers, Extract(w)
  PROVE  /\ work[w].at = "extract" /\ Head(work[w].group) \in Turns
         /\ Goes(w, "begin", Append(work[w].pending, Len(facts) + 1), work[w].i, work[w].undo, work[w].fail)
         /\ Tells(w, work[w].results)
<1> DEFINE r == work[w]
           more == Append(r.pending, Len(facts) + 1)
           s == [r EXCEPT !.at = "begin", !.group = Tail(r.group), !.pending = more]
<1>1. r \in Run /\ r.at = "extract" /\ r.group \in Seq(Turns) /\ r.group # <<>> /\ r.pending \in Seq(Nat)
  BY HeldAttempts DEF Extract, Run, Typed, Placed
<1>2. Head(r.group) \in Turns /\ Tail(r.group) \in Seq(Turns)
  BY <1>1, MemberTyped, TailMembers
<1>3. more \in Seq(Nat)
  BY <1>1, AttemptsShape, AppendMembers
<1>4. Set(w, s)
  BY <1>1 DEF Extract, Run
<1> HIDE DEF more
<1>5. /\ s \in Run /\ s.at = "begin" /\ s.batch = r.batch /\ s.pending = more /\ s.i = r.i
      /\ s.undo = r.undo /\ s.fail = r.fail /\ s.results = r.results
  BY <1>1, <1>2, <1>3 DEF Run, StageNames
<1> HIDE DEF s
<1>6. Goes(w, s.at, s.pending, s.i, s.undo, s.fail) /\ Tells(w, s.results)
  BY <1>1, <1>4, <1>5, GoesOn DEF Handling
<1>7. QED
  BY <1>1, <1>2, <1>5, <1>6 DEF more

LEMMA ExtractFailsGoes ==
  ASSUME Typed, NEW w \in Workers, NEW kind \in Failures, ExtractFails(w, kind)
  PROVE  /\ work[w].at = "extract" /\ Head(work[w].group) \in Turns
         /\ Goes(w, "begin", work[w].pending, work[w].i, work[w].undo, work[w].fail)
         /\ Tells(w, [work[w].results EXCEPT ![Head(work[w].group)] = kind])
<1> DEFINE r == work[w]
           t == Head(r.group)
           told == [r.results EXCEPT ![t] = kind]
           s == [r EXCEPT !.at = "begin", !.group = Tail(r.group), !.results = told]
<1>1. r \in Run /\ r.at = "extract" /\ r.group \in Seq(Turns) /\ r.group # <<>>
  BY HeldAttempts DEF ExtractFails, Run, Typed, Placed
<1>2. t \in Turns /\ Tail(r.group) \in Seq(Turns)
  BY <1>1, MemberTyped, TailMembers
<1>3. told \in [Turns -> JobStates]
  BY <1>1, <1>2 DEF Run, JobStates
<1>4. Set(w, s)
  BY <1>1 DEF ExtractFails, Run
<1> HIDE DEF told
<1>5. /\ s \in Run /\ s.at = "begin" /\ s.batch = r.batch /\ s.pending = r.pending /\ s.i = r.i
      /\ s.undo = r.undo /\ s.fail = r.fail /\ s.results = told
  BY <1>1, <1>2, <1>3 DEF Run, StageNames
<1> HIDE DEF s
<1>6. Goes(w, s.at, s.pending, s.i, s.undo, s.fail) /\ Tells(w, s.results)
  BY <1>1, <1>4, <1>5, GoesOn DEF Handling
<1>7. QED
  BY <1>1, <1>2, <1>5, <1>6 DEF told

LEMMA SkipGroupGoes ==
  ASSUME Typed, NEW w \in Workers, SkipGroup(w)
  PROVE  /\ Goes(w, "group", work[w].pending, work[w].i, work[w].undo, work[w].fail)
         /\ Tells(w, work[w].results)
<1> DEFINE r == work[w]
           s == [r EXCEPT !.at = "group"]
<1>1. r \in Run /\ r.at = "begin" /\ Set(w, s)
  BY HeldAttempts DEF SkipGroup
<1>2. /\ s \in Run /\ s.at = "group" /\ s.batch = r.batch /\ s.pending = r.pending /\ s.i = r.i
      /\ s.undo = r.undo /\ s.fail = r.fail /\ s.results = r.results
  BY <1>1 DEF Run, StageNames
<1> HIDE DEF s
<1>3. Goes(w, s.at, s.pending, s.i, s.undo, s.fail) /\ Tells(w, s.results)
  BY <1>1, <1>2, GoesOn DEF Handling
<1>4. QED
  BY <1>2, <1>3

(* A stage of the group that fails. *)
LEMMA FailingGoes ==
  ASSUME Typed, NEW w \in Workers, work[w].at # "idle", NEW undo \in {<<>>, work[w].pending},
         NEW kind \in Failures, Set(w, Failing(work[w], undo, kind))
  PROVE  /\ Goes(w, "undo", <<>>, 1, undo, work[w].pending)
         /\ Tells(w, work[w].results)
<1> DEFINE r == work[w]
           s == Failing(r, undo, kind)
<1>1. r \in Run /\ r.at # "idle" /\ undo \in Seq(Nat) /\ <<>> \in Seq(Nat) /\ 1 \in Nat \ {0} /\ r.pending \in Seq(Nat)
  <2>1. r \in Run /\ r.pending \in Seq(Nat)
    BY HeldAttempts DEF Run
  <2>2. <<>> \in Seq(Nat)
    BY EmptySeq
  <2>3. CASE undo = <<>>
    BY <2>1, <2>2, <2>3
  <2>4. CASE undo = r.pending
    BY <2>1, <2>2, <2>4
  <2>5. QED
    BY <2>3, <2>4
<1>2. /\ s \in Run /\ s.at = "undo" /\ s.batch = r.batch /\ s.pending = <<>> /\ s.i = 1
      /\ s.undo = undo /\ s.fail = r.pending /\ s.results = r.results
  BY <1>1 DEF Run, StageNames, Failing
<1> HIDE DEF s
<1>3. Goes(w, s.at, s.pending, s.i, s.undo, s.fail) /\ Tells(w, s.results)
  BY <1>1, <1>2, GoesOn DEF Handling, s
<1>4. QED
  BY <1>2, <1>3

LEMMA WriteGraphGoes ==
  ASSUME Typed, NEW w \in Workers, WriteGraph(w)
  PROVE  /\ work[w].at = "begin"
         /\ Goes(w, "embed_mark", work[w].pending, 1, work[w].undo, work[w].fail)
         /\ Tells(w, work[w].results)
<1> DEFINE r == work[w]
           s == [r EXCEPT !.at = "embed_mark", !.i = 1]
<1>1. r \in Run /\ r.at = "begin" /\ Set(w, s) /\ r.pending # <<>> /\ 1 \in Nat \ {0} /\ r.pending \in Seq(Nat)
  BY HeldAttempts DEF WriteGraph, ToWrite, Run
<1>2. /\ s \in Run /\ s.at = "embed_mark" /\ s.batch = r.batch /\ s.pending = r.pending /\ s.i = 1
      /\ s.undo = r.undo /\ s.fail = r.fail /\ s.results = r.results
  BY <1>1 DEF Run, StageNames
<1>3. 1 <= Len(r.pending)
  BY <1>1, MemberTyped
<1> HIDE DEF s
<1>4. Goes(w, s.at, s.pending, s.i, s.undo, s.fail) /\ Tells(w, s.results)
  BY <1>1, <1>2, <1>3, GoesOn DEF Handling
<1>5. QED
  BY <1>1, <1>2, <1>4

(* One transition per attempt; the last one opens the next stage. *)
LEMMA MarkGoes ==
  ASSUME Typed, NEW w \in Workers, NEW at \in {"embed_mark", "verify_mark"}, NEW next \in {"persist", "verify"}, NEW new,
         Mark(w, at, new, next)
  PROVE  /\ work[w].at = at
         /\ \/ /\ Transition(facts[work[w].pending[work[w].i]].turn, new)
               /\ \/ Goes(w, at, work[w].pending, work[w].i + 1, work[w].undo, work[w].fail)
                  \/ Goes(w, next, work[w].pending, 1, work[w].undo, work[w].fail)
            \/ /\ UNCHANGED jobs
               /\ \/ Goes(w, "undo", <<>>, 1, work[w].pending, work[w].pending)
                  \/ at = "embed_mark" /\ Goes(w, "undo", <<>>, 1, <<>>, work[w].pending)
         /\ Tells(w, work[w].results)
<1> DEFINE r == work[w]
           t == facts[r.pending[r.i]].turn
           further == [r EXCEPT !.i = r.i + 1]
           opened == [r EXCEPT !.at = next, !.i = 1]
<1>1. /\ r \in Run /\ r.at = at /\ r.at \in Handling /\ r.at # "idle" /\ r.pending \in Seq(Nat) /\ r.i \in Nat \ {0}
      /\ r.i <= Len(r.pending) /\ Len(r.pending) \in Nat /\ r.i + 1 \in Nat \ {0} /\ 1 \in Nat \ {0}
      /\ next \in StageNames
  <2>1. r.at = at
    BY DEF Mark
  <2>2. r \in Run /\ Placed(r)
    BY DEF Typed, WorkTyped
  <2>3. r.at \in Handling /\ r.at # "idle" /\ next \in StageNames
    BY <2>1 DEF Handling, StageNames
  <2>4. r.pending \in Seq(Nat) /\ r.i \in Nat \ {0}
    BY <2>2 DEF Run
  <2>5. r.i <= Len(r.pending)
    BY <2>2, <2>3 DEF Placed
  <2>6. Len(r.pending) \in Nat /\ r.i + 1 \in Nat \ {0} /\ 1 \in Nat \ {0}
    BY <2>4
  <2>7. QED
    BY <2>1, <2>2, <2>3, <2>4, <2>5, <2>6
<1>2. CASE Transition(t, new) /\ r.i < Len(r.pending) /\ Set(w, further)
  <2>1. /\ further \in Run /\ further.at = at /\ further.batch = r.batch /\ further.pending = r.pending
        /\ further.i = r.i + 1 /\ further.undo = r.undo /\ further.fail = r.fail /\ further.results = r.results
    BY <1>1 DEF Run
  <2> HIDE DEF further
  <2>2. Goes(w, further.at, further.pending, further.i, further.undo, further.fail) /\ Tells(w, further.results)
    BY <1>1, <1>2, <2>1, GoesOn
  <2>3. QED
    BY <1>1, <1>2, <2>1, <2>2
<1>3. CASE Transition(t, new) /\ Set(w, opened)
  <2>1. /\ opened \in Run /\ opened.at = next /\ opened.batch = r.batch /\ opened.pending = r.pending
        /\ opened.i = 1 /\ opened.undo = r.undo /\ opened.fail = r.fail /\ opened.results = r.results
    BY <1>1 DEF Run, StageNames
  <2> HIDE DEF opened
  <2>2. Goes(w, opened.at, opened.pending, opened.i, opened.undo, opened.fail) /\ Tells(w, opened.results)
    BY <1>1, <1>3, <2>1, GoesOn
  <2>3. QED
    BY <1>1, <1>3, <2>1, <2>2
<1> DEFINE undo == IF at = "verify_mark" \/ r.solo THEN r.pending ELSE <<>>
<1>4. CASE UNCHANGED jobs /\ Set(w, Failing(r, undo, "retryable_failed"))
  <2>1. undo = r.pending \/ (at = "embed_mark" /\ undo = <<>>)
    OBVIOUS
  <2> HIDE DEF undo
  <2>2. Goes(w, "undo", <<>>, 1, undo, r.pending) /\ Tells(w, r.results)
    BY <1>1, <1>4, <2>1, FailingGoes DEF Failures
  <2>3. QED
    BY <1>1, <1>4, <2>1, <2>2
<1>5. QED
  <2>1. \/ Transition(t, new) /\ r.i < Len(r.pending) /\ Set(w, further)
        \/ Transition(t, new) /\ Set(w, opened)
        \/ UNCHANGED jobs /\ Set(w, Failing(r, undo, "retryable_failed"))
    BY <1>1 DEF Mark, Run
  <2>2. QED
    BY <1>2, <1>3, <1>4, <2>1

LEMMA PersistGoes ==
  ASSUME Typed, NEW w \in Workers, Persist(w)
  PROVE  /\ work[w].at = "persist"
         /\ Goes(w, "verify_mark", work[w].pending, work[w].i, work[w].undo, work[w].fail)
         /\ Tells(w, work[w].results)
<1> DEFINE r == work[w]
           s == [r EXCEPT !.at = "verify_mark"]
<1>1. r \in Run /\ r.at = "persist" /\ Set(w, s) /\ r.i <= Len(r.pending)
  BY HeldAttempts DEF Persist, Typed, Placed, Handling
<1>2. /\ s \in Run /\ s.at = "verify_mark" /\ s.batch = r.batch /\ s.pending = r.pending /\ s.i = r.i
      /\ s.undo = r.undo /\ s.fail = r.fail /\ s.results = r.results
  BY <1>1 DEF Run, StageNames
<1> HIDE DEF s
<1>3. Goes(w, s.at, s.pending, s.i, s.undo, s.fail) /\ Tells(w, s.results)
  BY <1>1, <1>2, GoesOn DEF Handling
<1>4. QED
  BY <1>1, <1>2, <1>3

(* To the next attempt of the group, or to the next group. *)
LEMMA AfterVerifyGoes ==
  ASSUME Typed, NEW w \in Workers, work[w].at # "idle", NEW s \in Run, s.batch = work[w].batch,
         Set(w, AfterVerify(s))
  PROVE  /\ \/ Goes(w, "verify", s.pending, s.i + 1, s.undo, s.fail)
            \/ Goes(w, "group", s.pending, s.i, s.undo, s.fail)
         /\ Tells(w, s.results)
<1> DEFINE further == [s EXCEPT !.at = "verify", !.i = s.i + 1]
           over == [s EXCEPT !.at = "group"]
<1>1. s.i \in Nat \ {0} /\ s.i + 1 \in Nat \ {0} /\ s.pending \in Seq(Nat) /\ Len(s.pending) \in Nat
  BY MemberTyped DEF Run
<1>2. CASE s.i < Len(s.pending)
  <2>1. Set(w, further)
    BY <1>2 DEF AfterVerify, Run
  <2>2. /\ further \in Run /\ further.at = "verify" /\ further.batch = s.batch /\ further.pending = s.pending
        /\ further.i = s.i + 1 /\ further.undo = s.undo /\ further.fail = s.fail /\ further.results = s.results
    BY <1>1 DEF Run, StageNames
  <2> HIDE DEF further
  <2>3. Goes(w, further.at, further.pending, further.i, further.undo, further.fail) /\ Tells(w, further.results)
    BY <1>1, <1>2, <2>1, <2>2, GoesOn
  <2>4. QED
    BY <2>2, <2>3
<1>3. CASE ~(s.i < Len(s.pending))
  <2>1. Set(w, over)
    BY <1>3 DEF AfterVerify
  <2>2. /\ over \in Run /\ over.at = "group" /\ over.batch = s.batch /\ over.pending = s.pending
        /\ over.i = s.i /\ over.undo = s.undo /\ over.fail = s.fail /\ over.results = s.results
    BY <1>1 DEF Run, StageNames
  <2> HIDE DEF over
  <2>3. Goes(w, over.at, over.pending, over.i, over.undo, over.fail) /\ Tells(w, over.results)
    BY <2>1, <2>2, GoesOn DEF Handling
  <2>4. QED
    BY <2>2, <2>3
<1>4. QED
  BY <1>2, <1>3

LEMMA CompleteGoes ==
  ASSUME Typed, NEW w \in Workers, Complete(w)
  PROVE  /\ work[w].at = "verify"
         /\ facts[work[w].pending[work[w].i]].turn \in Turns
         /\ \/ Goes(w, "verify", work[w].pending, work[w].i + 1, work[w].undo, work[w].fail)
            \/ Goes(w, "group", work[w].pending, work[w].i, work[w].undo, work[w].fail)
         /\ Tells(w, [work[w].results EXCEPT ![facts[work[w].pending[work[w].i]].turn] = "completed"])
<1> DEFINE r == work[w]
           t == facts[r.pending[r.i]].turn
           told == [r.results EXCEPT ![t] = "completed"]
           s == [r EXCEPT !.results = told]
<1>1. r \in Run /\ r.at = "verify" /\ r.at # "idle" /\ r.pending[r.i] \in Attempts
  BY HeldAttempts DEF Complete, Handling, Held
<1>2. t \in Turns
  BY <1>1, AttemptsShape DEF Fact
<1>3. told \in [Turns -> JobStates]
  BY <1>1, <1>2 DEF Run, JobStates
<1>4. Set(w, AfterVerify(s))
  BY <1>1 DEF Complete, Run
<1> HIDE DEF told, t
<1>5. /\ s \in Run /\ s.batch = r.batch /\ s.pending = r.pending /\ s.i = r.i
      /\ s.undo = r.undo /\ s.fail = r.fail /\ s.results = told
  BY <1>1, <1>3 DEF Run
<1> HIDE DEF s
<1>6. /\ \/ Goes(w, "verify", s.pending, s.i + 1, s.undo, s.fail)
         \/ Goes(w, "group", s.pending, s.i, s.undo, s.fail)
      /\ Tells(w, s.results)
  BY <1>1, <1>4, <1>5, AfterVerifyGoes
<1>7. QED
  BY <1>1, <1>2, <1>5, <1>6 DEF told, t

LEMMA VerifyFailsGoes ==
  ASSUME Typed, NEW w \in Workers, VerifyFails(w)
  PROVE  /\ work[w].at = "verify"
         /\ Goes(w, "undo_one", work[w].pending, work[w].i, <<work[w].pending[work[w].i]>>, <<work[w].pending[work[w].i]>>)
         /\ Tells(w, work[w].results)
<1> DEFINE r == work[w]
           one == <<r.pending[r.i]>>
           s == [r EXCEPT !.at = "undo_one", !.undo = one, !.fail = one, !.kind = "retryable_failed"]
<1>1. r \in Run /\ r.at = "verify" /\ r.pending[r.i] \in Nat /\ r.i <= Len(r.pending)
  <2>1. r \in Run /\ r.at = "verify" /\ r.pending[r.i] \in Members(r.pending)
    BY HeldAttempts DEF VerifyFails, Handling
  <2>2. QED
    BY <2>1, MemberTyped DEF Run, Typed, Placed, Handling
<1>2. one \in Seq(Nat)
  BY <1>1
<1>3. Set(w, s)
  BY DEF VerifyFails
<1> HIDE DEF one
<1>4. /\ s \in Run /\ s.at = "undo_one" /\ s.batch = r.batch /\ s.pending = r.pending /\ s.i = r.i
      /\ s.undo = one /\ s.fail = one /\ s.results = r.results
  BY <1>1, <1>2 DEF Run, StageNames, Failures
<1> HIDE DEF s
<1>5. Goes(w, s.at, s.pending, s.i, s.undo, s.fail) /\ Tells(w, s.results)
  BY <1>1, <1>3, <1>4, GoesOn DEF Handling
<1>6. QED
  BY <1>1, <1>4, <1>5 DEF one

LEMMA UndoneGoes ==
  ASSUME Typed, NEW w \in Workers, Undoing(w), Undone(w)
  PROVE  /\ work[w].at \in Undoings /\ work[w].undo \in Seq(Nat) /\ work[w].undo # <<>>
         /\ Head(work[w].undo) \in Members(work[w].undo) /\ Head(work[w].undo) \in Attempts
         /\ Goes(w, work[w].at, work[w].pending, work[w].i, Tail(work[w].undo), work[w].fail)
         /\ Tells(w, work[w].results)
<1> DEFINE r == work[w]
           s == [r EXCEPT !.undo = Tail(r.undo)]
<1>1. /\ r \in Run /\ r.at \in Undoings /\ r.undo # <<>> /\ r.undo \in Seq(Nat)
      /\ r.at \in Handling => r.i <= Len(r.pending)
  BY HeldAttempts DEF Undoing, Undoings, Run, Typed, Placed
<1>2. Tail(r.undo) \in Seq(Nat) /\ Head(r.undo) \in Members(r.undo)
  BY <1>1, TailMembers
<1>3. Set(w, s)
  BY <1>1 DEF Undone, Run
<1>4. /\ s \in Run /\ s.at = r.at /\ s.batch = r.batch /\ s.pending = r.pending /\ s.i = r.i
      /\ s.undo = Tail(r.undo) /\ s.fail = r.fail /\ s.results = r.results
  BY <1>1, <1>2 DEF Run
<1> HIDE DEF s
<1>5. Goes(w, s.at, s.pending, s.i, s.undo, s.fail) /\ Tells(w, s.results)
  BY <1>1, <1>3, <1>4, GoesOn DEF Undoings
<1>6. Head(r.undo) \in Attempts
  BY <1>2, HeldAttempts DEF Held
<1>7. QED
  BY <1>1, <1>2, <1>4, <1>5, <1>6

LEMMA RecordFailureGoes ==
  ASSUME Typed, NEW w \in Workers, RecordFailure(w)
  PROVE  /\ work[w].at \in Undoings /\ work[w].fail \in Seq(Nat) /\ work[w].fail # <<>> /\ work[w].undo = <<>>
         /\ Head(work[w].fail) \in Members(work[w].fail) /\ Head(work[w].fail) \in Attempts
         /\ facts[Head(work[w].fail)].turn \in Turns /\ work[w].kind \in Failures
         /\ \/ Goes(w, work[w].at, work[w].pending, work[w].i, <<>>, Tail(work[w].fail))
            \/ /\ Tail(work[w].fail) = <<>>
               /\ \/ /\ work[w].at = "undo_one"
                     /\ Goes(w, "verify", work[w].pending, work[w].i + 1, <<>>, <<>>)
                  \/ Goes(w, "group", work[w].pending, work[w].i, <<>>, <<>>)
         /\ Tells(w, [work[w].results EXCEPT ![facts[Head(work[w].fail)].turn] = work[w].kind])
<1> DEFINE r == work[w]
           t == facts[Head(r.fail)].turn
           told == [r.results EXCEPT ![t] = r.kind]
           s == [r EXCEPT !.fail = Tail(r.fail), !.results = told]
           over == [s EXCEPT !.at = "group"]
<1>1. /\ r \in Run /\ r.at \in Undoings /\ r.fail # <<>> /\ r.fail \in Seq(Nat) /\ r.undo = <<>>
      /\ r.at \in Handling => r.i <= Len(r.pending)
  BY HeldAttempts DEF RecordFailure, Undoings, Run, Typed, Placed
<1>2. Tail(r.fail) \in Seq(Nat) /\ Head(r.fail) \in Members(r.fail)
  BY <1>1, TailMembers
<1>3. Head(r.fail) \in Attempts
  BY <1>2, HeldAttempts DEF Held
<1>4. t \in Turns /\ r.kind \in Failures
  BY <1>1, <1>3, AttemptsShape DEF Fact, Run
<1>5. told \in [Turns -> JobStates]
  BY <1>1, <1>4 DEF Run, JobStates
<1>6. Set(w, IF Tail(r.fail) # <<>> THEN s ELSE IF r.at = "undo_one" THEN AfterVerify(s) ELSE over)
  BY <1>1 DEF RecordFailure, Run
<1> HIDE DEF told, t
<1>7. /\ s \in Run /\ s.at = r.at /\ s.batch = r.batch /\ s.pending = r.pending /\ s.i = r.i
      /\ s.undo = <<>> /\ s.fail = Tail(r.fail) /\ s.results = told
  BY <1>1, <1>2, <1>5 DEF Run
<1>8. /\ over \in Run /\ over.at = "group" /\ over.batch = r.batch /\ over.pending = r.pending /\ over.i = r.i
      /\ over.undo = <<>> /\ over.fail = Tail(r.fail) /\ over.results = told
  BY <1>7 DEF Run, StageNames
<1> HIDE DEF over
<1> HIDE DEF s
<1>9. CASE Tail(r.fail) # <<>>
  <2>1. Goes(w, s.at, s.pending, s.i, s.undo, s.fail) /\ Tells(w, s.results)
    BY <1>1, <1>6, <1>7, <1>9, GoesOn DEF Undoings
  <2>2. QED
    BY <1>1, <1>2, <1>3, <1>4, <1>7, <2>1 DEF told, t
<1>10. CASE Tail(r.fail) = <<>> /\ r.at = "undo_one"
  <2>1. /\ \/ Goes(w, "verify", s.pending, s.i + 1, s.undo, s.fail)
           \/ Goes(w, "group", s.pending, s.i, s.undo, s.fail)
        /\ Tells(w, s.results)
    BY <1>1, <1>6, <1>7, <1>10, AfterVerifyGoes
  <2>2. QED
    BY <1>1, <1>2, <1>3, <1>4, <1>7, <1>10, <2>1 DEF told, t
<1>11. CASE Tail(r.fail) = <<>> /\ r.at # "undo_one"
  <2>1. Goes(w, over.at, over.pending, over.i, over.undo, over.fail) /\ Tells(w, over.results)
    BY <1>1, <1>6, <1>8, <1>11, GoesOn DEF Undoings, Handling
  <2>2. QED
    BY <1>1, <1>2, <1>3, <1>4, <1>8, <1>11, <2>1 DEF told, t
<1>12. QED
  BY <1>9, <1>10, <1>11

-----------------------------------------------------------------------------
(* What each step makes of the facts. *)

Becomes(a, graph, archived, embedding, indexed, fate) ==
  /\ facts'[a].turn = facts[a].turn /\ facts'[a].priors = facts[a].priors
  /\ facts'[a].graph = graph /\ facts'[a].archived = archived
  /\ facts'[a].embedding = embedding /\ facts'[a].indexed = indexed
  /\ facts'[a].fate = fate

Fates == {"running", "completed", "failed", "repair", "dead"}

(* all but whether it is current *)
Kept(a) == Becomes(a, facts[a].graph, facts[a].archived, facts[a].embedding, facts[a].indexed, facts[a].fate)

FactsTyped == facts \in Seq(Fact(Attempts))

LEMMA FactFated ==
  ASSUME NEW as, NEW f \in Fact(as), NEW g, NEW fate \in Fates, g = [f EXCEPT !.fate = fate]
  PROVE  /\ g \in Fact(as) /\ g.current = f.current /\ g.graph = f.graph
         /\ g.turn = f.turn /\ g.priors = f.priors /\ g.archived = f.archived
         /\ g.embedding = f.embedding /\ g.indexed = f.indexed /\ g.fate = fate
BY DEF Fact, Fates

LEMMA FactsUnchanged ==
  ASSUME Typed, UNCHANGED facts
  PROVE  FactsTyped' /\ Attempts' = Attempts /\ \A a \in Attempts : Kept(a) /\ facts'[a].current = facts[a].current
<1>1. FactsTyped
  BY AttemptsShape DEF FactsTyped
<1>2. FactsTyped' /\ Attempts' = Attempts
  BY <1>1 DEF FactsTyped, Attempts, Fact
<1>3. QED
  BY <1>2 DEF Kept, Becomes

LEMMA FactsExtracted ==
  ASSUME Typed, NEW w \in Workers, Extract(w)
  PROVE  /\ FactsTyped' /\ Attempts' = Attempts \cup {Len(facts) + 1}
         /\ \A a \in Attempts : Kept(a) /\ facts'[a].current = facts[a].current
         /\ LET f == facts'[Len(facts) + 1] IN
            /\ f.fate = "running" /\ f.graph = FALSE /\ f.archived = FALSE
            /\ f.embedding = "none" /\ f.indexed = FALSE
<1> DEFINE t == Head(work[w].group)
           n == Len(facts) + 1
<1>1. PICK priors \in SUBSET Supersedable(t) :
         facts' = Append(facts, [turn |-> t, priors |-> priors, graph |-> FALSE, current |-> FALSE,
                                 archived |-> FALSE, embedding |-> "none", indexed |-> FALSE, fate |-> "running"])
  BY DEF Extract
<1> DEFINE f == [turn |-> t, priors |-> priors, graph |-> FALSE, current |-> FALSE,
                 archived |-> FALSE, embedding |-> "none", indexed |-> FALSE, fate |-> "running"]
<1>2. /\ Len(facts) \in Nat /\ Attempts = 1 .. Len(facts) /\ facts \in Seq(Fact(Attempts))
      /\ \A a \in Attempts : facts[a] \in Fact(Attempts)
  BY AttemptsShape
<1>3. t \in Turns /\ priors \subseteq Attempts
  BY ExtractGoes DEF Supersedable, Attempts
<1>4. f \in Fact(1 .. n)
  BY <1>2, <1>3 DEF Fact
<1>5. f.fate = "running" /\ f.graph = FALSE /\ f.archived = FALSE /\ f.embedding = "none" /\ f.indexed = FALSE
  OBVIOUS
<1>6. facts' = Append(facts, f)
  BY <1>1
<1> HIDE DEF f
<1>7. /\ facts' \in Seq(Fact(1 .. n)) /\ Len(facts') = n /\ DOMAIN facts' = 1 .. n
      /\ \A a \in 1 .. Len(facts) : facts'[a] = facts[a]
      /\ facts'[n] = f
  <2>1. Fact(Attempts) \subseteq Fact(1 .. n)
    BY <1>2 DEF Fact
  <2>2. facts \in Seq(Fact(1 .. n))
    BY <1>2, <2>1, SeqMonotonic
  <2>3. /\ Append(facts, f) \in Seq(Fact(1 .. n)) /\ Len(Append(facts, f)) = n
        /\ \A a \in 1 .. Len(facts) : Append(facts, f)[a] = facts[a]
        /\ Append(facts, f)[n] = f
    BY <1>4, <2>2, AppendProperties
  <2>4. QED
    BY <1>6, <2>3, LenProperties
<1>8. Attempts' = Attempts \cup {n} /\ Attempts' = 1 .. n
  BY <1>2, <1>7 DEF Attempts
<1>9. FactsTyped'
  BY <1>7, <1>8 DEF FactsTyped, Fact
<1>10. \A a \in Attempts : Kept(a) /\ facts'[a].current = facts[a].current
  BY <1>2, <1>7 DEF Kept, Becomes
<1>11. QED
  BY <1>5, <1>7, <1>8, <1>9, <1>10

LEMMA FactsWritten ==
  ASSUME Typed, NEW as \in SUBSET Attempts, NEW withPriors \in BOOLEAN, Written(as, withPriors)
  PROVE  /\ FactsTyped' /\ Attempts' = Attempts
         /\ \A a \in as : /\ Becomes(a, TRUE, facts[a].archived, facts[a].embedding, facts[a].indexed, facts[a].fate)
                          /\ facts'[a].current = TRUE
         /\ \A a \in Attempts \ as : /\ Kept(a)
                                     /\ \/ facts'[a].current = facts[a].current
                                        \/ \E b \in as : a \in facts[b].priors
<1> DEFINE priors == IF withPriors THEN UNION {facts[a].priors : a \in as} ELSE {}
<1>1. \A p \in priors : \E b \in as : p \in facts[b].priors
  OBVIOUS
<1>2. facts' = [a \in Attempts |->
                  IF a \in as THEN [facts[a] EXCEPT !.graph = TRUE, !.current = TRUE]
                  ELSE IF a \in priors THEN [facts[a] EXCEPT !.current = FALSE]
                  ELSE facts[a]]
  BY DEF Written, Attempts
<1> HIDE DEF priors
<1>3. \A a \in Attempts : facts[a] \in Fact(Attempts)
  BY AttemptsShape
<1>4. ASSUME NEW a \in as
      PROVE  /\ facts'[a] \in Fact(Attempts) /\ facts'[a].current = TRUE
             /\ Becomes(a, TRUE, facts[a].archived, facts[a].embedding, facts[a].indexed, facts[a].fate)
  <2>1. facts'[a] = [facts[a] EXCEPT !.graph = TRUE, !.current = TRUE] /\ facts[a] \in Fact(Attempts)
    BY <1>2, <1>3
  <2>2. /\ facts'[a] \in Fact(Attempts) /\ facts'[a].current = TRUE /\ facts'[a].graph = TRUE
        /\ facts'[a].turn = facts[a].turn /\ facts'[a].priors = facts[a].priors
        /\ facts'[a].archived = facts[a].archived /\ facts'[a].embedding = facts[a].embedding
        /\ facts'[a].indexed = facts[a].indexed /\ facts'[a].fate = facts[a].fate
    BY <2>1 DEF Fact
  <2>3. QED
    BY <2>1, <2>2 DEF Becomes
<1>5. ASSUME NEW a \in Attempts \ as
      PROVE  facts'[a] \in Fact(Attempts) /\ Kept(a) /\ (facts'[a].current = facts[a].current \/ a \in priors)
  <2>1. CASE a \in priors
    <3>1. facts'[a] = [facts[a] EXCEPT !.current = FALSE] /\ facts[a] \in Fact(Attempts)
      BY <1>2, <1>3, <2>1
    <3>2. /\ facts'[a] \in Fact(Attempts) /\ facts'[a].current = FALSE /\ facts'[a].graph = facts[a].graph
          /\ facts'[a].turn = facts[a].turn /\ facts'[a].priors = facts[a].priors
          /\ facts'[a].archived = facts[a].archived /\ facts'[a].embedding = facts[a].embedding
          /\ facts'[a].indexed = facts[a].indexed /\ facts'[a].fate = facts[a].fate
      BY <3>1 DEF Fact
    <3>3. QED
      BY <2>1, <3>2 DEF Kept, Becomes
  <2>2. CASE a \notin priors
    BY <1>2, <1>3, <2>2 DEF Kept, Becomes
  <2>3. QED
    BY <2>1, <2>2
<1>6. \A a \in Attempts : facts'[a] \in Fact(Attempts)
  BY <1>4, <1>5
<1>7. FactsTyped' /\ Attempts' = Attempts
  BY <1>2, <1>6, FactsMapped DEF FactsTyped
<1>8. QED
  BY <1>1, <1>4, <1>5, <1>7

LEMMA FactsPersisted ==
  ASSUME Typed, NEW as \in SUBSET Attempts, NEW index \in BOOLEAN, Persisted(as, index)
  PROVE  /\ FactsTyped' /\ Attempts' = Attempts
         /\ \A a \in as : Becomes(a, facts[a].graph, facts[a].archived, "active", index, facts[a].fate)
         /\ \A a \in Attempts \ as : Kept(a)
         /\ \A a \in Attempts : facts'[a].current = facts[a].current
<1>1. facts' = [a \in Attempts |-> IF a \in as THEN [facts[a] EXCEPT !.embedding = "active", !.indexed = index]
                                   ELSE facts[a]]
  BY DEF Persisted, Attempts
<1>2. \A a \in Attempts : facts[a] \in Fact(Attempts)
  BY AttemptsShape
<1>3. ASSUME NEW a \in as
      PROVE  /\ facts'[a] \in Fact(Attempts) /\ facts'[a].current = facts[a].current
             /\ Becomes(a, facts[a].graph, facts[a].archived, "active", index, facts[a].fate)
  <2>1. facts'[a] = [facts[a] EXCEPT !.embedding = "active", !.indexed = index] /\ facts[a] \in Fact(Attempts)
    BY <1>1, <1>2
  <2>2. /\ facts'[a] \in Fact(Attempts) /\ facts'[a].current = facts[a].current /\ facts'[a].graph = facts[a].graph
        /\ facts'[a].turn = facts[a].turn /\ facts'[a].priors = facts[a].priors
        /\ facts'[a].archived = facts[a].archived /\ facts'[a].embedding = "active"
        /\ facts'[a].indexed = index /\ facts'[a].fate = facts[a].fate
    BY <2>1 DEF Fact
  <2>3. QED
    BY <2>1, <2>2 DEF Becomes
<1>4. ASSUME NEW a \in Attempts \ as
      PROVE  facts'[a] \in Fact(Attempts) /\ Kept(a) /\ facts'[a].current = facts[a].current
  BY <1>1, <1>2 DEF Kept, Becomes
<1>5. \A a \in Attempts : facts'[a] \in Fact(Attempts)
  BY <1>3, <1>4
<1>6. FactsTyped' /\ Attempts' = Attempts
  BY <1>1, <1>5, FactsMapped DEF FactsTyped
<1>7. QED
  BY <1>3, <1>4, <1>6

(* Steps that change the fate of some attempts and nothing else of them. *)
LEMMA FactsFated ==
  ASSUME Typed, NEW as \in SUBSET Attempts, NEW fate \in Fates,
         facts' = [a \in DOMAIN facts |-> IF a \in as THEN [facts[a] EXCEPT !.fate = fate] ELSE facts[a]]
  PROVE  /\ FactsTyped' /\ Attempts' = Attempts
         /\ \A a \in as : Becomes(a, facts[a].graph, facts[a].archived, facts[a].embedding, facts[a].indexed, fate)
         /\ \A a \in Attempts \ as : Kept(a)
         /\ \A a \in Attempts : facts'[a].current = facts[a].current
<1>1. facts' = [a \in Attempts |-> IF a \in as THEN [facts[a] EXCEPT !.fate = fate] ELSE facts[a]]
  BY DEF Attempts
<1>2. \A a \in Attempts : facts[a] \in Fact(Attempts)
  BY AttemptsShape
<1>3. ASSUME NEW a \in as
      PROVE  /\ facts'[a] \in Fact(Attempts) /\ facts'[a].current = facts[a].current
             /\ Becomes(a, facts[a].graph, facts[a].archived, facts[a].embedding, facts[a].indexed, fate)
  <2>1. facts'[a] = [facts[a] EXCEPT !.fate = fate] /\ facts[a] \in Fact(Attempts)
    BY <1>1, <1>2
  <2>2. QED
    BY <2>1, FactFated DEF Becomes
<1>4. ASSUME NEW a \in Attempts \ as
      PROVE  facts'[a] \in Fact(Attempts) /\ Kept(a) /\ facts'[a].current = facts[a].current
  BY <1>1, <1>2 DEF Kept, Becomes
<1>5. \A a \in Attempts : facts'[a] \in Fact(Attempts)
  BY <1>3, <1>4
<1>6. FactsTyped' /\ Attempts' = Attempts
  BY <1>1, <1>5, FactsMapped DEF FactsTyped
<1>7. QED
  BY <1>3, <1>4, <1>6

(* The graph's part of a compensation. *)
LEMMA CompensatedFacts ==
  ASSUME Typed, NEW a \in Attempts, NEW withPriors \in BOOLEAN
  PROVE  LET c == Compensated(a, withPriors) IN
         /\ c = [x \in Attempts |-> c[x]] /\ \A x \in Attempts : c[x] \in Fact(Attempts)
         /\ c[a] = [facts[a] EXCEPT !.graph = TRUE, !.current = FALSE, !.archived = TRUE]
         /\ \A x \in Attempts \ {a} :
              /\ \/ c[x] = facts[x]
                 \/ c[x] = [facts[x] EXCEPT !.current = TRUE]
              /\ withPriors /\ x \in facts[a].priors => c[x].current = TRUE
<1> DEFINE c == Compensated(a, withPriors)
<1>1. c = [x \in Attempts |->
             IF x = a THEN [facts[x] EXCEPT !.graph = TRUE, !.current = FALSE, !.archived = TRUE]
             ELSE IF withPriors /\ x \in facts[a].priors THEN [facts[x] EXCEPT !.current = TRUE]
             ELSE facts[x]]
  BY DEF Compensated, Attempts
<1> HIDE DEF c
<1>2. \A x \in Attempts : facts[x] \in Fact(Attempts)
  BY AttemptsShape
<1>3. c[a] = [facts[a] EXCEPT !.graph = TRUE, !.current = FALSE, !.archived = TRUE]
  BY <1>1
<1>4. c[a] \in Fact(Attempts)
  BY <1>2, <1>3 DEF Fact
<1>5. ASSUME NEW x \in Attempts \ {a}
      PROVE  /\ c[x] \in Fact(Attempts)
             /\ c[x] = facts[x] \/ c[x] = [facts[x] EXCEPT !.current = TRUE]
             /\ withPriors /\ x \in facts[a].priors => c[x].current = TRUE
  <2>1. CASE withPriors /\ x \in facts[a].priors
    <3>1. c[x] = [facts[x] EXCEPT !.current = TRUE] /\ facts[x] \in Fact(Attempts)
      BY <1>1, <1>2, <2>1
    <3>2. QED
      BY <3>1 DEF Fact
  <2>2. CASE ~(withPriors /\ x \in facts[a].priors)
    BY <1>1, <1>2, <2>2
  <2>3. QED
    BY <2>1, <2>2
<1>6. c = [x \in Attempts |-> c[x]]
  BY <1>1
<1>7. QED
  BY <1>3, <1>4, <1>5, <1>6 DEF c

(* Everything but the attempt that is undone stays, or becomes current again. *)
LEMMA OthersKept ==
  ASSUME Typed, NEW a \in Attempts,
         \A x \in Attempts \ {a} : facts'[x] = facts[x] \/ facts'[x] = [facts[x] EXCEPT !.current = TRUE]
  PROVE  \A x \in Attempts \ {a} : /\ Kept(x) /\ facts'[x] \in Fact(Attempts)
                                   /\ facts[x].current = TRUE => facts'[x].current = TRUE
<1>1. ASSUME NEW x \in Attempts \ {a}
      PROVE  /\ Kept(x) /\ facts'[x] \in Fact(Attempts)
             /\ facts[x].current = TRUE => facts'[x].current = TRUE
  <2>1. facts[x] \in Fact(Attempts)
    BY AttemptsShape
  <2>2. CASE facts'[x] = facts[x]
    BY <2>1, <2>2 DEF Kept, Becomes
  <2>3. CASE facts'[x] = [facts[x] EXCEPT !.current = TRUE]
    <3>1. /\ facts'[x] \in Fact(Attempts) /\ facts'[x].current = TRUE /\ facts'[x].graph = facts[x].graph
          /\ facts'[x].turn = facts[x].turn /\ facts'[x].priors = facts[x].priors
          /\ facts'[x].archived = facts[x].archived /\ facts'[x].embedding = facts[x].embedding
          /\ facts'[x].indexed = facts[x].indexed /\ facts'[x].fate = facts[x].fate
      BY <2>1, <2>3 DEF Fact
    <3>2. QED
      BY <3>1 DEF Kept, Becomes
  <2>4. QED
    BY <2>1, <2>2, <2>3
<1>2. QED
  BY <1>1

LEMMA UndoFacts ==
  ASSUME Typed, NEW w \in Workers, Undo(w)
  PROVE  LET a == Head(work[w].undo) IN
         /\ a \in Attempts
         /\ FactsTyped' /\ Attempts' = Attempts
         /\ facts'[a].embedding # "active"
         /\ Becomes(a, TRUE, TRUE, facts'[a].embedding, FALSE, facts[a].fate)
         /\ \A x \in Attempts \ {a} : /\ Kept(x)
                                      /\ facts[x].current = TRUE => facts'[x].current = TRUE
                                      /\ x \in facts[a].priors => facts'[x].current = TRUE
<1> DEFINE a == Head(work[w].undo)
           c == Compensated(a, TRUE)
<1>1. a \in Attempts
  BY UndoneGoes DEF Undo
<1>2. facts' = [c EXCEPT ![a].embedding = IF @ = "active" THEN "inactive" ELSE @, ![a].indexed = FALSE]
  BY DEF Undo
<1>3. /\ c = [x \in Attempts |-> c[x]] /\ \A x \in Attempts : c[x] \in Fact(Attempts)
      /\ c[a] = [facts[a] EXCEPT !.graph = TRUE, !.current = FALSE, !.archived = TRUE]
      /\ \A x \in Attempts \ {a} :
           /\ \/ c[x] = facts[x]
              \/ c[x] = [facts[x] EXCEPT !.current = TRUE]
           /\ x \in facts[a].priors => c[x].current = TRUE
  BY <1>1, CompensatedFacts
<1> HIDE DEF c
<1>4. facts[a] \in Fact(Attempts)
  BY <1>1, AttemptsShape
<1> DEFINE e == IF c[a].embedding = "active" THEN "inactive" ELSE c[a].embedding
<1>5. /\ facts' = [x \in Attempts |-> facts'[x]] /\ DOMAIN facts' = Attempts
      /\ facts'[a] = [c[a] EXCEPT !.embedding = e, !.indexed = FALSE]
      /\ \A x \in Attempts \ {a} : facts'[x] = c[x]
  <2>1. DOMAIN c = Attempts
    BY <1>3
  <2>2. QED
    BY <1>1, <1>2, <1>3, <2>1
<1>6. e \in {"none", "inactive"}
  BY <1>1, <1>3 DEF Fact
<1> HIDE DEF e
<1>7. /\ facts'[a] \in Fact(Attempts) /\ facts'[a].graph = TRUE /\ facts'[a].archived = TRUE
      /\ facts'[a].embedding = e /\ facts'[a].indexed = FALSE /\ facts'[a].fate = facts[a].fate
      /\ facts'[a].turn = facts[a].turn /\ facts'[a].priors = facts[a].priors
  <2>1. /\ c[a].graph = TRUE /\ c[a].archived = TRUE /\ c[a].fate = facts[a].fate
        /\ c[a].turn = facts[a].turn /\ c[a].priors = facts[a].priors /\ c[a] \in Fact(Attempts)
    BY <1>1, <1>3, <1>4 DEF Fact
  <2>2. QED
    BY <1>5, <1>6, <2>1 DEF Fact
<1>8. \A x \in Attempts \ {a} : /\ Kept(x) /\ facts'[x] \in Fact(Attempts)
                                /\ facts[x].current = TRUE => facts'[x].current = TRUE
  <2>1. \A x \in Attempts \ {a} : facts'[x] = facts[x] \/ facts'[x] = [facts[x] EXCEPT !.current = TRUE]
    BY <1>3, <1>5
  <2>2. QED
    BY <1>1, <2>1, OthersKept
<1>9. FactsTyped' /\ Attempts' = Attempts
  BY <1>5, <1>7, <1>8, FactsMapped DEF FactsTyped
<1>10. QED
  BY <1>1, <1>3, <1>5, <1>6, <1>7, <1>8, <1>9 DEF Becomes

(* A compensation that stopped somewhere: fs is the graph as far as it came. *)
LEMMA RepairFacts ==
  ASSUME Typed, NEW a \in Attempts, NEW fs, fs = [x \in Attempts |-> fs[x]],
         \A x \in Attempts \ {a} : fs[x] = facts[x] \/ fs[x] = [facts[x] EXCEPT !.current = TRUE],
         NEW g \in Fact(Attempts), facts' = [fs EXCEPT ![a] = g]
  PROVE  /\ FactsTyped' /\ Attempts' = Attempts /\ facts'[a] = g
         /\ \A x \in Attempts \ {a} : /\ Kept(x)
                                      /\ facts[x].current = TRUE => facts'[x].current = TRUE
<1>1. /\ facts' = [x \in Attempts |-> facts'[x]] /\ DOMAIN facts' = Attempts /\ facts'[a] = g
      /\ \A x \in Attempts \ {a} : facts'[x] = fs[x]
  OBVIOUS
<1>2. \A x \in Attempts \ {a} : facts'[x] = facts[x] \/ facts'[x] = [facts[x] EXCEPT !.current = TRUE]
  BY <1>1
<1>3. \A x \in Attempts \ {a} : /\ Kept(x) /\ facts'[x] \in Fact(Attempts)
                                /\ facts[x].current = TRUE => facts'[x].current = TRUE
  BY <1>2, OthersKept
<1>4. FactsTyped' /\ Attempts' = Attempts
  BY <1>1, <1>3, FactsMapped DEF FactsTyped
<1>5. QED
  BY <1>1, <1>3, <1>4

LEMMA UndoFailsFacts ==
  ASSUME Typed, NEW w \in Workers, UndoFails(w)
  PROVE  LET a == Head(work[w].undo) IN
         /\ a \in Attempts
         /\ FactsTyped' /\ Attempts' = Attempts
         /\ facts'[a].fate = "repair" /\ facts'[a].turn = facts[a].turn /\ facts'[a].priors = facts[a].priors
         /\ facts[a].graph = TRUE => facts'[a].graph = TRUE
         /\ \/ facts'[a].archived = TRUE
            \/ /\ facts'[a].graph = facts[a].graph /\ facts'[a].current = facts[a].current
               /\ facts'[a].archived = facts[a].archived
         /\ \A x \in Attempts \ {a} : /\ Kept(x)
                                      /\ facts[x].current = TRUE => facts'[x].current = TRUE
<1> DEFINE a == Head(work[w].undo)
           Stopped(f) == /\ f \in Fact(Attempts) /\ f.turn = facts[a].turn /\ f.priors = facts[a].priors
                         /\ facts[a].graph = TRUE => f.graph = TRUE
                         /\ f.archived = TRUE \/ (f.graph = facts[a].graph /\ f.current = facts[a].current /\ f.archived = facts[a].archived)
           Upto(fs) == /\ fs = [x \in Attempts |-> fs[x]]
                       /\ \A x \in Attempts \ {a} : fs[x] = facts[x] \/ fs[x] = [facts[x] EXCEPT !.current = TRUE]
                       /\ Stopped(fs[a])
<1>1. a \in Attempts /\ facts[a] \in Fact(Attempts)
  BY UndoneGoes, AttemptsShape DEF UndoFails
<1>2. Upto(facts)
  <2>1. facts = [x \in DOMAIN facts |-> facts[x]]
    BY AttemptsShape
  <2>2. QED
    BY <1>1, <2>1 DEF Attempts
<1>3. ASSUME NEW withPriors \in BOOLEAN
      PROVE  Upto(Compensated(a, withPriors))
  <2> DEFINE c == Compensated(a, withPriors)
  <2>1. /\ c = [x \in Attempts |-> c[x]]
        /\ c[a] = [facts[a] EXCEPT !.graph = TRUE, !.current = FALSE, !.archived = TRUE]
        /\ \A x \in Attempts \ {a} : c[x] = facts[x] \/ c[x] = [facts[x] EXCEPT !.current = TRUE]
    <3>1. CASE withPriors = TRUE
      BY <1>1, <3>1, CompensatedFacts
    <3>2. CASE withPriors = FALSE
      BY <1>1, <3>2, CompensatedFacts
    <3>3. QED
      BY <3>1, <3>2
  <2> HIDE DEF c
  <2>2. Stopped(c[a])
    BY <1>1, <2>1 DEF Fact
  <2> HIDE DEF Stopped
  <2>3. Upto(c)
    BY <2>1, <2>2
  <2>4. QED
    BY <2>3 DEF c
<1>4. ASSUME NEW fs, Upto(fs), NEW g, Stopped(g), g.fate = "repair", facts' = [fs EXCEPT ![a] = g]
      PROVE  /\ FactsTyped' /\ Attempts' = Attempts
             /\ facts'[a].fate = "repair" /\ facts'[a].turn = facts[a].turn /\ facts'[a].priors = facts[a].priors
             /\ facts[a].graph = TRUE => facts'[a].graph = TRUE
             /\ \/ facts'[a].archived = TRUE
                \/ /\ facts'[a].graph = facts[a].graph /\ facts'[a].current = facts[a].current
                   /\ facts'[a].archived = facts[a].archived
             /\ \A x \in Attempts \ {a} : /\ Kept(x)
                                          /\ facts[x].current = TRUE => facts'[x].current = TRUE
  <2>1. /\ FactsTyped' /\ Attempts' = Attempts /\ facts'[a] = g
        /\ \A x \in Attempts \ {a} : /\ Kept(x)
                                     /\ facts[x].current = TRUE => facts'[x].current = TRUE
    BY <1>1, <1>4, RepairFacts
  <2>2. QED
    BY <1>4, <2>1
<1>5. \E fs, g : Upto(fs) /\ Stopped(g) /\ g.fate = "repair" /\ facts' = [fs EXCEPT ![a] = g]
  <2>1. CASE \E fs \in {facts, Compensated(a, FALSE), Compensated(a, TRUE)} : facts' = [fs EXCEPT ![a].fate = "repair"]
    <3>1. PICK fs \in {facts, Compensated(a, FALSE), Compensated(a, TRUE)} : facts' = [fs EXCEPT ![a].fate = "repair"]
      BY <2>1
    <3>2. Upto(fs)
      BY <1>2, <1>3, <3>1
    <3> DEFINE g == [fs[a] EXCEPT !.fate = "repair"]
    <3>3. Stopped(g) /\ g.fate = "repair"
      BY <3>2 DEF Fact
    <3>4. facts' = [fs EXCEPT ![a] = g]
      BY <1>1, <3>1, <3>2
    <3> HIDE DEF g, Stopped, Upto
    <3>5. QED
      BY <3>2, <3>3, <3>4
  <2> DEFINE c == Compensated(a, TRUE)
  <2>2. CASE facts' = [c EXCEPT ![a].indexed = FALSE, ![a].fate = "repair"]
    <3>1. Upto(c)
      BY <1>3
    <3> HIDE DEF c
    <3> DEFINE g == [c[a] EXCEPT !.indexed = FALSE, !.fate = "repair"]
    <3>2. Stopped(g) /\ g.fate = "repair"
      BY <3>1 DEF Fact
    <3>3. facts' = [c EXCEPT ![a] = g]
      BY <1>1, <2>2, <3>1
    <3> HIDE DEF g, Stopped, Upto
    <3>4. QED
      BY <3>1, <3>2, <3>3
  <2>3. CASE facts' = [c EXCEPT ![a].embedding = IF @ = "active" THEN "inactive" ELSE @, ![a].fate = "repair"]
    <3>1. Upto(c)
      BY <1>3
    <3> HIDE DEF c
    <3> DEFINE e == IF c[a].embedding = "active" THEN "inactive" ELSE c[a].embedding
               g == [c[a] EXCEPT !.embedding = e, !.fate = "repair"]
    <3>2. e \in {"none", "inactive"}
      BY <3>1 DEF Fact
    <3>3. facts' = [c EXCEPT ![a] = g]
      BY <1>1, <2>3, <3>1
    <3> HIDE DEF e
    <3>4. Stopped(g) /\ g.fate = "repair"
      BY <3>1, <3>2 DEF Fact
    <3> HIDE DEF g, Stopped, Upto
    <3>5. QED
      BY <3>1, <3>3, <3>4
  <2>4. QED
    BY <2>1, <2>2, <2>3 DEF UndoFails
<1>6. QED
  BY <1>1, <1>4, <1>5

-----------------------------------------------------------------------------
(* The stage of a run and its attempts. *)

Fresh(f) == f.fate = "running" /\ f.graph = FALSE /\ f.archived = FALSE /\ f.embedding = "none" /\ f.indexed = FALSE
Stored(f) == f.fate = "running" /\ f.graph = TRUE /\ f.archived = FALSE /\ f.embedding = "none" /\ f.indexed = FALSE
Ready(f) == f.fate = "running" /\ f.graph = TRUE /\ f.archived = FALSE /\ f.embedding = "active" /\ f.indexed = TRUE

(* Semantic and keyword search do not find it. *)
Gone(f) == f.embedding # "active" /\ f.indexed = FALSE

(* What the stores hold of the attempts of a run, stage by stage. *)
Stage(r, fs) ==
  /\ r.at \in {"begin", "extract"} => \A n \in DOMAIN r.pending : Fresh(fs[r.pending[n]])
  /\ r.at \in {"embed_mark", "persist"} => \A n \in DOMAIN r.pending : Stored(fs[r.pending[n]])
  /\ r.at = "verify_mark" => \A n \in DOMAIN r.pending : Ready(fs[r.pending[n]])
  /\ r.at = "verify" => \A n \in DOMAIN r.pending : n >= r.i => Ready(fs[r.pending[n]])
  /\ r.at = "undo_one" => /\ \A n \in DOMAIN r.pending : n > r.i => Ready(fs[r.pending[n]])
                          /\ Members(r.undo) \cup Members(r.fail) \subseteq {r.pending[r.i]}
  /\ r.at = "undo" => r.pending = <<>>
  /\ r.at \notin Undoings => r.undo = <<>> /\ r.fail = <<>>
  /\ \A a \in Members(r.undo) \cup Members(r.fail) : fs[a].fate # "completed"
  /\ \A a \in Members(r.fail) : a \in Members(r.undo) \/ fs[a].fate = "repair" \/ Gone(fs[a])

(* What was completed can be found, what failed cannot. *)
Settled(f) ==
  /\ f.fate = "completed" => f.graph = TRUE /\ f.archived = FALSE /\ f.embedding = "active" /\ f.indexed = TRUE
  /\ f.fate = "failed" => Gone(f)

Staged == \A w \in Workers : Ordered(work[w].pending) /\ Stage(work[w], facts)
Owned == \A v, w \in Workers : v # w => Held(work[v]) \cap Held(work[w]) = {}
AllSettled == \A a \in Attempts : Settled(facts[a])

Ownership == Typed /\ Staged /\ Owned /\ AllSettled

(* A step of a thread changes nothing of what others hold, and keeps its own run in its stage. *)
Keeps(w) ==
  /\ FactsTyped' /\ Attempts \subseteq Attempts'
  /\ \A a \in Attempts : facts'[a].turn = facts[a].turn /\ facts'[a].priors = facts[a].priors
  /\ \A a \in Attempts \ Held(work[w]) : Kept(a)
  /\ Held(work'[w]) \subseteq Held(work[w]) \cup (Attempts' \ Attempts)
  /\ Held(work'[w]) \subseteq Attempts'
  /\ Ordered(work'[w].pending) /\ Stage(work'[w], facts')
  /\ \A a \in Attempts' : Settled(facts'[a])

LEMMA NothingPending == Ordered(<<>>) /\ Members(<<>>) = {}
BY DEF Ordered, Members

(* Steps that leave the facts alone and stay in, or fall back to, a quiet stage. *)
LEMMA QuietKeeps ==
  ASSUME Ownership, NEW w \in Workers, UNCHANGED facts,
         NEW at \in {"idle", "group"}, NEW pending \in {<<>>, work[w].pending}, NEW i,
         Goes(w, at, pending, i, <<>>, <<>>)
  PROVE  Keeps(w)
<1>1. FactsTyped' /\ Attempts' = Attempts /\ \A a \in Attempts : Kept(a)
  BY FactsUnchanged DEF Ownership
<1>2. Ordered(work[w].pending) /\ Held(work[w]) \subseteq Attempts
  BY HeldAttempts DEF Ownership, Staged
<1>3. Members(pending) \subseteq Members(work[w].pending) /\ Ordered(pending)
  BY <1>2, NothingPending
<1>4. Held(work'[w]) \subseteq Held(work[w]) /\ Ordered(work'[w].pending)
  BY <1>3, NothingPending DEF Goes, Held
<1>5. Stage(work'[w], facts')
  BY NothingPending DEF Stage, Goes, Undoings
<1>6. \A a \in Attempts' : Settled(facts'[a])
  BY <1>1 DEF Ownership, AllSettled
<1>7. QED
  BY <1>1, <1>2, <1>4, <1>5, <1>6 DEF Keeps, Kept, Becomes

(* Steps that leave the facts and the run's attempts alone, from begin or extract to either. *)
LEMMA BeginningKeeps ==
  ASSUME Ownership, NEW w \in Workers, UNCHANGED facts, work[w].at \in {"begin", "extract"},
         NEW at \in {"begin", "extract", "group"},
         Goes(w, at, work[w].pending, work[w].i, work[w].undo, work[w].fail)
  PROVE  Keeps(w)
<1>1. FactsTyped' /\ Attempts' = Attempts /\ \A a \in Attempts : Kept(a)
  BY FactsUnchanged DEF Ownership
<1>2. Ordered(work[w].pending) /\ Held(work[w]) \subseteq Attempts /\ Stage(work[w], facts)
  BY HeldAttempts DEF Ownership, Staged
<1>3. Held(work'[w]) = Held(work[w]) /\ Ordered(work'[w].pending)
  BY <1>2 DEF Goes, Held
<1>4. work[w].undo = <<>> /\ work[w].fail = <<>> /\ \A n \in DOMAIN work[w].pending : Fresh(facts[work[w].pending[n]])
  BY <1>2 DEF Stage, Undoings
<1>5. Stage(work'[w], facts')
  BY <1>4, NothingPending DEF Stage, Goes, Undoings
<1>6. \A a \in Attempts' : Settled(facts'[a])
  BY <1>1 DEF Ownership, AllSettled
<1>7. QED
  BY <1>1, <1>2, <1>3, <1>5, <1>6 DEF Keeps, Kept, Becomes

LEMMA StartKeeps ==
  ASSUME Ownership, NEW w \in Workers, Start(w)
  PROVE  Keeps(w)
BY StartGoes, QuietKeeps DEF Ownership, Start

LEMMA NextGroupKeeps ==
  ASSUME Ownership, NEW w \in Workers, NextGroup(w)
  PROVE  Keeps(w)
<1>1. Goes(w, "begin", <<>>, 1, work[w].undo, work[w].fail) /\ work[w].at = "group" /\ UNCHANGED facts
  BY NextGroupGoes DEF Ownership, NextGroup
<1>2. work[w].undo = <<>> /\ work[w].fail = <<>>
  BY <1>1 DEF Ownership, Staged, Stage, Undoings
<1>3. FactsTyped' /\ Attempts' = Attempts /\ \A a \in Attempts : Kept(a)
  BY <1>1, FactsUnchanged DEF Ownership
<1>4. Held(work'[w]) = {} /\ Ordered(work'[w].pending)
  BY <1>1, <1>2, NothingPending DEF Goes, Held
<1>5. Stage(work'[w], facts')
  BY <1>1, <1>2, NothingPending DEF Stage, Goes, Undoings
<1>6. \A a \in Attempts' : Settled(facts'[a])
  BY <1>1, <1>3 DEF Ownership, AllSettled
<1>7. QED
  BY <1>3, <1>4, <1>5, <1>6 DEF Keeps, Kept, Becomes

LEMMA FinishKeeps ==
  ASSUME Ownership, NEW w \in Workers, Finish(w)
  PROVE  Keeps(w)
BY GoesIdle, QuietKeeps DEF Ownership, Finish

LEMMA BeginKeeps ==
  ASSUME Ownership, NEW w \in Workers, Begin(w)
  PROVE  Keeps(w)
BY BeginGoes, BeginningKeeps DEF Ownership, Begin

LEMMA ExtractFailsKeeps ==
  ASSUME Ownership, NEW w \in Workers, NEW kind \in Failures, ExtractFails(w, kind)
  PROVE  Keeps(w)
BY ExtractFailsGoes, BeginningKeeps DEF Ownership, ExtractFails

LEMMA SkipGroupKeeps ==
  ASSUME Ownership, NEW w \in Workers, SkipGroup(w)
  PROVE  Keeps(w)
BY SkipGroupGoes, BeginningKeeps DEF Ownership, SkipGroup

LEMMA KeptSettled ==
  ASSUME NEW a, Settled(facts[a]), Kept(a)
  PROVE  Settled(facts'[a])
BY DEF Settled, Kept, Becomes, Gone

LEMMA AbortKeeps ==
  ASSUME Ownership, NEW w \in Workers, Abort(w)
  PROVE  Keeps(w)
<1> DEFINE as == Members(work[w].pending)
<1>1. Goes(w, "idle", <<>>, 1, <<>>, <<>>) /\ work[w].at = "begin"
  BY GoesIdle DEF Ownership, Abort
<1>2. as \subseteq Attempts /\ as \subseteq Held(work[w])
  BY HeldAttempts DEF Ownership, Held
<1>3. facts' = [a \in DOMAIN facts |-> IF a \in as THEN [facts[a] EXCEPT !.fate = "failed"] ELSE facts[a]]
  BY DEF Abort, Members
<1>4. \A a \in as : Fresh(facts[a])
  BY <1>1 DEF Ownership, Staged, Stage, Members
<1> HIDE DEF as
<1>5. /\ FactsTyped' /\ Attempts' = Attempts
      /\ \A a \in as : Becomes(a, facts[a].graph, facts[a].archived, facts[a].embedding, facts[a].indexed, "failed")
      /\ \A a \in Attempts \ as : Kept(a)
  BY <1>2, <1>3, FactsFated DEF Ownership, Fates
<1>6. Held(work'[w]) = {} /\ Ordered(work'[w].pending)
  BY <1>1, NothingPending DEF Goes, Held
<1>7. Stage(work'[w], facts')
  BY <1>1, NothingPending DEF Stage, Goes, Undoings
<1>8. ASSUME NEW a \in Attempts'
      PROVE  Settled(facts'[a])
  <2>1. CASE a \in as
    BY <1>4, <1>5, <2>1 DEF Settled, Becomes, Fresh, Gone
  <2>2. CASE a \notin as
    <3>1. Settled(facts[a]) /\ Kept(a)
      BY <1>5, <2>2 DEF Ownership, AllSettled
    <3>2. QED
      BY <3>1, KeptSettled
  <2>3. QED
    BY <2>1, <2>2
<1>9. QED
  BY <1>2, <1>5, <1>6, <1>7, <1>8 DEF Keeps, Kept, Becomes

LEMMA ExtractKeeps ==
  ASSUME Ownership, NEW w \in Workers, Extract(w)
  PROVE  Keeps(w)
<1> DEFINE r == work[w]
           new == Len(facts) + 1
           more == Append(r.pending, new)
<1>1. Goes(w, "begin", more, r.i, r.undo, r.fail) /\ r.at = "extract"
  BY ExtractGoes DEF Ownership
<1>2. /\ FactsTyped' /\ Attempts' = Attempts \cup {new}
      /\ \A a \in Attempts : Kept(a)
      /\ Fresh(facts'[new])
  BY FactsExtracted DEF Ownership, Fresh
<1>3. /\ r.pending \in Seq(Nat) /\ new \in Nat /\ \A a \in Attempts : a < new /\ a \in Nat
      /\ Members(r.pending) \subseteq Attempts /\ Held(r) \subseteq Attempts /\ new \notin Attempts
  BY HeldAttempts, AttemptsShape DEF Ownership, Run, Held
<1>4. /\ DOMAIN more = DOMAIN r.pending \cup {Len(r.pending) + 1} /\ more[Len(r.pending) + 1] = new
      /\ \A n \in DOMAIN r.pending : more[n] = r.pending[n] /\ n < Len(r.pending) + 1
      /\ Members(more) = Members(r.pending) \cup {new}
  BY <1>3, AppendMembers
<1> HIDE DEF more
<1>5. Ordered(r.pending) /\ r.undo = <<>> /\ r.fail = <<>> /\ \A n \in DOMAIN r.pending : Fresh(facts[r.pending[n]])
  BY <1>1 DEF Ownership, Staged, Stage, Undoings
<1>6. \A n \in DOMAIN r.pending : r.pending[n] \in Attempts
  BY <1>3 DEF Members
<1>7. Ordered(more)
  <2>1. DOMAIN r.pending \subseteq Nat /\ Len(r.pending) \in Nat
    BY <1>3, MemberTyped
  <2> SUFFICES ASSUME NEW m \in DOMAIN more, NEW n \in DOMAIN more, m < n
               PROVE  more[m] < more[n]
    BY DEF Ordered
  <2>2. CASE n \in DOMAIN r.pending
    <3>1. m \in DOMAIN r.pending
      BY <1>4, <2>1, <2>2
    <3>2. QED
      BY <1>4, <1>5, <2>2, <3>1 DEF Ordered
  <2>3. CASE n = Len(r.pending) + 1
    <3>1. m \in DOMAIN r.pending
      BY <1>4, <2>1, <2>3
    <3>2. QED
      BY <1>3, <1>4, <1>6, <2>3, <3>1
  <2>4. QED
    BY <1>4, <2>2, <2>3
<1>8. \A n \in DOMAIN more : Fresh(facts'[more[n]])
  <2>1. \A n \in DOMAIN r.pending : Fresh(facts'[more[n]])
    BY <1>2, <1>4, <1>5, <1>6 DEF Fresh, Kept, Becomes
  <2>2. QED
    BY <1>2, <1>4, <2>1
<1>9. Stage(work'[w], facts')
  BY <1>1, <1>5, <1>8, NothingPending DEF Stage, Goes, Undoings
<1>10. Held(work'[w]) = Held(r) \cup {new} /\ Ordered(work'[w].pending)
  BY <1>1, <1>4, <1>7 DEF Goes, Held
<1>11. \A a \in Attempts' : Settled(facts'[a])
  <2>1. Settled(facts'[new])
    BY <1>2 DEF Settled, Fresh
  <2>2. \A a \in Attempts : Settled(facts'[a])
    <3>1. \A a \in Attempts : Settled(facts[a]) /\ Kept(a)
      BY <1>2 DEF Ownership, AllSettled
    <3>2. QED
      BY <3>1, KeptSettled
  <2>3. QED
    BY <1>2, <2>1, <2>2
<1>12. QED
  BY <1>2, <1>3, <1>9, <1>10, <1>11 DEF Keeps, Kept, Becomes

(* A stage of the group that fails: the attempts are to be undone, or cannot be found. *)
LEMMA FailingKeeps ==
  ASSUME Ownership, NEW w \in Workers, FactsTyped', Attempts' = Attempts,
         \A a \in Attempts : facts'[a].turn = facts[a].turn /\ facts'[a].priors = facts[a].priors,
         \A a \in Attempts \ Held(work[w]) : Kept(a),
         \A a \in Attempts : Settled(facts'[a]),
         NEW undo \in {<<>>, work[w].pending}, Goes(w, "undo", <<>>, 1, undo, work[w].pending),
         \A a \in Members(work[w].pending) : /\ facts'[a].fate # "completed"
                                             /\ undo = work[w].pending \/ Gone(facts'[a])
  PROVE  Keeps(w)
<1>1. Members(undo) \subseteq Members(work[w].pending)
  BY NothingPending
<1>2. Held(work'[w]) \subseteq Held(work[w]) /\ Ordered(work'[w].pending)
  BY <1>1, NothingPending DEF Goes, Held
<1>3. Stage(work'[w], facts')
  BY <1>1, NothingPending DEF Stage, Goes, Undoings
<1>4. Held(work[w]) \subseteq Attempts
  BY HeldAttempts DEF Ownership
<1>5. QED
  BY <1>2, <1>3, <1>4 DEF Keeps

LEMMA PendingHeld ==
  ASSUME Typed, NEW w \in Workers
  PROVE  /\ Members(work[w].pending) \in SUBSET Attempts /\ Members(work[w].pending) \subseteq Held(work[w])
         /\ \A n \in DOMAIN work[w].pending : work[w].pending[n] \in Members(work[w].pending)
BY HeldAttempts DEF Held, Members

LEMMA WriteGraphKeeps ==
  ASSUME Ownership, NEW w \in Workers, WriteGraph(w)
  PROVE  Keeps(w)
<1> DEFINE r == work[w]
           as == Members(r.pending)
<1>1. Goes(w, "embed_mark", r.pending, 1, r.undo, r.fail) /\ r.at = "begin"
  BY WriteGraphGoes DEF Ownership
<1>2. as \in SUBSET Attempts /\ as \subseteq Held(r) /\ \A n \in DOMAIN r.pending : r.pending[n] \in as
  BY PendingHeld DEF Ownership
<1>3. /\ FactsTyped' /\ Attempts' = Attempts
      /\ \A a \in as : Becomes(a, TRUE, facts[a].archived, facts[a].embedding, facts[a].indexed, facts[a].fate)
      /\ \A a \in Attempts \ as : Kept(a)
  BY <1>2, FactsWritten DEF Ownership, WriteGraph
<1>4. r.undo = <<>> /\ r.fail = <<>> /\ \A a \in as : Fresh(facts[a])
  BY <1>1 DEF Ownership, Staged, Stage, Undoings, Members
<1> HIDE DEF as
<1>5. \A a \in as : Stored(facts'[a])
  BY <1>3, <1>4 DEF Stored, Fresh, Becomes
<1>6. Stage(work'[w], facts')
  BY <1>1, <1>2, <1>4, <1>5, NothingPending DEF Stage, Goes, Undoings
<1>7. Held(work'[w]) = Held(r) /\ Ordered(work'[w].pending)
  BY <1>1 DEF Goes, Held, Ownership, Staged
<1>8. ASSUME NEW a \in Attempts'
      PROVE  Settled(facts'[a])
  <2>1. CASE a \in as
    BY <1>5, <2>1 DEF Settled, Stored
  <2>2. CASE a \notin as
    <3>1. Settled(facts[a]) /\ Kept(a)
      BY <1>3, <2>2 DEF Ownership, AllSettled
    <3>2. QED
      BY <3>1, KeptSettled
  <2>3. QED
    BY <2>1, <2>2
<1>9. Held(r) \subseteq Attempts
  BY HeldAttempts DEF Ownership
<1>10. QED
  BY <1>2, <1>3, <1>6, <1>7, <1>8, <1>9 DEF Keeps, Kept, Becomes

LEMMA WriteGraphFailsKeeps ==
  ASSUME Ownership, NEW w \in Workers, WriteGraphFails(w)
  PROVE  Keeps(w)
<1> DEFINE r == work[w]
           as == Members(r.pending)
<1>1. r.at = "begin" /\ r.at # "idle" /\ Typed
  BY DEF WriteGraphFails, ToWrite, Ownership
<1>2. as \in SUBSET Attempts /\ as \subseteq Held(r)
  BY <1>1, PendingHeld
<1>3. \A a \in as : Fresh(facts[a])
  BY <1>1 DEF Ownership, Staged, Stage, Members
<1>4. ASSUME NEW kind \in Failures, Set(w, Failing(r, <<>>, kind))
      PROVE  Goes(w, "undo", <<>>, 1, <<>>, r.pending)
  BY <1>1, <1>4, FailingGoes
<1> HIDE DEF as
<1>5. CASE \E kind \in Failures : facts' = facts /\ Set(w, Failing(r, <<>>, kind))
  <2>1. Goes(w, "undo", <<>>, 1, <<>>, r.pending) /\ UNCHANGED facts
    BY <1>4, <1>5
  <2>2. FactsTyped' /\ Attempts' = Attempts /\ \A a \in Attempts : Kept(a)
    BY <1>1, <2>1, FactsUnchanged
  <2>3. \A a \in as : facts'[a].fate # "completed" /\ Gone(facts'[a])
    BY <1>3, <2>1 DEF Fresh, Gone
  <2>4. \A a \in Attempts : Settled(facts'[a])
    BY <2>1 DEF Ownership, AllSettled
  <2>5. QED
    BY <2>1, <2>2, <2>3, <2>4, FailingKeeps DEF Kept, Becomes, as
<1>6. CASE \E withPriors \in BOOLEAN : Written(as, withPriors) /\ Set(w, Failing(r, <<>>, "retryable_failed"))
  <2>1. Goes(w, "undo", <<>>, 1, <<>>, r.pending)
    BY <1>4, <1>6 DEF Failures
  <2>2. /\ FactsTyped' /\ Attempts' = Attempts
        /\ \A a \in as : Becomes(a, TRUE, facts[a].archived, facts[a].embedding, facts[a].indexed, facts[a].fate)
        /\ \A a \in Attempts \ as : Kept(a)
    BY <1>1, <1>2, <1>6, FactsWritten
  <2>3. \A a \in as : facts'[a].fate = "running" /\ Gone(facts'[a])
    BY <1>3, <2>2 DEF Fresh, Becomes, Gone
  <2>4. ASSUME NEW a \in Attempts
        PROVE  Settled(facts'[a])
    <3>1. CASE a \in as
      BY <2>3, <3>1 DEF Settled
    <3>2. CASE a \notin as
      <4>1. Settled(facts[a]) /\ Kept(a)
        BY <2>2, <3>2 DEF Ownership, AllSettled
      <4>2. QED
        BY <4>1, KeptSettled
    <3>3. QED
      BY <3>1, <3>2
  <2>5. /\ \A a \in Attempts : facts'[a].turn = facts[a].turn /\ facts'[a].priors = facts[a].priors
        /\ \A a \in Attempts \ Held(r) : Kept(a)
    BY <1>2, <2>2 DEF Kept, Becomes
  <2>6. QED
    BY <2>1, <2>2, <2>3, <2>4, <2>5, FailingKeeps DEF as
<1>7. QED
  BY <1>5, <1>6 DEF WriteGraphFails, as

LEMMA MarkKeeps ==
  ASSUME Ownership, NEW w \in Workers, MarkEmbeddings(w) \/ MarkVerifying(w)
  PROVE  Keeps(w)
<1> DEFINE r == work[w]
           as == Members(r.pending)
<1>1. Typed /\ UNCHANGED facts
  BY DEF Ownership, MarkEmbeddings, MarkVerifying, Mark
<1>2. \/ /\ r.at = "embed_mark"
         /\ \/ \E i : Goes(w, "embed_mark", r.pending, i, r.undo, r.fail)
            \/ Goes(w, "persist", r.pending, 1, r.undo, r.fail)
            \/ Goes(w, "undo", <<>>, 1, r.pending, r.pending)
            \/ Goes(w, "undo", <<>>, 1, <<>>, r.pending)
      \/ /\ r.at = "verify_mark"
         /\ \/ \E i : Goes(w, "verify_mark", r.pending, i, r.undo, r.fail)
            \/ Goes(w, "verify", r.pending, 1, r.undo, r.fail)
            \/ Goes(w, "undo", <<>>, 1, r.pending, r.pending)
  <2>1. CASE MarkEmbeddings(w)
    <3>1. Mark(w, "embed_mark", "pending_embeddings", "persist")
      BY <2>1 DEF MarkEmbeddings
    <3>2. QED
      BY <1>1, <3>1, MarkGoes
  <2>2. CASE MarkVerifying(w)
    <3>1. Mark(w, "verify_mark", "verifying", "verify")
      BY <2>2 DEF MarkVerifying
    <3>2. QED
      BY <1>1, <3>1, MarkGoes
  <2>3. QED
    BY <2>1, <2>2
<1>3. FactsTyped' /\ Attempts' = Attempts /\ \A a \in Attempts : Kept(a)
  BY <1>1, FactsUnchanged
<1>4. /\ Held(r) \subseteq Attempts /\ Ordered(r.pending) /\ Stage(r, facts)
      /\ as \subseteq Attempts
  BY HeldAttempts, PendingHeld DEF Ownership, Staged
<1>5. \A a \in Attempts' : Settled(facts'[a])
  BY <1>1, <1>3 DEF Ownership, AllSettled
<1>6. r.undo = <<>> /\ r.fail = <<>>
  BY <1>2, <1>4 DEF Stage, Undoings
<1>7. /\ r.at = "embed_mark" => \A n \in DOMAIN r.pending : Stored(facts[r.pending[n]])
      /\ r.at = "verify_mark" => \A n \in DOMAIN r.pending : Ready(facts[r.pending[n]])
  BY <1>4 DEF Stage
<1>8. ASSUME NEW at \in {"embed_mark", "persist", "verify_mark", "verify"}, NEW i,
             Goes(w, at, r.pending, i, <<>>, <<>>),
             \A n \in DOMAIN r.pending : IF at \in {"embed_mark", "persist"} THEN Stored(facts[r.pending[n]])
                                         ELSE Ready(facts[r.pending[n]])
      PROVE  Keeps(w)
  <2>1. Stage(work'[w], facts')
    BY <1>1, <1>8, NothingPending DEF Stage, Goes, Undoings
  <2>2. Held(work'[w]) = Held(r) /\ Ordered(work'[w].pending)
    BY <1>4, <1>6, <1>8 DEF Goes, Held
  <2>3. QED
    BY <1>3, <1>4, <1>5, <2>1, <2>2 DEF Keeps, Kept, Becomes
<1>9. ASSUME NEW undo \in {<<>>, r.pending}, Goes(w, "undo", <<>>, 1, undo, r.pending),
             undo = r.pending \/ r.at = "embed_mark"
      PROVE  Keeps(w)
  <2>1. \A a \in as : facts[a].fate = "running" /\ (r.at = "embed_mark" => Gone(facts[a]))
    BY <1>2, <1>7 DEF Members, Stored, Ready, Gone
  <2>2. \A a \in as : facts'[a].fate # "completed" /\ (undo = r.pending \/ Gone(facts'[a]))
    BY <1>1, <1>9, <2>1
  <2>3. QED
    BY <1>3, <1>5, <1>9, <2>2, FailingKeeps DEF Kept, Becomes
<1>10. CASE r.at = "embed_mark"
  BY <1>2, <1>6, <1>7, <1>8, <1>9, <1>10
<1>11. CASE r.at = "verify_mark"
  BY <1>2, <1>6, <1>7, <1>8, <1>9, <1>11
<1>12. QED
  BY <1>2, <1>10, <1>11

LEMMA PersistKeeps ==
  ASSUME Ownership, NEW w \in Workers, Persist(w)
  PROVE  Keeps(w)
<1> DEFINE r == work[w]
           as == Members(r.pending)
<1>1. Goes(w, "verify_mark", r.pending, r.i, r.undo, r.fail) /\ r.at = "persist"
  BY PersistGoes DEF Ownership
<1>2. as \in SUBSET Attempts /\ as \subseteq Held(r) /\ \A n \in DOMAIN r.pending : r.pending[n] \in as
  BY PendingHeld DEF Ownership
<1>3. /\ FactsTyped' /\ Attempts' = Attempts
      /\ \A a \in as : Becomes(a, facts[a].graph, facts[a].archived, "active", TRUE, facts[a].fate)
      /\ \A a \in Attempts \ as : Kept(a)
  BY <1>2, FactsPersisted DEF Ownership, Persist
<1>4. r.undo = <<>> /\ r.fail = <<>> /\ \A a \in as : Stored(facts[a])
  BY <1>1 DEF Ownership, Staged, Stage, Undoings, Members
<1> HIDE DEF as
<1>5. \A a \in as : Ready(facts'[a])
  BY <1>3, <1>4 DEF Stored, Ready, Becomes
<1>6. Stage(work'[w], facts')
  BY <1>1, <1>2, <1>4, <1>5, NothingPending DEF Stage, Goes, Undoings
<1>7. Held(work'[w]) = Held(r) /\ Ordered(work'[w].pending)
  BY <1>1 DEF Goes, Held, Ownership, Staged
<1>8. ASSUME NEW a \in Attempts'
      PROVE  Settled(facts'[a])
  <2>1. CASE a \in as
    BY <1>5, <2>1 DEF Settled, Ready
  <2>2. CASE a \notin as
    <3>1. Kept(a) /\ Settled(facts[a])
      BY <1>3, <2>2 DEF Ownership, AllSettled
    <3>2. QED
      BY <3>1, KeptSettled
  <2>3. QED
    BY <2>1, <2>2
<1>9. Held(r) \subseteq Attempts
  BY HeldAttempts DEF Ownership
<1>10. QED
  BY <1>2, <1>3, <1>6, <1>7, <1>8, <1>9 DEF Keeps, Kept, Becomes

LEMMA PersistFailsKeeps ==
  ASSUME Ownership, NEW w \in Workers, PersistFails(w)
  PROVE  Keeps(w)
<1> DEFINE r == work[w]
           as == Members(r.pending)
<1>1. r.at = "persist" /\ r.at # "idle" /\ Typed
  BY DEF PersistFails, Ownership
<1>2. as \in SUBSET Attempts /\ as \subseteq Held(r)
  BY <1>1, PendingHeld
<1>3. Goes(w, "undo", <<>>, 1, r.pending, r.pending)
  <2>1. Set(w, Failing(r, r.pending, "retryable_failed"))
    BY DEF PersistFails
  <2>2. QED
    BY <1>1, <2>1, FailingGoes DEF Failures
<1>4. \A a \in as : Stored(facts[a])
  BY <1>1 DEF Ownership, Staged, Stage, Members
<1>5. /\ FactsTyped' /\ Attempts' = Attempts
      /\ \A a \in as : /\ facts'[a].turn = facts[a].turn /\ facts'[a].priors = facts[a].priors
                       /\ facts'[a].fate = facts[a].fate
      /\ \A a \in Attempts \ as : Kept(a)
  <2>1. CASE UNCHANGED facts
    BY <1>1, <1>2, <2>1, FactsUnchanged
  <2>2. CASE Persisted(as, FALSE)
    <3>1. /\ FactsTyped' /\ Attempts' = Attempts
          /\ \A a \in as : Becomes(a, facts[a].graph, facts[a].archived, "active", FALSE, facts[a].fate)
          /\ \A a \in Attempts \ as : Kept(a)
      BY <1>1, <1>2, <2>2, FactsPersisted
    <3>2. QED
      BY <3>1 DEF Becomes
  <2>3. QED
    BY <2>1, <2>2 DEF PersistFails
<1> HIDE DEF as
<1>6. \A a \in as : facts'[a].fate = "running"
  BY <1>4, <1>5 DEF Stored
<1>7. ASSUME NEW a \in Attempts
      PROVE  Settled(facts'[a])
  <2>1. CASE a \in as
    BY <1>6, <2>1 DEF Settled
  <2>2. CASE a \notin as
    <3>1. Settled(facts[a]) /\ Kept(a)
      BY <1>5, <2>2 DEF Ownership, AllSettled
    <3>2. QED
      BY <3>1, KeptSettled
  <2>3. QED
    BY <2>1, <2>2
<1>8. /\ \A a \in Attempts : facts'[a].turn = facts[a].turn /\ facts'[a].priors = facts[a].priors
      /\ \A a \in Attempts \ Held(r) : Kept(a)
  BY <1>2, <1>5 DEF Kept, Becomes
<1>9. QED
  BY <1>3, <1>5, <1>6, <1>7, <1>8, FailingKeeps DEF as

LEMMA VerifyFailsKeeps ==
  ASSUME Ownership, NEW w \in Workers, VerifyFails(w)
  PROVE  Keeps(w)
<1> DEFINE r == work[w]
           a == r.pending[r.i]
<1>1. Goes(w, "undo_one", r.pending, r.i, <<a>>, <<a>>) /\ r.at = "verify" /\ UNCHANGED facts
  BY VerifyFailsGoes DEF Ownership, VerifyFails
<1>2. FactsTyped' /\ Attempts' = Attempts /\ \A x \in Attempts : Kept(x)
  BY <1>1, FactsUnchanged DEF Ownership
<1>3. /\ r.i \in DOMAIN r.pending /\ a \in Members(r.pending) /\ Held(r) \subseteq Attempts
      /\ r.pending \in Seq(Nat) /\ r.i \in Nat
  BY <1>1, HeldAttempts DEF Ownership, Handling, Run
<1>4. /\ Ordered(r.pending) /\ \A n \in DOMAIN r.pending : n >= r.i => Ready(facts[r.pending[n]])
  BY <1>1 DEF Ownership, Staged, Stage
<1>5. Ready(facts[a]) /\ \A n \in DOMAIN r.pending : n > r.i => Ready(facts[r.pending[n]])
  <2>1. DOMAIN r.pending \subseteq Nat
    BY <1>3, MemberTyped
  <2>2. QED
    BY <1>3, <1>4, <2>1
<1>6. Members(<<a>>) = {a}
  BY DEF Members
<1> HIDE DEF a
<1>7. Stage(work'[w], facts')
  <2>1. facts[a].fate # "completed" /\ a = r.pending[r.i]
    BY <1>5 DEF Ready, a
  <2>2. QED
    BY <1>1, <1>5, <1>6, <2>1 DEF Stage, Goes, Undoings
<1>8. Held(work'[w]) \subseteq Held(r) /\ Ordered(work'[w].pending)
  BY <1>1, <1>3, <1>4, <1>6 DEF Goes, Held
<1>9. \A x \in Attempts' : Settled(facts'[x])
  BY <1>1, <1>2 DEF Ownership, AllSettled
<1>10. QED
  BY <1>2, <1>3, <1>7, <1>8, <1>9 DEF Keeps, Kept, Becomes

(* The attempts after the one at hand are others. *)
LEMMA LaterAreOthers ==
  ASSUME NEW s \in Seq(Nat), Ordered(s), NEW i \in DOMAIN s
  PROVE  /\ DOMAIN s \subseteq Nat
         /\ \A n \in DOMAIN s : n > i => s[n] # s[i]
         /\ \A n \in DOMAIN s : n >= i + 1 => n > i
<1>1. DOMAIN s \subseteq Nat /\ \A n \in DOMAIN s : s[n] \in Nat
  BY MemberTyped, ElementOfSeq
<1>2. QED
  BY <1>1 DEF Ordered

LEMMA CompleteFacts ==
  ASSUME Typed, NEW w \in Workers, Complete(w)
  PROVE  LET a == work[w].pending[work[w].i] IN
         /\ a \in Attempts
         /\ FactsTyped' /\ Attempts' = Attempts
         /\ Becomes(a, facts[a].graph, facts[a].archived, facts[a].embedding, facts[a].indexed, "completed")
         /\ \A x \in Attempts \ {a} : Kept(x)
         /\ \A x \in Attempts : facts'[x].current = facts[x].current
<1> DEFINE a == work[w].pending[work[w].i]
<1>1. a \in Attempts
  BY HeldAttempts DEF Complete, Handling, Held
<1>2. facts' = [x \in DOMAIN facts |-> IF x \in {a} THEN [facts[x] EXCEPT !.fate = "completed"] ELSE facts[x]]
  <2>1. facts' = [facts EXCEPT ![a].fate = "completed"] /\ facts = [x \in DOMAIN facts |-> facts[x]]
    BY AttemptsShape DEF Complete
  <2>2. QED
    BY <1>1, <2>1 DEF Attempts
<1> HIDE DEF a
<1>3. {a} \in SUBSET Attempts
  BY <1>1
<1>4. /\ FactsTyped' /\ Attempts' = Attempts
      /\ \A x \in {a} : Becomes(x, facts[x].graph, facts[x].archived, facts[x].embedding, facts[x].indexed, "completed")
      /\ \A x \in Attempts \ {a} : Kept(x)
      /\ \A x \in Attempts : facts'[x].current = facts[x].current
  BY <1>2, <1>3, FactsFated DEF Fates
<1>5. QED
  BY <1>1, <1>4 DEF a

LEMMA CompleteKeeps ==
  ASSUME Ownership, NEW w \in Workers, Complete(w)
  PROVE  Keeps(w)
<1> DEFINE r == work[w]
           a == r.pending[r.i]
<1>1. /\ \/ Goes(w, "verify", r.pending, r.i + 1, r.undo, r.fail)
         \/ Goes(w, "group", r.pending, r.i, r.undo, r.fail)
      /\ r.at = "verify"
  BY CompleteGoes DEF Ownership
<1>2. /\ a \in Attempts
      /\ FactsTyped' /\ Attempts' = Attempts
      /\ Becomes(a, facts[a].graph, facts[a].archived, facts[a].embedding, facts[a].indexed, "completed")
      /\ \A x \in Attempts \ {a} : Kept(x)
  BY CompleteFacts DEF Ownership
<1>3. /\ r.i \in DOMAIN r.pending /\ a \in Members(r.pending) /\ Held(r) \subseteq Attempts
      /\ r.pending \in Seq(Nat)
  BY <1>1, HeldAttempts DEF Ownership, Handling, Run
<1>4. /\ Ordered(r.pending) /\ \A n \in DOMAIN r.pending : n >= r.i => Ready(facts[r.pending[n]])
      /\ r.undo = <<>> /\ r.fail = <<>>
  BY <1>1 DEF Ownership, Staged, Stage, Undoings
<1>5. Ready(facts[a])
  <2>1. r.i >= r.i
    BY <1>3, LaterAreOthers, <1>4
  <2>2. QED
    BY <1>3, <1>4, <2>1
<1>6. \A n \in DOMAIN r.pending : n >= r.i + 1 => Ready(facts'[r.pending[n]])
  <2>1. \A n \in DOMAIN r.pending : r.pending[n] \in Attempts
    BY <1>3 DEF Held, Members
  <2> SUFFICES ASSUME NEW n \in DOMAIN r.pending, n >= r.i + 1
               PROVE  Ready(facts'[r.pending[n]])
    OBVIOUS
  <2>2. r.pending[n] # a /\ n >= r.i
    BY <1>3, <1>4, LaterAreOthers
  <2>3. Ready(facts[r.pending[n]]) /\ Kept(r.pending[n])
    BY <1>2, <1>4, <2>1, <2>2
  <2>4. QED
    BY <2>3 DEF Ready, Kept, Becomes
<1>7. Stage(work'[w], facts')
  BY <1>1, <1>4, <1>6, NothingPending DEF Stage, Goes, Undoings
<1>8. Held(work'[w]) = Held(r) /\ Ordered(work'[w].pending)
  BY <1>1, <1>4 DEF Goes, Held
<1>9. ASSUME NEW x \in Attempts'
      PROVE  Settled(facts'[x])
  <2>1. CASE x = a
    BY <1>2, <1>5, <2>1 DEF Settled, Becomes, Ready
  <2>2. CASE x # a
    <3>1. Kept(x) /\ Settled(facts[x])
      BY <1>2, <2>2 DEF Ownership, AllSettled
    <3>2. QED
      BY <3>1, KeptSettled
  <2>3. QED
    BY <2>1, <2>2
<1>10. a \in Held(r)
  BY <1>3 DEF Held
<1>11. QED
  BY <1>2, <1>3, <1>7, <1>8, <1>9, <1>10 DEF Keeps, Kept, Becomes

LEMMA UndoneKeeps ==
  ASSUME Ownership, NEW w \in Workers, Undoing(w), Undone(w), FactsTyped', Attempts' = Attempts,
         NEW a, a = Head(work[w].undo),
         \A x \in Attempts \ {a} : Kept(x),
         facts'[a].turn = facts[a].turn, facts'[a].priors = facts[a].priors,
         facts'[a].fate # "completed", facts'[a].fate = "repair" \/ Gone(facts'[a])
  PROVE  Keeps(w)
<1> DEFINE r == work[w]
<1>1. /\ r.at \in Undoings /\ r.undo \in Seq(Nat) /\ r.undo # <<>> /\ a \in Members(r.undo) /\ a \in Attempts
      /\ Goes(w, r.at, r.pending, r.i, Tail(r.undo), r.fail)
  BY UndoneGoes DEF Ownership
<1>2. /\ Members(Tail(r.undo)) \subseteq Members(r.undo)
      /\ \A x \in Members(r.undo) : x = a \/ x \in Members(Tail(r.undo))
  BY <1>1, TailMembers
<1>3. r.pending \in Seq(Nat) /\ Held(r) \subseteq Attempts /\ (r.at = "undo_one" => r.i \in DOMAIN r.pending)
  BY HeldAttempts DEF Ownership, Run, Handling
<1>4. Ordered(r.pending) /\ Stage(r, facts)
  BY DEF Ownership, Staged
<1>5. \A x \in Attempts' : Settled(facts'[x])
  <2> SUFFICES ASSUME NEW x \in Attempts
               PROVE  Settled(facts'[x])
    OBVIOUS
  <2>1. CASE x = a
    BY <2>1 DEF Settled
  <2>2. CASE x # a
    <3>1. Kept(x) /\ Settled(facts[x])
      BY <2>2 DEF Ownership, AllSettled
    <3>2. QED
      BY <3>1, KeptSettled
  <2>3. QED
    BY <2>1, <2>2
<1>6. /\ r.at = "undo" => r.pending = <<>>
      /\ r.at = "undo_one" => Members(r.undo) \cup Members(r.fail) \subseteq {r.pending[r.i]}
      /\ r.at = "undo_one" => \A n \in DOMAIN r.pending : n > r.i => Ready(facts[r.pending[n]])
      /\ \A x \in Members(r.undo) \cup Members(r.fail) : facts[x].fate # "completed"
      /\ \A x \in Members(r.fail) : x \in Members(r.undo) \/ facts[x].fate = "repair" \/ Gone(facts[x])
  BY <1>4 DEF Stage
<1>7. r.at = "undo_one" => \A n \in DOMAIN r.pending : n > r.i => Ready(facts'[r.pending[n]])
  <2> SUFFICES ASSUME r.at = "undo_one", NEW n \in DOMAIN r.pending, n > r.i
               PROVE  Ready(facts'[r.pending[n]])
    OBVIOUS
  <2>1. a = r.pending[r.i] /\ r.pending[n] # r.pending[r.i]
    BY <1>1, <1>3, <1>4, <1>6, LaterAreOthers
  <2>2. r.pending[n] \in Attempts
    BY <1>3 DEF Held, Members
  <2>3. Ready(facts[r.pending[n]]) /\ Kept(r.pending[n])
    BY <1>6, <2>1, <2>2
  <2>4. QED
    BY <2>3 DEF Ready, Kept, Becomes
<1>8. \A x \in Members(Tail(r.undo)) \cup Members(r.fail) : facts'[x].fate # "completed"
  <2>1. Members(Tail(r.undo)) \cup Members(r.fail) \subseteq Attempts
    BY <1>2, <1>3 DEF Held
  <2>2. QED
    BY <1>2, <1>6, <2>1 DEF Kept, Becomes
<1>9. \A x \in Members(r.fail) : x \in Members(Tail(r.undo)) \/ facts'[x].fate = "repair" \/ Gone(facts'[x])
  <2>1. Members(r.fail) \subseteq Attempts
    BY <1>3 DEF Held
  <2>2. QED
    BY <1>2, <1>6, <2>1 DEF Kept, Becomes, Gone
<1>10. Stage(work'[w], facts')
  <2>1. /\ work'[w].at = r.at /\ work'[w].pending = r.pending /\ work'[w].i = r.i
        /\ work'[w].undo = Tail(r.undo) /\ work'[w].fail = r.fail
    BY <1>1 DEF Goes
  <2>2. r.at = "undo_one" => Members(Tail(r.undo)) \cup Members(r.fail) \subseteq {r.pending[r.i]}
    BY <1>2, <1>6
  <2>3. QED
    BY <1>1, <1>6, <1>7, <1>8, <1>9, <2>1, <2>2 DEF Stage, Undoings
<1>11. Held(work'[w]) \subseteq Held(r) /\ Ordered(work'[w].pending)
  BY <1>1, <1>2, <1>4 DEF Goes, Held
<1>12. a \in Held(r)
  BY <1>1 DEF Held
<1>13. QED
  BY <1>1, <1>3, <1>5, <1>10, <1>11, <1>12 DEF Keeps, Kept, Becomes

LEMMA UndoKeeps ==
  ASSUME Ownership, NEW w \in Workers, Undo(w)
  PROVE  Keeps(w)
<1> DEFINE a == Head(work[w].undo)
<1>1. Undoing(w) /\ Undone(w) /\ Typed
  BY DEF Undo, Ownership
<1>2. /\ a \in Attempts
      /\ FactsTyped' /\ Attempts' = Attempts
      /\ facts'[a].embedding # "active"
      /\ Becomes(a, TRUE, TRUE, facts'[a].embedding, FALSE, facts[a].fate)
      /\ \A x \in Attempts \ {a} : Kept(x)
  BY <1>1, UndoFacts
<1>3. facts[a].fate # "completed"
  <2>1. a \in Members(work[w].undo)
    BY <1>1, UndoneGoes
  <2>2. QED
    BY <2>1 DEF Ownership, Staged, Stage
<1>4. /\ facts'[a].turn = facts[a].turn /\ facts'[a].priors = facts[a].priors
      /\ facts'[a].fate # "completed" /\ Gone(facts'[a])
  BY <1>2, <1>3 DEF Becomes, Gone
<1>5. QED
  BY <1>1, <1>2, <1>4, UndoneKeeps

LEMMA UndoFailsKeeps ==
  ASSUME Ownership, NEW w \in Workers, UndoFails(w)
  PROVE  Keeps(w)
<1> DEFINE a == Head(work[w].undo)
<1>1. Undoing(w) /\ Undone(w) /\ Typed
  BY DEF UndoFails, Ownership
<1>2. /\ a \in Attempts
      /\ FactsTyped' /\ Attempts' = Attempts
      /\ facts'[a].fate = "repair" /\ facts'[a].turn = facts[a].turn /\ facts'[a].priors = facts[a].priors
      /\ \A x \in Attempts \ {a} : Kept(x)
  BY <1>1, UndoFailsFacts
<1>3. QED
  BY <1>1, <1>2, UndoneKeeps

LEMMA RecordFailureFacts ==
  ASSUME Typed, NEW w \in Workers, RecordFailure(w)
  PROVE  LET a == Head(work[w].fail) IN
         /\ a \in Attempts
         /\ FactsTyped' /\ Attempts' = Attempts
         /\ Becomes(a, facts[a].graph, facts[a].archived, facts[a].embedding, facts[a].indexed,
                    IF facts[a].fate = "running" THEN "failed" ELSE facts[a].fate)
         /\ \A x \in Attempts \ {a} : Kept(x)
         /\ \A x \in Attempts : facts'[x].current = facts[x].current
<1> DEFINE a == Head(work[w].fail)
           fate == IF facts[a].fate = "running" THEN "failed" ELSE facts[a].fate
<1>1. a \in Attempts
  BY RecordFailureGoes
<1>2. fate \in Fates
  BY <1>1, AttemptsShape DEF Fact, Fates
<1>3. facts' = [x \in DOMAIN facts |-> IF x \in {a} THEN [facts[x] EXCEPT !.fate = fate] ELSE facts[x]]
  <2>1. facts' = [facts EXCEPT ![a].fate = fate] /\ facts = [x \in DOMAIN facts |-> facts[x]]
    <3>1. a \in DOMAIN facts /\ facts[a] \in Fact(Attempts) /\ facts = [x \in DOMAIN facts |-> facts[x]]
      BY <1>1, AttemptsShape DEF Attempts
    <3>2. facts' = [facts EXCEPT ![a].fate = IF @ = "running" THEN "failed" ELSE @]
      BY DEF RecordFailure
    <3>3. QED
      BY <3>1, <3>2 DEF Fact
  <2>2. QED
    BY <1>1, <2>1 DEF Attempts
<1>4. {a} \in SUBSET Attempts
  BY <1>1
<1> HIDE DEF fate
<1> HIDE DEF a
<1>5. /\ FactsTyped' /\ Attempts' = Attempts
      /\ \A x \in {a} : Becomes(x, facts[x].graph, facts[x].archived, facts[x].embedding, facts[x].indexed, fate)
      /\ \A x \in Attempts \ {a} : Kept(x)
      /\ \A x \in Attempts : facts'[x].current = facts[x].current
  BY <1>2, <1>3, <1>4, FactsFated
<1>6. QED
  BY <1>1, <1>5 DEF a, fate

LEMMA RecordFailureKeeps ==
  ASSUME Ownership, NEW w \in Workers, RecordFailure(w)
  PROVE  Keeps(w)
<1> DEFINE r == work[w]
           a == Head(r.fail)
           fate == IF facts[a].fate = "running" THEN "failed" ELSE facts[a].fate
<1>1. /\ r.at \in Undoings /\ r.fail \in Seq(Nat) /\ r.fail # <<>> /\ r.undo = <<>>
      /\ a \in Members(r.fail) /\ a \in Attempts
      /\ \/ Goes(w, r.at, r.pending, r.i, <<>>, Tail(r.fail))
         \/ Tail(r.fail) = <<>> /\ r.at = "undo_one" /\ Goes(w, "verify", r.pending, r.i + 1, <<>>, <<>>)
         \/ Tail(r.fail) = <<>> /\ Goes(w, "group", r.pending, r.i, <<>>, <<>>)
  BY RecordFailureGoes DEF Ownership
<1>2. /\ FactsTyped' /\ Attempts' = Attempts
      /\ Becomes(a, facts[a].graph, facts[a].archived, facts[a].embedding, facts[a].indexed, fate)
      /\ \A x \in Attempts \ {a} : Kept(x)
  BY RecordFailureFacts DEF Ownership
<1>3. /\ Members(Tail(r.fail)) \subseteq Members(r.fail)
  BY <1>1, TailMembers
<1>4. r.pending \in Seq(Nat) /\ Held(r) \subseteq Attempts /\ (r.at = "undo_one" => r.i \in DOMAIN r.pending)
  BY HeldAttempts DEF Ownership, Run, Handling
<1>5. Ordered(r.pending) /\ Stage(r, facts)
  BY DEF Ownership, Staged
<1>6. /\ r.at = "undo" => r.pending = <<>>
      /\ r.at = "undo_one" => Members(r.fail) \subseteq {r.pending[r.i]}
      /\ r.at = "undo_one" => \A n \in DOMAIN r.pending : n > r.i => Ready(facts[r.pending[n]])
      /\ \A x \in Members(r.fail) : facts[x].fate # "completed"
      /\ \A x \in Members(r.fail) : facts[x].fate = "repair" \/ Gone(facts[x])
  BY <1>1, <1>5, NothingPending DEF Stage
<1>7. facts[a].fate # "completed" /\ (facts[a].fate = "repair" \/ Gone(facts[a])) /\ fate # "completed"
  BY <1>1, <1>6
<1>8. fate = "repair" \/ Gone(facts'[a])
  BY <1>2, <1>7 DEF Becomes, Gone
<1>9. facts'[a].fate = fate
  BY <1>2 DEF Becomes
<1> HIDE DEF fate
<1>10. \A x \in Attempts' : Settled(facts'[x])
  <2> SUFFICES ASSUME NEW x \in Attempts
               PROVE  Settled(facts'[x])
    BY <1>2
  <2>1. CASE x = a
    BY <1>7, <1>8, <1>9, <2>1 DEF Settled
  <2>2. CASE x # a
    <3>1. Kept(x) /\ Settled(facts[x])
      BY <1>2, <2>2 DEF Ownership, AllSettled
    <3>2. QED
      BY <3>1, KeptSettled
  <2>3. QED
    BY <2>1, <2>2
<1>11. r.at = "undo_one" => \A n \in DOMAIN r.pending : n > r.i => Ready(facts'[r.pending[n]])
  <2> SUFFICES ASSUME r.at = "undo_one", NEW n \in DOMAIN r.pending, n > r.i
               PROVE  Ready(facts'[r.pending[n]])
    OBVIOUS
  <2>1. a = r.pending[r.i] /\ r.pending[n] # r.pending[r.i]
    BY <1>1, <1>4, <1>5, <1>6, LaterAreOthers
  <2>2. r.pending[n] \in Attempts
    BY <1>4 DEF Held, Members
  <2>3. Ready(facts[r.pending[n]]) /\ Kept(r.pending[n])
    BY <1>2, <1>6, <2>1, <2>2
  <2>4. QED
    BY <2>3 DEF Ready, Kept, Becomes
<1>12. /\ \A x \in Members(Tail(r.fail)) : facts'[x].fate # "completed"
       /\ \A x \in Members(Tail(r.fail)) : facts'[x].fate = "repair" \/ Gone(facts'[x])
  <2> SUFFICES ASSUME NEW x \in Members(Tail(r.fail))
               PROVE  facts'[x].fate # "completed" /\ (facts'[x].fate = "repair" \/ Gone(facts'[x]))
    OBVIOUS
  <2>1. x \in Attempts /\ x \in Members(r.fail)
    BY <1>3, <1>4 DEF Held
  <2>2. CASE x = a
    BY <1>7, <1>8, <1>9, <2>2
  <2>3. CASE x # a
    <3>1. Kept(x) /\ facts[x].fate # "completed" /\ (facts[x].fate = "repair" \/ Gone(facts[x]))
      BY <1>2, <1>6, <2>1, <2>3
    <3>2. QED
      BY <3>1 DEF Kept, Becomes, Gone
  <2>4. QED
    BY <2>2, <2>3
<1>13. Stage(work'[w], facts') /\ Held(work'[w]) \subseteq Held(r) /\ Ordered(work'[w].pending)
  <2>1. CASE Goes(w, r.at, r.pending, r.i, <<>>, Tail(r.fail))
    <3>1. r.at = "undo_one" => Members(Tail(r.fail)) \subseteq {r.pending[r.i]}
      BY <1>3, <1>6
    <3>2. Stage(work'[w], facts')
      BY <1>1, <1>6, <1>11, <1>12, <2>1, <3>1, NothingPending DEF Stage, Goes, Undoings
    <3>3. QED
      BY <1>3, <1>5, <2>1, <3>2, NothingPending DEF Goes, Held
  <2>2. CASE r.at = "undo_one" /\ Goes(w, "verify", r.pending, r.i + 1, <<>>, <<>>)
    <3>1. \A n \in DOMAIN r.pending : n >= r.i + 1 => Ready(facts'[r.pending[n]])
      BY <1>4, <1>5, <1>11, <2>2, LaterAreOthers
    <3>2. Stage(work'[w], facts')
      BY <2>2, <3>1, NothingPending DEF Stage, Goes, Undoings
    <3>3. QED
      BY <1>5, <2>2, <3>2, NothingPending DEF Goes, Held
  <2>3. CASE Goes(w, "group", r.pending, r.i, <<>>, <<>>)
    <3>1. Stage(work'[w], facts')
      BY <2>3, NothingPending DEF Stage, Goes, Undoings
    <3>2. QED
      BY <1>5, <2>3, <3>1, NothingPending DEF Goes, Held
  <2>4. QED
    BY <1>1, <2>1, <2>2, <2>3
<1>14. a \in Held(r)
  BY <1>1 DEF Held
<1>15. QED
  BY <1>1, <1>2, <1>4, <1>10, <1>13, <1>14 DEF Keeps, Kept, Becomes

-----------------------------------------------------------------------------
(* Every step keeps the types, the stages and the ownership of attempts. *)

Rests(w) == WorkTyped' /\ Placed(work'[w]) /\ \A v \in Workers \ {w} : work'[v] = work[v]

LEMMA GoesRests ==
  ASSUME NEW w, NEW at, NEW pending, NEW i, NEW undo, NEW fail, Goes(w, at, pending, i, undo, fail)
  PROVE  Rests(w)
BY DEF Goes, Rests

LEMMA WorkerStepKeeps ==
  ASSUME Ownership, NEW w \in Workers, WorkerStep(w)
  PROVE  Keeps(w) /\ Rests(w)
<1>1. Typed
  BY DEF Ownership
<1>2. CASE Start(w)
  BY <1>1, <1>2, StartKeeps, StartGoes, GoesRests
<1>3. CASE NextGroup(w)
  BY <1>1, <1>3, NextGroupKeeps, NextGroupGoes, GoesRests
<1>4. CASE Finish(w)
  BY <1>1, <1>4, FinishKeeps, GoesIdle, GoesRests DEF Finish
<1>5. CASE Begin(w)
  BY <1>1, <1>5, BeginKeeps, BeginGoes, GoesRests
<1>6. CASE Abort(w)
  BY <1>1, <1>6, AbortKeeps, GoesIdle, GoesRests DEF Abort
<1>7. CASE Extract(w)
  BY <1>1, <1>7, ExtractKeeps, ExtractGoes, GoesRests
<1>8. CASE \E kind \in Failures : ExtractFails(w, kind)
  BY <1>1, <1>8, ExtractFailsKeeps, ExtractFailsGoes, GoesRests
<1>9. CASE SkipGroup(w)
  BY <1>1, <1>9, SkipGroupKeeps, SkipGroupGoes, GoesRests
<1>10. CASE WriteGraph(w)
  BY <1>1, <1>10, WriteGraphKeeps, WriteGraphGoes, GoesRests
<1>11. CASE WriteGraphFails(w)
  <2>1. PICK kind \in Failures : Set(w, Failing(work[w], <<>>, kind))
    BY <1>11 DEF WriteGraphFails, Failures
  <2>2. work[w].at # "idle"
    BY <1>11 DEF WriteGraphFails, ToWrite
  <2>3. QED
    BY <1>1, <1>11, <2>1, <2>2, WriteGraphFailsKeeps, FailingGoes, GoesRests
<1>12. CASE MarkEmbeddings(w)
  <2>1. Mark(w, "embed_mark", "pending_embeddings", "persist")
    BY <1>12 DEF MarkEmbeddings
  <2>2. QED
    BY <1>1, <1>12, <2>1, MarkKeeps, MarkGoes, GoesRests
<1>13. CASE MarkVerifying(w)
  <2>1. Mark(w, "verify_mark", "verifying", "verify")
    BY <1>13 DEF MarkVerifying
  <2>2. QED
    BY <1>1, <1>13, <2>1, MarkKeeps, MarkGoes, GoesRests
<1>14. CASE Persist(w)
  BY <1>1, <1>14, PersistKeeps, PersistGoes, GoesRests
<1>15. CASE PersistFails(w)
  <2>1. work[w].at # "idle" /\ Set(w, Failing(work[w], work[w].pending, "retryable_failed"))
    BY <1>15 DEF PersistFails
  <2>2. QED
    BY <1>1, <1>15, <2>1, PersistFailsKeeps, FailingGoes, GoesRests DEF Failures
<1>16. CASE Complete(w)
  BY <1>1, <1>16, CompleteKeeps, CompleteGoes, GoesRests
<1>17. CASE VerifyFails(w)
  BY <1>1, <1>17, VerifyFailsKeeps, VerifyFailsGoes, GoesRests
<1>18. CASE Undo(w)
  BY <1>1, <1>18, UndoKeeps, UndoneGoes, GoesRests DEF Undo
<1>19. CASE UndoFails(w)
  BY <1>1, <1>19, UndoFailsKeeps, UndoneGoes, GoesRests DEF UndoFails
<1>20. CASE RecordFailure(w)
  BY <1>1, <1>20, RecordFailureKeeps, RecordFailureGoes, GoesRests
<1>21. QED
  BY <1>2, <1>3, <1>4, <1>5, <1>6, <1>7, <1>8, <1>9, <1>10, <1>11, <1>12, <1>13, <1>14, <1>15, <1>16, <1>17, <1>18, <1>19,
     <1>20 DEF WorkerStep

Verdicts == {"succeeded", "partial", "failed"}

LEMMA VerdictTyped ==
  ASSUME NEW states
  PROVE  /\ Verdict(states) \in Verdicts
         /\ Verdict(states) = "succeeded" => states \subseteq {"completed"}
BY DEF Verdict, Verdicts

Entry == [turns : Submissions \cup {<<>>}, runError : BOOLEAN,
          entry : {"absent", "pending", "succeeded", "partial", "failed"}]

BooksTyped ==
  /\ jobs \in [Turns -> Job]
  /\ batches \in [Batches -> Entry]
  /\ queue \in Seq(Batches)
  /\ runs \in 0 .. MaxRuns
  /\ faults \in 0 .. MaxFaults

LEMMA FaultTyped ==
  ASSUME BooksTyped, Fault \/ UNCHANGED faults
  PROVE  faults' \in 0 .. MaxFaults
BY BoundsAssumption DEF BooksTyped, Fault

LEMMA BooksAreTyped ==
  ASSUME Typed
  PROVE  BooksTyped
BY DEF Typed, TypeOK, BooksTyped, Job, Entry

(* Every step of a thread but the completion of an attempt completes no chunk. *)
LEMMA QuietJobs ==
  ASSUME Typed, NEW w \in Workers, WorkerStep(w), ~Complete(w)
  PROVE  JobsKept
<1>1. CASE UNCHANGED jobs
  BY <1>1 DEF JobsKept, Typed, TypeOK, Job
<1>2. CASE Begin(w)
  <2> DEFINE t == Head(work[w].group)
             job == IF jobs[t].state = "absent" THEN [jobs[t] EXCEPT !.state = "pending_graph"] ELSE jobs[t]
  <2>1. t \in Turns
    BY <1>2, BeginGoes
  <2>2. jobs' = [jobs EXCEPT ![t] = job] /\ jobs \in [Turns -> Job]
    BY <1>2 DEF Begin, Typed, TypeOK, Job
  <2>3. job \in Job /\ (job.state = "completed" <=> jobs[t].state = "completed")
    BY <2>1, <2>2 DEF Job, JobStates, InFlight
  <2> HIDE DEF job
  <2>4. QED
    BY <2>1, <2>2, <2>3 DEF JobsKept
<1>3. CASE \E kind \in Failures : ExtractFails(w, kind)
  <2>1. PICK kind \in Failures : ExtractFails(w, kind)
    BY <1>3
  <2>2. Head(work[w].group) \in Turns /\ SafeTransition(Head(work[w].group), kind)
    BY <2>1, ExtractFailsGoes DEF ExtractFails
  <2>3. kind \in JobStates \ {"absent", "completed"}
    BY DEF JobStates, Failures
  <2>4. QED
    BY <2>2, <2>3, OtherMove
<1>4. CASE RecordFailure(w)
  <2> DEFINE t == facts[Head(work[w].fail)].turn
  <2>1. t \in Turns /\ work[w].kind \in Failures /\ SafeTransition(t, work[w].kind)
    BY <1>4, RecordFailureGoes DEF RecordFailure
  <2>2. work[w].kind \in JobStates \ {"absent", "completed"}
    BY <2>1 DEF JobStates, Failures
  <2>3. QED
    BY <2>1, <2>2, OtherMove
<1>5. ASSUME NEW at \in {"embed_mark", "verify_mark"}, NEW new \in {"pending_embeddings", "verifying"}, NEW next, Mark(w, at, new, next)
      PROVE  JobsKept
  <2> DEFINE t == facts[work[w].pending[work[w].i]].turn
  <2>1. SafeTransition(t, new)
    BY <1>5 DEF Mark, SafeTransition
  <2>2. t \in Turns
    <3>1. work[w].pending[work[w].i] \in Attempts
      BY <1>5, HeldAttempts DEF Mark, Held, Handling
    <3>2. QED
      BY <3>1, AttemptsShape DEF Fact
  <2>3. new \in JobStates \ {"absent", "completed"}
    BY DEF JobStates, InFlight
  <2>4. QED
    BY <2>1, <2>2, <2>3, OtherMove
<1>6. CASE MarkEmbeddings(w)
  BY <1>5, <1>6 DEF MarkEmbeddings
<1>7. CASE MarkVerifying(w)
  BY <1>5, <1>7 DEF MarkVerifying
<1>8. CASE Start(w) \/ NextGroup(w) \/ Finish(w) \/ Abort(w) \/ Extract(w) \/ SkipGroup(w) \/ WriteGraph(w) \/ WriteGraphFails(w)
           \/ Persist(w) \/ PersistFails(w) \/ VerifyFails(w) \/ Undo(w) \/ UndoFails(w)
  BY <1>1, <1>8 DEF Start, NextGroup, Finish, Abort, Extract, SkipGroup, WriteGraph, WriteGraphFails, Persist, PersistFails,
                    VerifyFails, Undo, UndoFails
<1>9. QED
  BY <1>2, <1>3, <1>4, <1>6, <1>7, <1>8 DEF WorkerStep

(* The completion of an attempt is the first of its turn. *)
LEMMA CompleteJobs ==
  ASSUME Typed, NEW w \in Workers, Complete(w)
  PROVE  LET t == facts[work[w].pending[work[w].i]].turn IN
         /\ t \in Turns /\ jobs[t].state # "completed"
         /\ jobs' \in [Turns -> Job] /\ jobs'[t].state = "completed"
         /\ \A u \in Turns \ {t} : jobs'[u] = jobs[u]
<1> DEFINE t == facts[work[w].pending[work[w].i]].turn
<1>1. t \in Turns /\ Transition(t, "completed")
  BY CompleteGoes DEF Complete
<1>2. "completed" \in JobStates \ {"absent"}
  BY DEF JobStates
<1>3. QED
  BY <1>1, <1>2, JobMoves

LEMMA WorkerBooks ==
  ASSUME Typed, NEW w \in Workers, WorkerStep(w)
  PROVE  BooksTyped'
<1>1. BooksTyped
  BY BooksAreTyped
<1>2. jobs' \in [Turns -> Job]
  <2>1. CASE Complete(w)
    BY <2>1, CompleteJobs
  <2>2. CASE ~Complete(w)
    BY <2>2, QuietJobs DEF JobsKept
  <2>3. QED
    BY <2>1, <2>2
<1>3. runs' \in 0 .. MaxRuns
  BY <1>1 DEF BooksTyped, WorkerStep, Start, NextGroup, Finish, Begin, Abort, Extract, ExtractFails, SkipGroup, WriteGraph,
              WriteGraphFails, MarkEmbeddings, MarkVerifying, Mark, Persist, PersistFails, Complete, VerifyFails, Undo, UndoFails, RecordFailure
<1>4. Fault \/ UNCHANGED faults
  BY DEF WorkerStep, Start, NextGroup, Finish, Begin, Abort, Extract, ExtractFails, SkipGroup, WriteGraph,
         WriteGraphFails, MarkEmbeddings, MarkVerifying, Mark, Persist, PersistFails, Complete, VerifyFails, Undo, UndoFails, RecordFailure
<1>5. faults' \in 0 .. MaxFaults
  BY <1>1, <1>4, FaultTyped
<1>6. queue' \in Seq(Batches)
  <2>1. CASE UNCHANGED queue
    BY <1>1, <2>1 DEF BooksTyped
  <2>2. CASE Start(w)
    BY <1>1, <2>2, TailMembers DEF Start, BooksTyped
  <2>3. QED
    BY <2>1, <2>2 DEF WorkerStep, NextGroup, Finish, Begin, Abort, Extract, ExtractFails, SkipGroup, WriteGraph,
         WriteGraphFails, MarkEmbeddings, MarkVerifying, Mark, Persist, PersistFails, Complete, VerifyFails, Undo, UndoFails, RecordFailure
<1>7. batches' \in [Batches -> Entry]
  <2>1. CASE UNCHANGED batches
    BY <1>1, <2>1 DEF BooksTyped
  <2>2. CASE Finish(w)
    <3> DEFINE v == Verdict(StatesOf(work[w].batch, work[w].results))
    <3>1. v \in Verdicts
      BY VerdictTyped
    <3>2. batches' = [batches EXCEPT ![work[w].batch].entry = v]
      BY <2>2 DEF Finish
    <3> HIDE DEF v
    <3>3. QED
      BY <1>1, <3>1, <3>2 DEF BooksTyped, Entry, Verdicts
  <2>3. CASE Abort(w)
    <3>1. PICK recorded \in BOOLEAN :
            batches' = [batches EXCEPT ![work[w].batch].entry = "failed", ![work[w].batch].runError = @ \/ recorded]
      BY <2>3 DEF Abort
    <3> DEFINE b == work[w].batch
               error == batches[b].runError \/ recorded
    <3>2. error \in BOOLEAN
      OBVIOUS
    <3>3. work[w].batch \in Batches
      BY <2>3 DEF Abort, Typed, Placed
    <3>4. batches' = [batches EXCEPT ![b] = [batches[b] EXCEPT !.entry = "failed", !.runError = error]]
      BY <1>1, <3>1, <3>3 DEF BooksTyped, Entry
    <3> HIDE DEF error
    <3>5. QED
      BY <1>1, <3>2, <3>3, <3>4 DEF BooksTyped, Entry
  <2>4. QED
    BY <2>1, <2>2, <2>3 DEF WorkerStep, Start, NextGroup, Begin, Extract, ExtractFails, SkipGroup, WriteGraph,
         WriteGraphFails, MarkEmbeddings, MarkVerifying, Mark, Persist, PersistFails, Complete, VerifyFails, Undo, UndoFails, RecordFailure
<1>8. QED
  BY <1>2, <1>3, <1>5, <1>6, <1>7 DEF BooksTyped

LEMMA TypesAgain ==
  ASSUME BooksTyped', FactsTyped', WorkTyped', \A w \in Workers : Placed(work'[w]) /\ Held(work'[w]) \subseteq Attempts'
  PROVE  Typed'
<1>1. \A w \in Workers : Members(work'[w].pending) \cup Members(work'[w].undo) \cup Members(work'[w].fail) \subseteq Attempts'
  BY DEF Held
<1>2. TypeOK'
  BY <1>1 DEF BooksTyped, Job, Entry, FactsTyped, Fact, TypeOK
<1>3. QED
  BY <1>2 DEF Typed

(* The stages of the other threads stand. *)
LEMMA OthersStaged ==
  ASSUME Ownership, NEW w \in Workers, Keeps(w), NEW v \in Workers \ {w}, work'[v] = work[v]
  PROVE  Stage(work'[v], facts') /\ Ordered(work'[v].pending)
<1> DEFINE r == work[v]
<1>1. Stage(r, facts) /\ Ordered(r.pending) /\ Held(r) \subseteq Attempts \ Held(work[w])
  BY HeldAttempts DEF Ownership, Staged, Owned
<1>2. \A a \in Held(r) : Kept(a)
  BY <1>1 DEF Keeps
<1>3. /\ \A n \in DOMAIN r.pending : r.pending[n] \in Held(r)
      /\ Members(r.undo) \subseteq Held(r) /\ Members(r.fail) \subseteq Held(r)
  BY DEF Held, Members
<1>4. \A a \in Held(r) : /\ Fresh(facts[a]) => Fresh(facts'[a])
                         /\ Stored(facts[a]) => Stored(facts'[a])
                         /\ Ready(facts[a]) => Ready(facts'[a])
                         /\ facts'[a].fate = facts[a].fate
                         /\ Gone(facts[a]) => Gone(facts'[a])
  BY <1>2 DEF Kept, Becomes, Fresh, Stored, Ready, Gone
<1>5. Stage(r, facts')
  BY <1>1, <1>3, <1>4 DEF Stage
<1>6. QED
  BY <1>1, <1>5

LEMMA WorkerOwnership ==
  ASSUME Ownership, NEW w \in Workers, WorkerStep(w)
  PROVE  Ownership'
<1>1. Keeps(w) /\ Rests(w) /\ Typed
  BY WorkerStepKeeps DEF Ownership
<1>2. \A v \in Workers \ {w} : work'[v] = work[v] /\ Held(work[v]) \subseteq Attempts
  BY <1>1, HeldAttempts DEF Rests
<1>3. Typed'
  <2>1. BooksTyped' /\ FactsTyped' /\ WorkTyped'
    BY <1>1, WorkerBooks DEF Keeps, Rests
  <2>2. \A v \in Workers : Placed(work'[v]) /\ Held(work'[v]) \subseteq Attempts'
    BY <1>1, <1>2 DEF Keeps, Rests, Typed
  <2>3. QED
    BY <2>1, <2>2, TypesAgain
<1>4. Staged'
  BY <1>1, <1>2, OthersStaged DEF Staged, Keeps
<1>5. Owned'
  <2> SUFFICES ASSUME NEW u \in Workers, NEW v \in Workers, u # v
               PROVE  Held(work'[u]) \cap Held(work'[v]) = {}
    BY DEF Owned
  <2>1. Held(work[u]) \cap Held(work[v]) = {}
    BY DEF Ownership, Owned
  <2>2. CASE u = w
    BY <1>1, <1>2, <2>1, <2>2 DEF Keeps
  <2>3. CASE v = w
    BY <1>1, <1>2, <2>1, <2>3 DEF Keeps
  <2>4. CASE u # w /\ v # w
    BY <1>2, <2>1, <2>4
  <2>5. QED
    BY <2>2, <2>3, <2>4
<1>6. AllSettled'
  BY <1>1 DEF Keeps, AllSettled
<1>7. QED
  BY <1>3, <1>4, <1>5, <1>6 DEF Ownership

LEMMA RequestBooks ==
  ASSUME Typed, Request
  PROVE  BooksTyped' /\ UNCHANGED <<jobs, facts, work>>
<1>1. BooksTyped
  BY BooksAreTyped
<1>2. ASSUME NEW b \in Batches, Retry(b)
      PROVE  BooksTyped'
  <2>1. batches' = [batches EXCEPT ![b] = [batches[b] EXCEPT !.entry = "pending", !.runError = FALSE]]
    BY <1>1, <1>2 DEF Retry, BooksTyped, Entry
  <2>2. batches' \in [Batches -> Entry]
    BY <1>1, <2>1 DEF BooksTyped, Entry
  <2>3. queue' \in Seq(Batches)
    BY <1>1, <1>2, AppendProperties DEF Retry, BooksTyped
  <2>4. runs' \in 0 .. MaxRuns
    BY <1>1, <1>2, BoundsAssumption DEF Retry, BooksTyped
  <2>5. QED
    BY <1>1, <1>2, <2>2, <2>3, <2>4 DEF Retry, BooksTyped
<1>3. ASSUME NEW b \in Batches, NEW turns \in Submissions, Submit(b, turns)
      PROVE  BooksTyped'
  <2>1. batches' \in [Batches -> Entry]
    BY <1>1, <1>3 DEF Submit, BooksTyped, Entry
  <2>2. queue' \in Seq(Batches)
    BY <1>1, <1>3, AppendProperties DEF Submit, BooksTyped
  <2>3. runs' \in 0 .. MaxRuns
    BY <1>1, <1>3, BoundsAssumption DEF Submit, BooksTyped
  <2>4. QED
    BY <1>1, <1>3, <2>1, <2>2, <2>3 DEF Submit, BooksTyped
<1>4. QED
  BY <1>2, <1>3 DEF Request, Retry, Submit

LEMMA RequestOwnership ==
  ASSUME Ownership, Request
  PROVE  Ownership'
<1>1. BooksTyped' /\ facts' = facts /\ work' = work /\ Typed
  BY RequestBooks DEF Ownership
<1>2. FactsTyped /\ WorkTyped /\ \A w \in Workers : Placed(work[w]) /\ Held(work[w]) \subseteq Attempts
  BY <1>1, AttemptsShape, HeldAttempts DEF FactsTyped, Typed
<1>3. FactsTyped' /\ WorkTyped' /\ Attempts' = Attempts
  BY <1>1, <1>2 DEF FactsTyped, WorkTyped, Fact, Attempts
<1>4. Typed'
  BY <1>1, <1>2, <1>3, TypesAgain
<1>5. Staged' /\ Owned' /\ AllSettled'
  BY <1>1, <1>3 DEF Ownership, Staged, Owned, AllSettled
<1>6. QED
  BY <1>4, <1>5 DEF Ownership

LEMMA RestartFacts ==
  ASSUME Typed, Restart
  PROVE  /\ FactsTyped' /\ Attempts' = Attempts
         /\ \A a \in Attempts : \/ Kept(a)
                                \/ /\ facts[a].fate = "running"
                                   /\ Becomes(a, facts[a].graph, facts[a].archived, facts[a].embedding, facts[a].indexed, "dead")
         /\ \A a \in Attempts : facts'[a].current = facts[a].current
<1> DEFINE as == {a \in Attempts : facts[a].fate = "running"}
<1>1. facts' = [a \in DOMAIN facts |-> IF a \in as THEN [facts[a] EXCEPT !.fate = "dead"] ELSE facts[a]]
  BY DEF Restart, Attempts
<1>2. as \in SUBSET Attempts /\ \A a \in as : facts[a].fate = "running"
  OBVIOUS
<1> HIDE DEF as
<1>3. /\ FactsTyped' /\ Attempts' = Attempts
      /\ \A a \in as : Becomes(a, facts[a].graph, facts[a].archived, facts[a].embedding, facts[a].indexed, "dead")
      /\ \A a \in Attempts \ as : Kept(a)
      /\ \A a \in Attempts : facts'[a].current = facts[a].current
  BY <1>1, <1>2, FactsFated DEF Fates
<1>4. QED
  BY <1>2, <1>3

LEMMA RestartOwnership ==
  ASSUME Ownership, Restart
  PROVE  Ownership'
<1>1. /\ FactsTyped' /\ Attempts' = Attempts
      /\ \A a \in Attempts : \/ Kept(a)
                             \/ /\ facts[a].fate = "running"
                                /\ Becomes(a, facts[a].graph, facts[a].archived, facts[a].embedding, facts[a].indexed, "dead")
  BY RestartFacts DEF Ownership
<1>2. \A w \in Workers : work'[w] = Idle
  BY DEF Restart
<1>3. Idle.pending = <<>> /\ Idle.undo = <<>> /\ Idle.fail = <<>> /\ Idle.at = "idle"
  BY DEF Idle
<1>4. Placed(Idle) /\ Held(Idle) = {} /\ Ordered(Idle.pending)
  BY <1>3, NothingPending DEF Placed, Held, Handling
<1>5. Stage(Idle, facts')
  BY <1>3, NothingPending DEF Stage, Undoings
<1>6. WorkTyped'
  BY IdleRun DEF WorkTyped, Restart
<1>7. BooksTyped'
  <2>1. BooksTyped
    BY BooksAreTyped DEF Ownership
  <2>2. \A b \in Batches : [batches[b] EXCEPT !.entry = "absent"] \in Entry
    BY <2>1 DEF BooksTyped, Entry
  <2>3. batches' \in [Batches -> Entry]
    BY <2>2 DEF Restart
  <2>4. queue' \in Seq(Batches)
    BY EmptySeq DEF Restart
  <2>5. faults' \in 0 .. MaxFaults
    BY <2>1, FaultTyped DEF Restart
  <2>6. QED
    BY <2>1, <2>3, <2>4, <2>5 DEF BooksTyped, Restart
<1>8. Typed'
  BY <1>1, <1>2, <1>4, <1>6, <1>7, TypesAgain
<1>9. Staged' /\ Owned'
  BY <1>2, <1>4, <1>5 DEF Staged, Owned
<1>10. AllSettled'
  <2> SUFFICES ASSUME NEW a \in Attempts
               PROVE  Settled(facts'[a])
    BY <1>1 DEF AllSettled
  <2>1. CASE Kept(a)
    <3>1. Settled(facts[a])
      BY DEF Ownership, AllSettled
    <3>2. QED
      BY <2>1, <3>1, KeptSettled
  <2>2. CASE facts'[a].fate = "dead"
    BY <2>2 DEF Settled
  <2>3. QED
    BY <1>1, <2>1, <2>2 DEF Becomes
<1>11. QED
  BY <1>8, <1>9, <1>10 DEF Ownership

LEMMA InitOwnership == Init => Ownership
<1> SUFFICES ASSUME Init
             PROVE  Ownership
  OBVIOUS
<1>1. Attempts = {}
  BY DEF Init, Attempts
<1>2. Idle.pending = <<>> /\ Idle.undo = <<>> /\ Idle.fail = <<>> /\ Idle.at = "idle"
  BY DEF Idle
<1>3. Placed(Idle) /\ Held(Idle) = {} /\ Ordered(Idle.pending)
  BY <1>2, NothingPending DEF Placed, Held, Handling
<1>4. Stage(Idle, facts)
  BY <1>2, NothingPending DEF Stage, Undoings
<1>5. BooksTyped
  <2>1. jobs \in [Turns -> Job]
    BY DEF Init, Job, JobStates, InFlight, Failures
  <2>2. batches \in [Batches -> Entry]
    BY DEF Init, Entry
  <2>3. queue \in Seq(Batches)
    BY EmptySeq DEF Init
  <2>4. runs \in 0 .. MaxRuns /\ faults \in 0 .. MaxFaults
    BY BoundsAssumption DEF Init
  <2>5. QED
    BY <2>1, <2>2, <2>3, <2>4 DEF BooksTyped
<1>6. FactsTyped
  BY EmptySeq DEF Init, FactsTyped
<1>7. WorkTyped
  BY IdleRun DEF Init, WorkTyped
<1>8. Typed
  <2>1. \A w \in Workers : /\ Members(work[w].pending) \cup Members(work[w].undo) \cup Members(work[w].fail) \subseteq Attempts
                          /\ Placed(work[w])
    BY <1>3 DEF Init, Held
  <2>2. TypeOK
    BY <1>5, <1>6, <2>1 DEF BooksTyped, Job, Entry, FactsTyped, Fact, TypeOK
  <2>3. QED
    BY <1>7, <2>1, <2>2 DEF Typed
<1>9. Staged /\ Owned /\ AllSettled
  BY <1>1, <1>3, <1>4 DEF Init, Staged, Owned, AllSettled
<1>10. QED
  BY <1>8, <1>9 DEF Ownership

LEMMA StutterOwnership ==
  ASSUME Ownership, UNCHANGED vars
  PROVE  Ownership'
<1>1. Attempts' = Attempts /\ facts' = facts /\ work' = work
  BY DEF vars, Attempts
<1>2. TypeOK'
  BY <1>1 DEF Ownership, Typed, TypeOK, vars
<1>3. QED
  BY <1>1, <1>2 DEF Ownership, Typed, WorkTyped, Staged, Owned, AllSettled, vars

LEMMA StepOwnership ==
  ASSUME Ownership, [Next]_vars
  PROVE  Ownership'
BY RequestOwnership, RestartOwnership, WorkerOwnership, StutterOwnership DEF Next

-----------------------------------------------------------------------------
(* The journal and the attempts: each completed chunk has one completed attempt. *)

(* The kinds of assignments to the facts. *)
LEMMA WorkerFacts ==
  ASSUME NEW w \in Workers, WorkerStep(w)
  PROVE  \/ UNCHANGED facts
         \/ Extract(w)
         \/ Abort(w)
         \/ /\ work[w].at = "begin"
            /\ \E withPriors \in BOOLEAN : Written(Members(work[w].pending), withPriors)
         \/ /\ work[w].at = "persist"
            /\ \E index \in BOOLEAN : Persisted(Members(work[w].pending), index)
         \/ Complete(w)
         \/ Undo(w)
         \/ UndoFails(w)
         \/ RecordFailure(w)
<1>1. CASE Start(w) \/ NextGroup(w) \/ Finish(w) \/ Begin(w) \/ (\E kind \in Failures : ExtractFails(w, kind)) \/ SkipGroup(w)
           \/ MarkEmbeddings(w) \/ MarkVerifying(w) \/ VerifyFails(w)
  BY <1>1 DEF Start, NextGroup, Finish, Begin, ExtractFails, SkipGroup, MarkEmbeddings, MarkVerifying, Mark, VerifyFails
<1>2. CASE WriteGraph(w) \/ WriteGraphFails(w)
  BY <1>2 DEF WriteGraph, WriteGraphFails, ToWrite
<1>3. CASE Persist(w) \/ PersistFails(w)
  BY <1>3 DEF Persist, PersistFails
<1>4. QED
  BY <1>1, <1>2, <1>3 DEF WorkerStep

(* What a group writes to the graph is still fresh, and what it embeds is stored. *)
LEMMA PendingFresh ==
  ASSUME Ownership, NEW w \in Workers
  PROVE  /\ work[w].at = "begin" => \A a \in Members(work[w].pending) : Fresh(facts[a])
         /\ work[w].at = "persist" => \A a \in Members(work[w].pending) : Stored(facts[a])
         /\ work[w].at = "verify" => Ready(facts[work[w].pending[work[w].i]])
         /\ \A a \in Members(work[w].undo) \cup Members(work[w].fail) : facts[a].fate # "completed"
<1>1. Stage(work[w], facts)
  BY DEF Ownership, Staged
<1>2. work[w].at = "verify" => Ready(facts[work[w].pending[work[w].i]])
  <2>1. work[w].at = "verify" => work[w].i \in DOMAIN work[w].pending /\ work[w].i >= work[w].i
    BY HeldAttempts DEF Ownership, Handling, Run
  <2>2. QED
    BY <1>1, <2>1 DEF Stage
<1>3. QED
  BY <1>1, <1>2 DEF Stage, Members

(* The assignment of Abort. *)
LEMMA AbortFacts ==
  ASSUME Ownership, NEW w \in Workers, Abort(w)
  PROVE  /\ Attempts' = Attempts
         /\ \A a \in Attempts : \/ Kept(a)
                                \/ /\ Fresh(facts[a])
                                   /\ Becomes(a, facts[a].graph, facts[a].archived, facts[a].embedding, facts[a].indexed, "failed")
         /\ \A a \in Attempts : facts'[a].current = facts[a].current
<1> DEFINE as == Members(work[w].pending)
<1>1. as \in SUBSET Attempts /\ (\A a \in as : Fresh(facts[a])) /\ Typed
  BY PendingHeld, PendingFresh DEF Ownership, Abort
<1>2. facts' = [a \in DOMAIN facts |-> IF a \in as THEN [facts[a] EXCEPT !.fate = "failed"] ELSE facts[a]]
  BY DEF Abort, Members
<1> HIDE DEF as
<1>3. /\ Attempts' = Attempts
      /\ \A a \in as : Becomes(a, facts[a].graph, facts[a].archived, facts[a].embedding, facts[a].indexed, "failed")
      /\ \A a \in Attempts \ as : Kept(a)
      /\ \A a \in Attempts : facts'[a].current = facts[a].current
  BY <1>1, <1>2, FactsFated DEF Fates
<1>4. QED
  BY <1>1, <1>3

LEMMA QuietFates ==
  ASSUME Ownership, NEW w \in Workers, WorkerStep(w), ~Complete(w)
  PROVE  /\ \A a \in Attempts : facts'[a].fate = "completed" <=> facts[a].fate = "completed"
         /\ \A a \in Attempts' \ Attempts : facts'[a].fate # "completed"
<1>1. Typed
  BY DEF Ownership
<1>2. CASE UNCHANGED facts
  BY <1>2 DEF Attempts
<1>3. CASE Extract(w)
  BY <1>1, <1>3, FactsExtracted DEF Kept, Becomes
<1>4. CASE Abort(w)
  BY <1>4, AbortFacts DEF Kept, Becomes, Fresh
<1>5. CASE \E withPriors \in BOOLEAN : Written(Members(work[w].pending), withPriors)
  <2>1. Members(work[w].pending) \in SUBSET Attempts
    BY <1>1, PendingHeld
  <2>2. Attempts' = Attempts /\ \A a \in Attempts : facts'[a].fate = facts[a].fate
    BY <1>1, <1>5, <2>1, FactsWritten DEF Kept, Becomes
  <2>3. QED
    BY <2>2
<1>6. CASE \E index \in BOOLEAN : Persisted(Members(work[w].pending), index)
  <2>1. Members(work[w].pending) \in SUBSET Attempts
    BY <1>1, PendingHeld
  <2>2. Attempts' = Attempts /\ \A a \in Attempts : facts'[a].fate = facts[a].fate
    BY <1>1, <1>6, <2>1, FactsPersisted DEF Kept, Becomes
  <2>3. QED
    BY <2>2
<1>7. CASE Undo(w)
  <2>1. Attempts' = Attempts /\ \A a \in Attempts : facts'[a].fate = facts[a].fate
    BY <1>1, <1>7, UndoFacts DEF Kept, Becomes
  <2>2. QED
    BY <2>1
<1>8. CASE UndoFails(w)
  <2> DEFINE a == Head(work[w].undo)
  <2>1. facts[a].fate # "completed"
    BY <1>1, <1>8, UndoneGoes, PendingFresh DEF UndoFails
  <2>2. Attempts' = Attempts /\ facts'[a].fate = "repair" /\ \A x \in Attempts \ {a} : Kept(x)
    BY <1>1, <1>8, UndoFailsFacts
  <2>3. QED
    BY <2>1, <2>2 DEF Kept, Becomes
<1>9. CASE RecordFailure(w)
  BY <1>1, <1>9, RecordFailureFacts DEF Kept, Becomes
<1>10. QED
  BY <1>2, <1>3, <1>4, <1>5, <1>6, <1>7, <1>8, <1>9, WorkerFacts

Journal ==
  /\ \A a \in Attempts : facts[a].fate = "completed" => jobs[facts[a].turn].state = "completed"
  /\ \A t \in Turns : jobs[t].state = "completed" => \E a \in Of(t) : facts[a].fate = "completed"
  /\ CompletedOnce

(* Steps that complete nothing. *)
LEMMA QuietJournal ==
  ASSUME Typed, Journal, JobsKept, Attempts \subseteq Attempts',
         \A a \in Attempts : /\ facts'[a].turn = facts[a].turn
                             /\ facts'[a].fate = "completed" <=> facts[a].fate = "completed",
         \A a \in Attempts' \ Attempts : facts'[a].fate # "completed"
  PROVE  Journal'
<1>1. \A a \in Attempts : facts[a].turn \in Turns
  BY AttemptsShape DEF Fact
<1>2. \A a \in Attempts' : facts'[a].fate = "completed" =>
        a \in Attempts /\ facts[a].fate = "completed" /\ facts'[a].turn = facts[a].turn
  OBVIOUS
<1>3. \A a \in Attempts' : facts'[a].fate = "completed" => jobs'[facts'[a].turn].state = "completed"
  BY <1>1, <1>2 DEF Journal, JobsKept
<1>4. \A t \in Turns : jobs'[t].state = "completed" => \E a \in Of(t)' : facts'[a].fate = "completed"
  <2> SUFFICES ASSUME NEW t \in Turns, jobs'[t].state = "completed"
               PROVE  \E a \in Of(t)' : facts'[a].fate = "completed"
    OBVIOUS
  <2>1. PICK a \in Of(t) : facts[a].fate = "completed"
    BY DEF Journal, JobsKept
  <2>2. a \in Of(t)' /\ facts'[a].fate = "completed"
    BY <2>1 DEF Of
  <2>3. QED
    BY <2>2
<1>5. CompletedOnce'
  <2> SUFFICES ASSUME NEW t \in Turns, NEW a \in Of(t)', NEW b \in Of(t)', facts'[a].fate = "completed", facts'[b].fate = "completed"
               PROVE  a = b
    BY DEF CompletedOnce
  <2>1. a \in Of(t) /\ b \in Of(t) /\ facts[a].fate = "completed" /\ facts[b].fate = "completed"
    BY <1>2 DEF Of
  <2>2. QED
    BY <2>1 DEF Journal, CompletedOnce
<1>6. QED
  BY <1>3, <1>4, <1>5 DEF Journal

LEMMA CompleteJournal ==
  ASSUME Ownership, Journal, NEW w \in Workers, Complete(w)
  PROVE  Journal'
<1> DEFINE a == work[w].pending[work[w].i]
           t == facts[a].turn
<1>1. /\ a \in Attempts /\ Attempts' = Attempts
      /\ facts'[a].fate = "completed" /\ \A x \in Attempts \ {a} : facts'[x].fate = facts[x].fate
      /\ \A x \in Attempts : facts'[x].turn = facts[x].turn
  BY CompleteFacts DEF Ownership, Kept, Becomes
<1>2. /\ t \in Turns /\ jobs[t].state # "completed" /\ jobs'[t].state = "completed"
      /\ \A u \in Turns \ {t} : jobs'[u] = jobs[u]
  BY CompleteJobs DEF Ownership
<1>3. \A x \in Attempts : facts[x].turn \in Turns
  BY AttemptsShape DEF Fact, Ownership
<1>4. facts[a].turn = t
  OBVIOUS
<1> HIDE DEF t
<1> HIDE DEF a
<1>5. \A x \in Of(t) : facts[x].fate # "completed"
  BY <1>2 DEF Journal, Of
<1>6. \A x \in Attempts' : facts'[x].fate = "completed" => jobs'[facts'[x].turn].state = "completed"
  <2> SUFFICES ASSUME NEW x \in Attempts, facts'[x].fate = "completed"
               PROVE  jobs'[facts[x].turn].state = "completed"
    BY <1>1
  <2>1. CASE facts[x].turn = t
    BY <1>2, <2>1
  <2>2. CASE facts[x].turn # t
    BY <1>1, <1>2, <1>3, <1>4, <2>2 DEF Journal
  <2>3. QED
    BY <2>1, <2>2
<1>7. \A u \in Turns : jobs'[u].state = "completed" => \E x \in Of(u)' : facts'[x].fate = "completed"
  <2> SUFFICES ASSUME NEW u \in Turns, jobs'[u].state = "completed"
               PROVE  \E x \in Of(u)' : facts'[x].fate = "completed"
    OBVIOUS
  <2>1. CASE u = t
    BY <1>1, <1>4, <2>1 DEF Of
  <2>2. CASE u # t
    <3>1. PICK x \in Of(u) : facts[x].fate = "completed"
      BY <1>2, <2>2 DEF Journal
    <3>2. x # a
      BY <1>4, <2>2, <3>1 DEF Of
    <3>3. x \in Of(u)' /\ facts'[x].fate = "completed"
      BY <1>1, <3>1, <3>2 DEF Of
    <3>4. QED
      BY <3>3
  <2>3. QED
    BY <2>1, <2>2
<1>8. CompletedOnce'
  <2> SUFFICES ASSUME NEW u \in Turns, NEW x \in Of(u)', NEW y \in Of(u)', facts'[x].fate = "completed", facts'[y].fate = "completed"
               PROVE  x = y
    BY DEF CompletedOnce
  <2>1. x \in Of(u) /\ y \in Of(u)
    BY <1>1 DEF Of
  <2>2. CASE u = t
    BY <1>1, <1>5, <2>1, <2>2 DEF Of
  <2>3. CASE u # t
    <3>1. x # a /\ y # a
      BY <1>4, <2>1, <2>3 DEF Of
    <3>2. facts[x].fate = "completed" /\ facts[y].fate = "completed"
      BY <1>1, <2>1, <3>1 DEF Of
    <3>3. QED
      BY <2>1, <3>2 DEF Journal, CompletedOnce
  <2>4. QED
    BY <2>2, <2>3
<1>9. QED
  BY <1>6, <1>7, <1>8 DEF Journal

LEMMA StepJournal ==
  ASSUME Ownership, Journal, [Next]_vars
  PROVE  Journal'
<1>1. Typed /\ jobs \in [Turns -> Job]
  BY DEF Ownership, Typed, TypeOK, Job
<1>2. CASE Request
  BY <1>1, <1>2, RequestBooks, QuietJournal DEF JobsKept, Attempts
<1>3. CASE Restart
  <2>1. /\ Attempts' = Attempts
        /\ \A a \in Attempts : /\ facts'[a].turn = facts[a].turn
                               /\ facts'[a].fate = "completed" <=> facts[a].fate = "completed"
    BY <1>1, <1>3, RestartFacts DEF Kept, Becomes
  <2>2. JobsKept
    BY <1>1, <1>3 DEF Restart, JobsKept
  <2>3. QED
    BY <1>1, <2>1, <2>2, QuietJournal
<1>4. ASSUME NEW w \in Workers, WorkerStep(w), ~Complete(w)
      PROVE  Journal'
  <2>1. Attempts \subseteq Attempts' /\ \A a \in Attempts : facts'[a].turn = facts[a].turn
    BY <1>4, WorkerStepKeeps DEF Keeps
  <2>2. QED
    BY <1>1, <1>4, <2>1, QuietJobs, QuietFates, QuietJournal
<1>5. CASE UNCHANGED vars
  BY <1>1, <1>5, QuietJournal DEF vars, JobsKept, Attempts
<1>6. QED
  BY <1>2, <1>3, <1>4, <1>5, CompleteJournal DEF Next

-----------------------------------------------------------------------------
(* No superseded fact is lost. *)

Lost(f) == f.graph = TRUE /\ f.current = FALSE /\ f.archived = FALSE
Replaces(f) == f.graph = TRUE /\ (f.archived = TRUE => f.fate = "repair")

NoneLost == \A p \in Attempts : Lost(facts[p]) => \E a \in Attempts : p \in facts[a].priors /\ Replaces(facts[a])

(* Replacements stand, and what is lost now was lost before. *)
LEMMA StillNoneLost ==
  ASSUME NoneLost, Attempts \subseteq Attempts',
         \A a \in Attempts : facts'[a].priors = facts[a].priors /\ (Replaces(facts[a]) => Replaces(facts'[a])),
         \A p \in Attempts' : Lost(facts'[p]) => p \in Attempts /\ Lost(facts[p])
  PROVE  NoneLost'
BY DEF NoneLost

(* Steps that touch neither the graph nor the archive. *)
LEMMA FatesNoneLost ==
  ASSUME Typed, NoneLost, Attempts' = Attempts,
         \A a \in Attempts : /\ facts'[a].priors = facts[a].priors /\ facts'[a].graph = facts[a].graph
                             /\ facts'[a].archived = facts[a].archived /\ facts'[a].current = facts[a].current
                             /\ \/ facts'[a].fate = facts[a].fate
                                \/ facts[a].fate = "running"
  PROVE  NoneLost'
<1>1. \A a \in Attempts : Lost(facts'[a]) => Lost(facts[a])
  BY DEF Lost
<1>2. \A a \in Attempts : Replaces(facts[a]) => Replaces(facts'[a])
  BY DEF Replaces
<1>3. QED
  BY <1>1, <1>2, StillNoneLost

LEMMA WorkerNoneLost ==
  ASSUME Ownership, NoneLost, NEW w \in Workers, WorkerStep(w)
  PROVE  NoneLost'
<1>1. Typed
  BY DEF Ownership
<1>2. CASE UNCHANGED facts
  BY <1>2 DEF NoneLost, Attempts
<1>3. CASE Extract(w)
  <2>1. /\ Attempts' = Attempts \cup {Len(facts) + 1} /\ facts'[Len(facts) + 1].graph = FALSE
        /\ \A a \in Attempts : Kept(a) /\ facts'[a].current = facts[a].current
    BY <1>1, <1>3, FactsExtracted
  <2>2. \A a \in Attempts : Replaces(facts[a]) => Replaces(facts'[a])
    BY <2>1 DEF Replaces, Kept, Becomes
  <2>3. \A p \in Attempts' : Lost(facts'[p]) => p \in Attempts /\ Lost(facts[p])
    BY <2>1 DEF Lost, Kept, Becomes
  <2>4. QED
    BY <2>1, <2>2, <2>3, StillNoneLost DEF Kept, Becomes
<1>4. CASE Abort(w)
  <2>1. /\ Attempts' = Attempts
        /\ \A a \in Attempts : /\ facts'[a].priors = facts[a].priors /\ facts'[a].graph = facts[a].graph
                               /\ facts'[a].archived = facts[a].archived /\ facts'[a].current = facts[a].current
                               /\ facts'[a].fate = facts[a].fate \/ facts[a].fate = "running"
    BY <1>4, AbortFacts DEF Kept, Becomes, Fresh
  <2>2. QED
    BY <1>1, <2>1, FatesNoneLost
<1>5. CASE work[w].at = "begin" /\ \E withPriors \in BOOLEAN : Written(Members(work[w].pending), withPriors)
  <2> DEFINE as == Members(work[w].pending)
  <2>1. as \in SUBSET Attempts /\ \A a \in as : Fresh(facts[a])
    BY <1>1, <1>5, PendingHeld, PendingFresh
  <2>2. PICK withPriors \in BOOLEAN : Written(as, withPriors)
    BY <1>5
  <2> HIDE DEF as
  <2>3. /\ Attempts' = Attempts
        /\ \A a \in as : /\ Becomes(a, TRUE, facts[a].archived, facts[a].embedding, facts[a].indexed, facts[a].fate)
                         /\ facts'[a].current = TRUE
        /\ \A a \in Attempts \ as : /\ Kept(a)
                                    /\ \/ facts'[a].current = facts[a].current
                                       \/ \E b \in as : a \in facts[b].priors
    <3>1. CASE withPriors = TRUE
      BY <1>1, <2>1, <2>2, <3>1, FactsWritten
    <3>2. CASE withPriors = FALSE
      BY <1>1, <2>1, <2>2, <3>2, FactsWritten
    <3>3. QED
      BY <3>1, <3>2
  <2>4. \A a \in Attempts : facts'[a].priors = facts[a].priors
    BY <2>3 DEF Kept, Becomes
  <2>5. \A a \in as : Replaces(facts'[a])
    BY <2>1, <2>3 DEF Replaces, Becomes, Fresh
  <2>6. \A a \in Attempts \ as : Replaces(facts[a]) => Replaces(facts'[a])
    BY <2>3 DEF Replaces, Kept, Becomes
  <2> SUFFICES ASSUME NEW p \in Attempts, Lost(facts'[p])
               PROVE  \E a \in Attempts : p \in facts'[a].priors /\ Replaces(facts'[a])
    BY <2>3 DEF NoneLost
  <2>7. p \notin as
    BY <2>3 DEF Lost
  <2>8. CASE \E b \in as : p \in facts[b].priors
    BY <2>1, <2>4, <2>5, <2>8
  <2>9. CASE facts'[p].current = facts[p].current
    <3>1. Lost(facts[p])
      BY <2>3, <2>7, <2>9 DEF Lost, Kept, Becomes
    <3>2. PICK a \in Attempts : p \in facts[a].priors /\ Replaces(facts[a])
      BY <3>1 DEF NoneLost
    <3>3. QED
      BY <2>4, <2>5, <2>6, <3>2
  <2>10. QED
    BY <2>3, <2>7, <2>8, <2>9
<1>6. CASE \E index \in BOOLEAN : Persisted(Members(work[w].pending), index)
  <2>1. Members(work[w].pending) \in SUBSET Attempts
    BY <1>1, PendingHeld
  <2>2. /\ Attempts' = Attempts
        /\ \A a \in Attempts : /\ facts'[a].priors = facts[a].priors /\ facts'[a].graph = facts[a].graph
                               /\ facts'[a].archived = facts[a].archived /\ facts'[a].current = facts[a].current
                               /\ facts'[a].fate = facts[a].fate
    BY <1>1, <1>6, <2>1, FactsPersisted DEF Kept, Becomes
  <2>3. QED
    BY <1>1, <2>2, FatesNoneLost
<1>7. CASE Complete(w)
  <2> DEFINE a == work[w].pending[work[w].i]
  <2>1. facts[a].fate = "running"
    BY <1>7, PendingFresh DEF Complete, Ready
  <2>2. /\ Attempts' = Attempts
        /\ \A x \in Attempts : /\ facts'[x].priors = facts[x].priors /\ facts'[x].graph = facts[x].graph
                               /\ facts'[x].archived = facts[x].archived /\ facts'[x].current = facts[x].current
        /\ \A x \in Attempts \ {a} : facts'[x].fate = facts[x].fate
    BY <1>1, <1>7, CompleteFacts DEF Kept, Becomes
  <2>3. QED
    BY <1>1, <2>1, <2>2, FatesNoneLost
<1>8. CASE Undo(w)
  <2> DEFINE a == Head(work[w].undo)
  <2>1. /\ a \in Attempts /\ Attempts' = Attempts
        /\ facts'[a].archived = TRUE /\ facts'[a].priors = facts[a].priors
        /\ \A x \in Attempts \ {a} : /\ Kept(x)
                                     /\ facts[x].current = TRUE => facts'[x].current = TRUE
                                     /\ x \in facts[a].priors => facts'[x].current = TRUE
        /\ \A x \in Attempts : facts[x].current \in BOOLEAN
    <3>1. \A x \in Attempts : facts[x].current \in BOOLEAN
      BY <1>1, AttemptsShape DEF Fact
    <3>2. QED
      BY <1>1, <1>8, <3>1, UndoFacts DEF Becomes
  <2> SUFFICES ASSUME NEW p \in Attempts, Lost(facts'[p])
               PROVE  \E x \in Attempts : p \in facts'[x].priors /\ Replaces(facts'[x])
    BY <2>1 DEF NoneLost
  <2> HIDE DEF a
  <2>2. p # a /\ p \notin facts[a].priors /\ Kept(p) /\ facts[p].current # TRUE
    BY <2>1 DEF Lost
  <2>3. Lost(facts[p])
    BY <2>1, <2>2 DEF Lost, Kept, Becomes
  <2>4. PICK x \in Attempts : p \in facts[x].priors /\ Replaces(facts[x])
    BY <2>3 DEF NoneLost
  <2>5. x # a
    BY <2>2, <2>4
  <2>6. p \in facts'[x].priors /\ Replaces(facts'[x])
    BY <2>1, <2>4, <2>5 DEF Replaces, Kept, Becomes
  <2>7. QED
    BY <2>6
<1>9. CASE UndoFails(w)
  <2> DEFINE a == Head(work[w].undo)
  <2>1. /\ a \in Attempts /\ Attempts' = Attempts
        /\ facts'[a].fate = "repair" /\ facts'[a].priors = facts[a].priors
        /\ facts[a].graph = TRUE => facts'[a].graph = TRUE
        /\ \/ facts'[a].archived = TRUE
           \/ /\ facts'[a].graph = facts[a].graph /\ facts'[a].current = facts[a].current
              /\ facts'[a].archived = facts[a].archived
        /\ \A x \in Attempts \ {a} : /\ Kept(x)
                                     /\ facts[x].current = TRUE => facts'[x].current = TRUE
        /\ \A x \in Attempts : facts[x].current \in BOOLEAN /\ facts[x].archived \in BOOLEAN
    <3>1. \A x \in Attempts : facts[x].current \in BOOLEAN /\ facts[x].archived \in BOOLEAN
      BY <1>1, AttemptsShape DEF Fact
    <3>2. QED
      BY <1>1, <1>9, <3>1, UndoFailsFacts
  <2> SUFFICES ASSUME NEW p \in Attempts, Lost(facts'[p])
               PROVE  \E x \in Attempts : p \in facts'[x].priors /\ Replaces(facts'[x])
    BY <2>1 DEF NoneLost
  <2> HIDE DEF a
  <2>2. \A x \in Attempts : Replaces(facts[x]) => Replaces(facts'[x]) /\ facts'[x].priors = facts[x].priors
    BY <2>1 DEF Replaces, Kept, Becomes
  <2>3. CASE facts[p].archived = TRUE
    <3>1. p = a
      BY <2>1, <2>3 DEF Lost, Kept, Becomes
    <3>2. QED
      BY <2>1, <2>3, <3>1 DEF Lost
  <2>4. CASE facts[p].archived = FALSE
    <3>1. Lost(facts[p])
      BY <2>1, <2>4 DEF Lost, Kept, Becomes
    <3>2. QED
      BY <2>2, <3>1 DEF NoneLost
  <2>5. QED
    BY <2>1, <2>3, <2>4
<1>10. CASE RecordFailure(w)
  <2>1. /\ Attempts' = Attempts
        /\ \A x \in Attempts : /\ facts'[x].priors = facts[x].priors /\ facts'[x].graph = facts[x].graph
                               /\ facts'[x].archived = facts[x].archived /\ facts'[x].current = facts[x].current
                               /\ facts'[x].fate = facts[x].fate \/ facts[x].fate = "running"
    BY <1>1, <1>10, RecordFailureFacts DEF Kept, Becomes
  <2>2. QED
    BY <1>1, <2>1, FatesNoneLost
<1>11. QED
  BY <1>2, <1>3, <1>4, <1>5, <1>6, <1>7, <1>8, <1>9, <1>10, WorkerFacts

LEMMA StepNoneLost ==
  ASSUME Ownership, NoneLost, [Next]_vars
  PROVE  NoneLost'
<1>1. Typed
  BY DEF Ownership
<1>2. CASE UNCHANGED facts
  BY <1>2 DEF NoneLost, Attempts
<1>3. CASE Restart
  <2>1. /\ Attempts' = Attempts
        /\ \A a \in Attempts : /\ facts'[a].priors = facts[a].priors /\ facts'[a].graph = facts[a].graph
                               /\ facts'[a].archived = facts[a].archived /\ facts'[a].current = facts[a].current
                               /\ facts'[a].fate = facts[a].fate \/ facts[a].fate = "running"
    BY <1>1, <1>3, RestartFacts DEF Kept, Becomes
  <2>2. QED
    BY <1>1, <2>1, FatesNoneLost
<1>4. QED
  BY <1>1, <1>2, <1>3, RequestBooks, WorkerNoneLost DEF Next, vars

-----------------------------------------------------------------------------
(* What is reported of a batch. *)

ResultsTrue == \A w \in Workers : \A t \in Turns : work[w].results[t] = "completed" => jobs[t].state = "completed"

EntriesTrue ==
  \A b \in Batches : batches[b].entry = "succeeded" =>
    \A n \in DOMAIN batches[b].turns : jobs[batches[b].turns[n]].state = "completed"

Reported == ResultsTrue /\ EntriesTrue /\ PendingHasRun

(* A step that goes on with a run leaves its batch, and the entry of it, alone. *)
LEMMA GoesOnReporting ==
  ASSUME Typed, NEW w \in Workers, WorkerStep(w)
  PROVE  \/ Start(w) \/ Finish(w) \/ Abort(w)
         \/ UNCHANGED <<batches, queue>> /\ work'[w].at # "idle" /\ work'[w].batch = work[w].batch
<1>1. CASE NextGroup(w)
  BY <1>1, NextGroupGoes DEF NextGroup, Goes, Tells
<1>2. CASE Begin(w)
  BY <1>2, BeginGoes DEF Begin, Goes, Tells
<1>3. CASE Extract(w)
  BY <1>3, ExtractGoes DEF Extract, Goes, Tells
<1>4. CASE \E kind \in Failures : ExtractFails(w, kind)
  BY <1>4, ExtractFailsGoes DEF ExtractFails, Goes, Tells
<1>5. CASE SkipGroup(w)
  BY <1>5, SkipGroupGoes DEF SkipGroup, Goes, Tells
<1>6. CASE WriteGraph(w)
  BY <1>6, WriteGraphGoes DEF WriteGraph, Goes, Tells
<1>7. CASE WriteGraphFails(w)
  <2>1. PICK kind \in Failures : Set(w, Failing(work[w], <<>>, kind))
    BY <1>7 DEF WriteGraphFails, Failures
  <2>2. work[w].at # "idle"
    BY <1>7 DEF WriteGraphFails, ToWrite
  <2>3. QED
    BY <1>7, <2>1, <2>2, FailingGoes DEF WriteGraphFails, Goes, Tells
<1>8. CASE MarkEmbeddings(w)
  <2>1. Mark(w, "embed_mark", "pending_embeddings", "persist")
    BY <1>8 DEF MarkEmbeddings
  <2>2. QED
    BY <2>1, MarkGoes DEF Mark, Goes, Tells
<1>9. CASE MarkVerifying(w)
  <2>1. Mark(w, "verify_mark", "verifying", "verify")
    BY <1>9 DEF MarkVerifying
  <2>2. QED
    BY <2>1, MarkGoes DEF Mark, Goes, Tells
<1>10. CASE Persist(w)
  BY <1>10, PersistGoes DEF Persist, Goes, Tells
<1>11. CASE PersistFails(w)
  <2>1. work[w].at # "idle" /\ Set(w, Failing(work[w], work[w].pending, "retryable_failed"))
    BY <1>11 DEF PersistFails
  <2>2. QED
    BY <1>11, <2>1, FailingGoes DEF PersistFails, Failures, Goes, Tells
<1>12. CASE Complete(w)
  BY <1>12, CompleteGoes DEF Complete, Goes, Tells
<1>13. CASE VerifyFails(w)
  BY <1>13, VerifyFailsGoes DEF VerifyFails, Goes, Tells
<1>14. CASE Undo(w) \/ UndoFails(w)
  <2>1. Undoing(w) /\ Undone(w) /\ UNCHANGED <<batches, queue>>
    BY <1>14 DEF Undo, UndoFails
  <2>2. QED
    BY <2>1, UndoneGoes DEF Goes, Tells, Undoings
<1>15. CASE RecordFailure(w)
  BY <1>15, RecordFailureGoes DEF RecordFailure, Goes, Tells, Undoings
<1>16. QED
  BY <1>1, <1>2, <1>3, <1>4, <1>5, <1>6, <1>7, <1>8, <1>9, <1>10, <1>11, <1>12, <1>13, <1>14, <1>15 DEF WorkerStep

(* A run notes a turn as completed only when its job is. *)
LEMMA ResultsNoted ==
  ASSUME Typed, NEW w \in Workers, WorkerStep(w), NEW t \in Turns, work'[w].results[t] = "completed"
  PROVE  work[w].results[t] = "completed" \/ jobs'[t].state = "completed"
<1>1. work[w].results \in [Turns -> JobStates]
  BY HeldAttempts DEF Run
<1>2. CASE Start(w) \/ Finish(w) \/ Abort(w)
  <2>1. work'[w].results = [u \in Turns |-> "absent"]
    BY <1>2, StartGoes, GoesIdle DEF Finish, Abort
  <2>2. work'[w].results[t] = "absent"
    BY <2>1
  <2>3. QED
    BY <2>2
<1>3. CASE Begin(w)
  BY <1>1, <1>3, BeginGoes DEF Tells
<1>4. CASE \E kind \in Failures : ExtractFails(w, kind)
  BY <1>1, <1>4, ExtractFailsGoes DEF Tells, Failures
<1>5. CASE RecordFailure(w)
  BY <1>1, <1>5, RecordFailureGoes DEF Tells, Failures
<1>6. CASE Complete(w)
  BY <1>1, <1>6, CompleteGoes, CompleteJobs DEF Tells
<1>7. CASE NextGroup(w) \/ Extract(w) \/ SkipGroup(w) \/ WriteGraph(w) \/ Persist(w) \/ VerifyFails(w)
  BY <1>7, NextGroupGoes, ExtractGoes, SkipGroupGoes, WriteGraphGoes, PersistGoes, VerifyFailsGoes DEF Tells
<1>8. CASE MarkEmbeddings(w)
  <2>1. Mark(w, "embed_mark", "pending_embeddings", "persist")
    BY <1>8 DEF MarkEmbeddings
  <2>2. QED
    BY <2>1, MarkGoes DEF Tells
<1>9. CASE MarkVerifying(w)
  <2>1. Mark(w, "verify_mark", "verifying", "verify")
    BY <1>9 DEF MarkVerifying
  <2>2. QED
    BY <2>1, MarkGoes DEF Tells
<1>10. CASE WriteGraphFails(w) \/ PersistFails(w)
  <2>1. work[w].at # "idle"
    BY <1>10 DEF WriteGraphFails, PersistFails, ToWrite
  <2>2. PICK undo \in {<<>>, work[w].pending}, kind \in Failures : Set(w, Failing(work[w], undo, kind))
    BY <1>10 DEF WriteGraphFails, PersistFails, Failures
  <2>3. QED
    BY <2>1, <2>2, FailingGoes DEF Tells
<1>11. CASE Undo(w) \/ UndoFails(w)
  BY <1>11, UndoneGoes DEF Undo, UndoFails, Tells
<1>12. QED
  BY <1>2, <1>3, <1>4, <1>5, <1>6, <1>7, <1>8, <1>9, <1>10, <1>11 DEF WorkerStep

(* What is completed stays completed. *)
LEMMA StaysCompleted ==
  ASSUME Typed, NEW w \in Workers, WorkerStep(w), NEW t \in Turns, jobs[t].state = "completed"
  PROVE  jobs'[t].state = "completed"
BY QuietJobs, CompleteJobs DEF JobsKept

LEMMA TurnsOfBatch ==
  ASSUME Typed, NEW b \in Batches
  PROVE  \A n \in DOMAIN batches[b].turns : batches[b].turns[n] \in Turns
<1>1. batches[b].turns \in Seq(Turns)
  <2>1. batches[b].turns \in Submissions \cup {<<>>}
    BY DEF Typed, TypeOK
  <2>2. QED
    BY <2>1, EmptySeq, SubmissionsAssumption
<1>2. QED
  BY <1>1, MemberTyped, ElementOfSeq

LEMMA WorkerReported ==
  ASSUME Ownership, Reported, NEW w \in Workers, WorkerStep(w)
  PROVE  Reported'
<1>1. Typed /\ batches \in [Batches -> Entry] /\ queue \in Seq(Batches) /\ \A v \in Workers \ {w} : work'[v] = work[v]
  BY BooksAreTyped, WorkerStepKeeps DEF Ownership, BooksTyped, Rests
<1>2. ResultsTrue'
  BY <1>1, ResultsNoted, StaysCompleted DEF ResultsTrue, Reported
<1>3. CASE UNCHANGED batches
  <2>1. EntriesTrue'
    BY <1>1, <1>3, TurnsOfBatch, StaysCompleted DEF EntriesTrue, Reported
  <2>2. PendingHasRun'
    <3> SUFFICES ASSUME NEW b \in Batches, batches[b].entry = "pending"
                 PROVE  \/ b \in Members(queue')
                        \/ \E v \in Workers : work'[v].at # "idle" /\ work'[v].batch = b
      BY <1>3 DEF PendingHasRun
    <3>1. CASE Start(w)
      <4>1. /\ work'[w].at # "idle" /\ work'[w].batch = Head(queue) /\ work[w].at = "idle"
            /\ queue # <<>> /\ queue' = Tail(queue)
        BY <1>1, <3>1, StartGoes DEF Goes, Start
      <4>2. b \in Members(queue) => b = Head(queue) \/ b \in Members(queue')
        BY <1>1, <4>1, TailMembers
      <4>3. QED
        BY <1>1, <4>1, <4>2 DEF Reported, PendingHasRun
    <3>2. CASE Finish(w) \/ Abort(w)
      <4>1. batches'[work[w].batch].entry # "pending"
        <5>1. work[w].batch \in Batches
          BY <1>1, <3>2 DEF Finish, Abort, Typed, Placed
        <5>2. CASE Finish(w)
          BY <1>1, <5>1, <5>2, VerdictTyped DEF Finish, Verdicts, Entry
        <5>3. CASE Abort(w)
          BY <1>1, <5>1, <5>3 DEF Abort, Entry
        <5>4. QED
          BY <3>2, <5>2, <5>3
      <4>2. work[w].batch # b /\ UNCHANGED queue
        BY <1>3, <3>2, <4>1 DEF Finish, Abort
      <4>3. QED
        BY <1>1, <4>2 DEF Reported, PendingHasRun
    <3>3. CASE UNCHANGED queue /\ work'[w].at # "idle" /\ work'[w].batch = work[w].batch
      BY <1>1, <3>3 DEF Reported, PendingHasRun
    <3>4. QED
      BY <1>1, <3>1, <3>2, <3>3, GoesOnReporting
  <2>3. QED
    BY <1>2, <2>1, <2>2 DEF Reported
<1>4. ASSUME NEW b \in Batches, b = work[w].batch, UNCHANGED queue, work'[w].at = "idle",
             NEW entry \in {"succeeded", "partial", "failed"}, NEW new,
             batches' = [batches EXCEPT ![b] = new], new.turns = batches[b].turns, new.entry = entry,
             entry = "succeeded" => \A n \in DOMAIN batches[b].turns : jobs[batches[b].turns[n]].state = "completed"
      PROVE  Reported'
  <2>1. /\ batches'[b].turns = batches[b].turns /\ batches'[b].entry = entry
        /\ \A c \in Batches \ {b} : batches'[c] = batches[c]
    BY <1>1, <1>4
  <2>2. EntriesTrue'
    <3> SUFFICES ASSUME NEW c \in Batches, batches'[c].entry = "succeeded", NEW n \in DOMAIN batches'[c].turns
                 PROVE  jobs'[batches'[c].turns[n]].state = "completed"
      BY DEF EntriesTrue
    <3>1. batches'[c].turns = batches[c].turns /\ jobs[batches[c].turns[n]].state = "completed"
      BY <1>4, <2>1 DEF Reported, EntriesTrue
    <3>2. batches[c].turns[n] \in Turns
      BY <1>1, <3>1, TurnsOfBatch
    <3>3. QED
      BY <1>1, <3>1, <3>2, StaysCompleted
  <2>3. PendingHasRun'
    BY <1>1, <1>4, <2>1 DEF Reported, PendingHasRun
  <2>4. QED
    BY <1>2, <2>2, <2>3 DEF Reported
<1>5. CASE Finish(w)
  <2> DEFINE b == work[w].batch
             states == StatesOf(b, work[w].results)
  <2>1. b \in Batches /\ batches[b] \in Entry
    BY <1>1, <1>5 DEF Finish, Typed, Placed
  <2>2. Verdict(states) \in {"succeeded", "partial", "failed"} /\ (Verdict(states) = "succeeded" => states \subseteq {"completed"})
    BY VerdictTyped DEF Verdicts
  <2>3. ASSUME Verdict(states) = "succeeded", NEW n \in DOMAIN batches[b].turns
        PROVE  jobs[batches[b].turns[n]].state = "completed"
    <3>1. work[w].results[batches[b].turns[n]] \in states
      BY DEF StatesOf
    <3>2. work[w].results[batches[b].turns[n]] = "completed"
      BY <2>2, <2>3, <3>1
    <3>3. batches[b].turns[n] \in Turns
      BY <1>1, <2>1, TurnsOfBatch
    <3>4. QED
      BY <3>2, <3>3 DEF Reported, ResultsTrue
  <2>4. batches' = [batches EXCEPT ![b].entry = Verdict(states)]
    BY <1>5 DEF Finish
  <2>5. UNCHANGED queue /\ work'[w].at = "idle"
    BY <1>1, <1>5, GoesIdle DEF Finish, Goes
  <2> HIDE DEF states
  <2> DEFINE new == [batches[b] EXCEPT !.entry = Verdict(states)]
  <2>6. batches' = [batches EXCEPT ![b] = new] /\ new.turns = batches[b].turns /\ new.entry = Verdict(states)
    BY <1>1, <2>1, <2>4 DEF Entry
  <2> HIDE DEF new
  <2>7. QED
    BY <1>4, <2>1, <2>2, <2>3, <2>5, <2>6
<1>6. CASE Abort(w)
  <2> DEFINE b == work[w].batch
  <2>1. b \in Batches /\ batches[b] \in Entry
    BY <1>1, <1>6 DEF Abort, Typed, Placed
  <2>2. PICK recorded \in BOOLEAN : batches' = [batches EXCEPT ![b].entry = "failed", ![b].runError = @ \/ recorded]
    BY <1>6 DEF Abort
  <2> DEFINE error == batches[b].runError \/ recorded
             new == [batches[b] EXCEPT !.entry = "failed", !.runError = error]
  <2>3. UNCHANGED queue /\ work'[w].at = "idle"
    BY <1>1, <1>6, GoesIdle DEF Abort, Goes
  <2>4. batches' = [batches EXCEPT ![b] = new]
    BY <1>1, <2>1, <2>2 DEF Entry
  <2> HIDE DEF error
  <2>5. new.turns = batches[b].turns /\ new.entry = "failed"
    BY <2>1 DEF Entry
  <2> HIDE DEF new
  <2>6. QED
    BY <1>4, <2>1, <2>3, <2>4, <2>5
<1>7. QED
  BY <1>1, <1>3, <1>5, <1>6, GoesOnReporting DEF Start

LEMMA RequestReported ==
  ASSUME Typed, Reported, Request
  PROVE  Reported'
<1>1. batches \in [Batches -> Entry] /\ queue \in Seq(Batches) /\ UNCHANGED <<jobs, work>>
  BY BooksAreTyped, RequestBooks DEF BooksTyped
<1>2. PICK b \in Batches : /\ queue' = Append(queue, b) /\ batches'[b].entry = "pending"
                           /\ \A c \in Batches \ {b} : batches'[c] = batches[c]
  BY <1>1 DEF Request, Retry, Submit, Entry
<1>3. \A c \in Members(queue) \cup {b} : c \in Members(queue')
  <2>1. /\ Len(queue) \in Nat /\ DOMAIN queue = 1 .. Len(queue)
        /\ queue' \in Seq(Batches) /\ Len(queue') = Len(queue) + 1
        /\ \A n \in 1 .. Len(queue) : queue'[n] = queue[n]
        /\ queue'[Len(queue) + 1] = b
    BY <1>1, <1>2, AppendProperties, LenProperties
  <2>2. DOMAIN queue' = 1 .. Len(queue) + 1
    BY <2>1, LenProperties
  <2>3. QED
    BY <2>1, <2>2 DEF Members
<1>4. ResultsTrue'
  BY <1>1 DEF ResultsTrue, Reported
<1>5. EntriesTrue'
  BY <1>1, <1>2 DEF EntriesTrue, Reported
<1>6. PendingHasRun'
  BY <1>1, <1>2, <1>3 DEF PendingHasRun, Reported
<1>7. QED
  BY <1>4, <1>5, <1>6 DEF Reported

LEMMA RestartReported ==
  ASSUME Typed, Restart
  PROVE  Reported'
<1>1. batches \in [Batches -> Entry]
  BY BooksAreTyped DEF BooksTyped
<1>2. \A b \in Batches : batches'[b].entry = "absent"
  BY <1>1 DEF Restart, Entry
<1>3. \A w \in Workers : \A t \in Turns : work'[w].results[t] = "absent"
  BY DEF Restart, Idle
<1>4. QED
  BY <1>2, <1>3 DEF Reported, ResultsTrue, EntriesTrue, PendingHasRun

LEMMA StepReported ==
  ASSUME Ownership, Reported, [Next]_vars
  PROVE  Reported'
<1>1. CASE UNCHANGED vars
  BY <1>1 DEF vars, Reported, ResultsTrue, EntriesTrue, PendingHasRun
<1>2. QED
  BY <1>1, RequestReported, RestartReported, WorkerReported DEF Next, Ownership

LEMMA InitOthers == Init => Journal /\ NoneLost /\ Reported
<1> SUFFICES ASSUME Init
             PROVE  Journal /\ NoneLost /\ Reported
  OBVIOUS
<1>1. Attempts = {}
  BY DEF Init, Attempts
<1>2. Journal /\ NoneLost
  BY <1>1 DEF Init, Journal, NoneLost, CompletedOnce, Of
<1>3. \A w \in Workers : \A t \in Turns : work[w].results[t] = "absent"
  BY DEF Init, Idle
<1>4. Reported
  BY <1>3 DEF Init, Reported, ResultsTrue, EntriesTrue, PendingHasRun
<1>5. QED
  BY <1>2, <1>4

-----------------------------------------------------------------------------
(* The theorems. *)

IInv == Ownership /\ Journal /\ NoneLost /\ Reported

LEMMA InitInvariant == Init => IInv
BY InitOwnership, InitOthers DEF IInv

LEMMA StepInvariant == IInv /\ [Next]_vars => IInv'
BY StepOwnership, StepJournal, StepNoneLost, StepReported DEF IInv

LEMMA Invariant == Spec => []IInv
BY InitInvariant, StepInvariant, PTL DEF Spec

(* Whatever runs, retries, failures of stages and of compensations, and     *)
(* restarts there are: what the journal calls completed can be found in all *)
(* three stores, each chunk is completed by one attempt, and what failed    *)
(* without leaving a repair behind cannot be found (orchestrator._verify,   *)
(* _compensate_chunk, is_legal_job_transition).                             *)
THEOREM BatchesStaySound == Spec => []BatchesSound
<1>1. IInv => BatchesSound
  <2> SUFFICES ASSUME IInv
               PROVE  BatchesSound
    OBVIOUS
  <2>1. TypeOK /\ CompletedOnce
    BY DEF IInv, Ownership, Typed, Journal
  <2>2. CompletedIsSearchable
    <3> SUFFICES ASSUME NEW t \in Turns, jobs[t].state = "completed"
                 PROVE  \E a \in Of(t) : /\ facts[a].graph
                                         /\ ~facts[a].archived
                                         /\ facts[a].embedding = "active"
                                         /\ facts[a].indexed
      BY DEF CompletedIsSearchable
    <3>1. PICK a \in Of(t) : facts[a].fate = "completed"
      BY DEF IInv, Journal
    <3>2. facts[a].graph = TRUE /\ facts[a].archived = FALSE /\ facts[a].embedding = "active" /\ facts[a].indexed = TRUE
      BY <3>1 DEF IInv, Ownership, AllSettled, Settled, Of
    <3>3. QED
      BY <3>2
  <2>3. FailedIsUnsearchable
    BY DEF IInv, Ownership, AllSettled, Settled, Gone, FailedIsUnsearchable
  <2>4. QED
    BY <2>1, <2>2, <2>3 DEF BatchesSound
<1>2. QED
  BY <1>1, Invariant, PTL

(* However runs overlap, fail and are undone, a fact that was superseded is *)
(* replaced by one that is there, or is current again                       *)
(* (_compensating_fact_properties).                                         *)
THEOREM NoFactIsLost == Spec => []NoFactLost
<1>1. IInv => NoFactLost
  <2> SUFFICES ASSUME IInv, NEW p \in Attempts, facts[p].graph, ~facts[p].current, ~facts[p].archived
               PROVE  \E a \in Attempts : /\ p \in facts[a].priors
                                          /\ facts[a].graph
                                          /\ facts[a].archived => facts[a].fate = "repair"
    BY DEF NoFactLost
  <2>1. \A x \in Attempts : facts[x].graph \in BOOLEAN /\ facts[x].current \in BOOLEAN /\ facts[x].archived \in BOOLEAN
    BY AttemptsShape DEF IInv, Ownership, Fact
  <2>2. Lost(facts[p])
    BY <2>1 DEF Lost
  <2>3. PICK a \in Attempts : p \in facts[a].priors /\ Replaces(facts[a])
    BY <2>2 DEF IInv, NoneLost
  <2>4. QED
    BY <2>1, <2>3 DEF Replaces
<1>2. QED
  BY <1>1, Invariant, PTL

(* A batch is reported as succeeded only when every chunk of it is          *)
(* completed, and as pending by a live process only while a run of it is    *)
(* queued or going on (get_batch_status, _run_batch_safe).                  *)
THEOREM ReportsStayTrue == Spec => []ReportsTrue
<1>1. IInv => ReportsTrue
  <2> SUFFICES ASSUME IInv
               PROVE  SuccessIsReal
    BY DEF IInv, Reported, ReportsTrue
  <2> SUFFICES ASSUME NEW b \in Batches, Known(b), Status(b) = "succeeded"
               PROVE  StatesOf(b, [t \in Turns |-> jobs[t].state]) = {"completed"}
    BY DEF SuccessIsReal
  <2> DEFINE states == StatesOf(b, [t \in Turns |-> jobs[t].state])
  <2>1. Typed /\ \A n \in DOMAIN batches[b].turns : batches[b].turns[n] \in Turns
    BY TurnsOfBatch DEF IInv, Ownership
  <2>2. states # {}
    <3>1. batches[b].turns \in Seq(Turns)
      <4>1. batches[b].turns \in Submissions \cup {<<>>}
        BY <2>1 DEF Typed, TypeOK
      <4>2. QED
        BY <4>1, EmptySeq, SubmissionsAssumption
    <3>2. 1 \in DOMAIN batches[b].turns
      BY <3>1, MemberTyped DEF Known
    <3>3. QED
      BY <3>2 DEF StatesOf
  <2>3. states \subseteq {"completed"}
    <3>1. CASE batches[b].entry # "absent"
      <4>1. batches[b].entry = "succeeded"
        BY <3>1 DEF Status
      <4>2. \A n \in DOMAIN batches[b].turns : jobs[batches[b].turns[n]].state = "completed"
        BY <4>1 DEF IInv, Reported, EntriesTrue
      <4>3. QED
        BY <2>1, <4>2 DEF StatesOf
    <3>2. CASE batches[b].entry = "absent"
      <4>1. DurableStatus(b) = "succeeded"
        BY <3>2 DEF Status
      <4>2. Verdict(states) = "succeeded"
        BY <4>1 DEF DurableStatus
      <4>3. QED
        BY <4>2, VerdictTyped
    <3>3. QED
      BY <3>1, <3>2
  <2>4. QED
    BY <2>2, <2>3
<1>2. QED
  BY <1>1, Invariant, PTL

=============================================================================
