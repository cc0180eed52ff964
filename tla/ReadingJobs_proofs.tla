------------------------- MODULE ReadingJobs_proofs -------------------------
(***************************************************************************)
(* ReadingJobs for every number of jobs and sessions, whatever fails and   *)
(* wherever the process dies: the types, that a charge is never lost, and  *)
(* that what the reader is shown as spent is what was charged. One         *)
(* inductive invariant, IInv, says of each job how its place, its marker,  *)
(* the ledger and its stored outcome go together.                          *)
(***************************************************************************)
EXTENDS ReadingJobs, TLAPS

\* A job whose thread has not stored an outcome, and one that cannot any more.
Unstored == {"off", "compose", "look", "mark", "reserve", "spawn", "handover", "wait",
             "outcome", "seal", "record"}
Gone == {"ended", "lost"}

\* Each says something of a job j whose record is b. Before the charge there is
\* none and a marker waits for it; after it the job knows; an outcome says so; and
\* a job told its outcome is durable has it stored.
Charged(j, b) ==
  /\ b.at \in {"off", "compose", "look", "mark", "reserve"} => ~b.spent
  /\ b.at \in {"spawn", "handover", "wait"} => b.spent
  /\ b.at \notin Gone => (b.spent <=> j \in ledger)
  /\ b.at = "reserve" => marker[j] # "none"
  /\ b.at \in {"outcome", "seal", "record", "finish"} => (b.outcome.spent <=> b.spent)
  /\ b.at = "finish" /\ b.durable /\ b.spent => recorded[j].spent \/ j \in seen.dropped

\* A job not pressed has left nothing; one with its outcome to come has none stored.
Untouched(j, b) ==
  /\ b.at = "off" => marker[j] = "none"
  /\ b.at \in Unstored => recorded[j] = NoOutcome

\* Recovery looks only at what an earlier process left, and doubts only what was
\* not charged.
Recovering(j, b) ==
  /\ j \in recovering => b.at = "lost"
  /\ j \in seen.doubted => b.at = "lost" /\ j \notin ledger
  /\ ~up => b.at \in {"off", "lost"}

Fits(j, b) == Charged(j, b) /\ Untouched(j, b) /\ Recovering(j, b)

\* The two properties, one job at a time.
Kept1(j) == j \in ledger => marker[j] # "none" \/ recorded[j].spent \/ j \in seen.dropped
Count1(j) == recorded[j] # NoOutcome /\ j \notin seen.doubted
               => (recorded[j].spent <=> j \in ledger)

JobInv(j) == Fits(j, job[j]) /\ Kept1(j) /\ Count1(j)
IInv == TypeOK /\ \A j \in Jobs : JobInv(j)
-----------------------------------------------------------------------------
\* The records an action builds are of their type.
LEMMA OutcomeTyped ==
  ASSUME NEW why \in Reasons, NEW spent \in BOOLEAN PROVE Said(why, spent) \in Outcome
BY DEF Said, Outcome

LEMMA NewJobTyped == ASSUME NEW at \in Stages PROVE NewJob(at) \in JobState
BY DEF NewJob, JobState, NoOutcome, Said, Outcome, Reasons

\* A step that leaves everything said of a job alone keeps what is said of it.
LEMMA OtherJob ==
  ASSUME NEW k \in Jobs, JobInv(k),
         job'[k] = job[k], marker'[k] = marker[k], recorded'[k] = recorded[k],
         k \in ledger' <=> k \in ledger, k \in recovering' => k \in recovering,
         k \in seen'.dropped <=> k \in seen.dropped,
         k \in seen'.doubted <=> k \in seen.doubted, up' = up
  PROVE  JobInv(k)'
BY DEF JobInv, Fits, Charged, Untouched, Recovering, Kept1, Count1

\* The start satisfies the invariant.
LEMMA InitIInv == Init => IInv
<1> SUFFICES ASSUME Init PROVE IInv  OBVIOUS
<1>1. NewJob("off") \in JobState  BY NewJobTyped DEF Stages
<1>2. NoOutcome \in Outcome  BY OutcomeTyped DEF NoOutcome, Reasons
<1>3. TypeOK  BY <1>1, <1>2, ReadingJobsAssumption
               DEF Init, TypeOK, Markers, ReadingJobsAssumption
<1>4. ASSUME NEW j \in Jobs PROVE JobInv(j)
  BY DEF Init, JobInv, Fits, Charged, Untouched, Recovering, Kept1, Count1, NewJob,
            NoOutcome, Said, Gone
<1> QED  BY <1>3, <1>4 DEF IInv

\* A step of one job's own thread: what it must show of its job, and what it must
\* leave to the others.
LEMMA OwnStep ==
  ASSUME IInv, NEW j \in Jobs, NEW b \in JobState, job' = [job EXCEPT ![j] = b],
         NEW m \in Markers, marker' = [marker EXCEPT ![j] = m],
         NEW o \in Outcome, recorded' = [recorded EXCEPT ![j] = o],
         ledger' \in {ledger, ledger \cup {j}},
         seen' \in {seen, [seen EXCEPT !.dropped = @ \cup {j}]},
         slot' \in [Sessions -> Jobs \cup {Free}],
         group' \in [Jobs -> {"none", "running", "exited", "killed", "reaped", "unstopped"}],
         UNCHANGED <<process, canceller, discarded, deaths>>,
         JobInv(j)'
  PROVE  IInv'
<1>1. /\ job \in [Jobs -> JobState] /\ marker \in [Jobs -> Markers]
      /\ recorded \in [Jobs -> Outcome] /\ ledger \subseteq Jobs
      /\ seen \in [dropped: SUBSET Jobs, doubted: SUBSET Jobs, early: SUBSET Jobs,
                   told: SUBSET Jobs]
  BY DEF IInv, TypeOK
<1>2. job' \in [Jobs -> JobState] /\ marker' \in [Jobs -> Markers]
      /\ recorded' \in [Jobs -> Outcome] /\ ledger' \subseteq Jobs
  BY <1>1
<1>3. /\ seen' \in [dropped: SUBSET Jobs, doubted: SUBSET Jobs, early: SUBSET Jobs,
                    told: SUBSET Jobs]
      /\ seen'.doubted = seen.doubted
      /\ \A k \in Jobs : k # j => (k \in seen'.dropped <=> k \in seen.dropped)
  BY <1>1
<1>4. TypeOK'  BY <1>2, <1>3 DEF IInv, TypeOK, process
<1>5. ASSUME NEW k \in Jobs PROVE JobInv(k)'
  <2>1. CASE k = j  BY <2>1
  <2>2. CASE k # j
    <3>1. job'[k] = job[k] /\ marker'[k] = marker[k] /\ recorded'[k] = recorded[k]
      BY <2>2, <1>1
    <3>2. k \in ledger' <=> k \in ledger  BY <2>2
    <3>3. JobInv(k) /\ up' = up /\ recovering' = recovering  BY DEF IInv, process
    <3> QED  BY <3>1, <3>2, <3>3, <1>3, <2>2, OtherJob
  <2> QED  BY <2>1, <2>2
<1> QED  BY <1>4, <1>5 DEF IInv

\* A step of the thread that touches neither the disk nor the history.
LEMMA QuietStep ==
  ASSUME IInv, NEW j \in Jobs, NEW b \in JobState, job' = [job EXCEPT ![j] = b], Fits(j, b),
         slot' \in [Sessions -> Jobs \cup {Free}],
         group' \in [Jobs -> {"none", "running", "exited", "killed", "reaped", "unstopped"}],
         UNCHANGED <<process, canceller, disk, seen, deaths>>
  PROVE  IInv'
<1>1. /\ job \in [Jobs -> JobState] /\ marker \in [Jobs -> Markers]
      /\ recorded \in [Jobs -> Outcome]
  BY DEF IInv, TypeOK
<1>2. /\ marker[j] \in Markers /\ marker' = [marker EXCEPT ![j] = marker[j]]
      /\ recorded[j] \in Outcome /\ recorded' = [recorded EXCEPT ![j] = recorded[j]]
      /\ ledger' = ledger /\ seen' = seen /\ discarded' = discarded
  BY <1>1 DEF disk
<1>3. JobInv(j)'
  <2>1. job'[j] = b /\ JobInv(j) /\ up' = up /\ recovering' = recovering
    BY <1>1 DEF IInv, process
  <2>2. Fits(j, job[j])'
    BY <1>2, <2>1 DEF Fits, Charged, Untouched, Recovering, disk
  <2>3. Kept1(j)' /\ Count1(j)'  BY <1>2, <2>1 DEF JobInv, Kept1, Count1, disk
  <2> QED  BY <2>2, <2>3 DEF JobInv
<1> QED  BY <1>2, <1>3, OwnStep

\* An outcome that says of the charge what the job says may be reached from any
\* stage that still has it to store.
LEMMA YieldsStep ==
  ASSUME IInv, NEW j \in Jobs, up, job[j].at \in {"compose", "look", "mark", "reserve", "spawn", "wait"},
         NEW why \in Reasons, NEW spent \in BOOLEAN, spent = job[j].spent,
         Yields(j, Said(why, spent)),
         group' \in [Jobs -> {"none", "running", "exited", "killed", "reaped", "unstopped"}],
         UNCHANGED <<process, slot, canceller, disk, seen, deaths>>
  PROVE  IInv'
<1>1. /\ job \in [Jobs -> JobState] /\ job[j] \in JobState
      /\ slot \in [Sessions -> Jobs \cup {Free}] /\ Fits(j, job[j])
  BY DEF IInv, TypeOK, JobInv
<1> DEFINE o == Said(why, spent)
           b == [job[j] EXCEPT !.at = "outcome", !.outcome = o]
<1>2. o \in Outcome /\ o.spent = spent  BY OutcomeTyped DEF Said
<1>3. b \in JobState /\ job' = [job EXCEPT ![j] = b]
  BY <1>1, <1>2 DEF Yields, JobState, Stages
<1>4. b.at = "outcome" /\ b.outcome = o /\ b.spent = job[j].spent  BY <1>1 DEF JobState
<1>5. Fits(j, b)
  BY <1>1, <1>2, <1>4 DEF Fits, Charged, Untouched, Recovering, Unstored, Gone
<1> QED  BY <1>1, <1>3, <1>5, QuietStep

\* A move to a stage about which nothing new is claimed.
LEMMA GoesStep ==
  ASSUME IInv, NEW j \in Jobs, up, NEW stage \in {"look", "mark", "handover"}, Goes(j, stage),
         job[j].at = CASE stage = "look" -> "compose"
                       [] stage = "mark" -> "look"
                       [] stage = "handover" -> "spawn",
         group' \in [Jobs -> {"none", "running", "exited", "killed", "reaped", "unstopped"}],
         UNCHANGED <<process, slot, canceller, disk, seen, deaths>>
  PROVE  IInv'
<1>1. /\ job \in [Jobs -> JobState] /\ job[j] \in JobState
      /\ slot \in [Sessions -> Jobs \cup {Free}] /\ Fits(j, job[j])
  BY DEF IInv, TypeOK, JobInv
<1> DEFINE b == [job[j] EXCEPT !.at = stage]
<1>3. b \in JobState /\ job' = [job EXCEPT ![j] = b] /\ b.at = stage /\ b.spent = job[j].spent
  BY <1>1 DEF Goes, JobState, Stages
<1>4. Fits(j, b)
  BY <1>1, <1>3 DEF Fits, Charged, Untouched, Recovering, Unstored, Gone
<1> QED  BY <1>1, <1>3, <1>4, QuietStep
-----------------------------------------------------------------------------
\* One action of the thread after another.
LEMMA AtFacts ==
  ASSUME IInv, NEW j \in Jobs
  PROVE  /\ job \in [Jobs -> JobState] /\ job[j] \in JobState
         /\ marker \in [Jobs -> Markers] /\ recorded \in [Jobs -> Outcome]
         /\ slot \in [Sessions -> Jobs \cup {Free}] /\ SessionOf[j] \in Sessions
         /\ group \in [Jobs -> {"none", "running", "exited", "killed", "reaped", "unstopped"}]
         /\ job[j].spent \in BOOLEAN /\ job[j].outcome \in Outcome /\ job[j].at \in Stages
         /\ Fits(j, job[j]) /\ Kept1(j) /\ Count1(j)
BY ReadingJobsAssumption DEF IInv, TypeOK, JobInv, JobState, ReadingJobsAssumption

\* Where a job's record stands after a move and after an outcome.
LEMMA GoesTo ==
  ASSUME IInv, NEW j \in Jobs, NEW at, Goes(j, at)
  PROVE  /\ job'[j].at = at /\ job'[j].outcome = job[j].outcome
         /\ job'[j].cancelled = job[j].cancelled
BY AtFacts DEF Goes, JobState

LEMMA YieldsTo ==
  ASSUME IInv, NEW j \in Jobs, NEW o, Yields(j, o)
  PROVE  job'[j].at = "outcome" /\ job'[j].outcome = o
BY AtFacts DEF Yields, JobState

LEMMA PressStep == ASSUME IInv, NEW j \in Jobs, Press(j) PROVE IInv'
<1>1. job[j].at = "off" /\ up  BY DEF Press, At
<1>2. PICK stage \in {"compose", "ended"} : Goes(j, stage)  BY DEF Press
<1>3. slot' \in [Sessions -> Jobs \cup {Free}]  BY AtFacts DEF Press
<1> DEFINE b == [job[j] EXCEPT !.at = stage]
<1>4. b \in JobState /\ job' = [job EXCEPT ![j] = b] /\ b.at = stage /\ b.spent = job[j].spent
  BY <1>2, AtFacts DEF Goes, JobState, Stages
<1>5. Fits(j, b)
  BY <1>1, <1>4, AtFacts DEF Fits, Charged, Untouched, Recovering, Unstored, Gone
<1> QED  BY <1>3, <1>4, <1>5, AtFacts, QuietStep DEF Press

LEMMA ComposeStep == ASSUME IInv, NEW j \in Jobs, Compose(j) PROVE IInv'
<1>1. up /\ job[j].at = "compose"  BY DEF Compose, At
<1>2. job[j].spent = FALSE  BY <1>1, AtFacts DEF Fits, Charged
<1>3. CASE \E why \in {"withheld", "failed", "stopping"} : Yields(j, Said(why, FALSE))
  BY <1>1, <1>2, <1>3, AtFacts, YieldsStep DEF Compose, Reasons
<1>4. CASE Goes(j, "look")
  BY <1>1, <1>4, AtFacts, GoesStep DEF Compose
<1> QED  BY <1>3, <1>4 DEF Compose

LEMMA LookStep == ASSUME IInv, NEW j \in Jobs, Look(j) PROVE IInv'
<1>1. up /\ job[j].at = "look"  BY DEF Look, At
<1>2. job[j].spent = FALSE  BY <1>1, AtFacts DEF Fits, Charged
<1>3. CASE \E why \in {"unsent", "none"} : Yields(j, Said(why, FALSE))
  BY <1>1, <1>2, <1>3, AtFacts, YieldsStep DEF Look, Reasons
<1>4. CASE Goes(j, "mark")
  BY <1>1, <1>4, AtFacts, GoesStep DEF Look
<1> QED  BY <1>3, <1>4 DEF Look, NoOutcome

LEMMA CommitStep == ASSUME IInv, NEW j \in Jobs, Commit(j) PROVE IInv'
<1>1. up /\ job[j].at = "mark"  BY DEF Commit, At
<1>2. PICK stage \in {"reserve", "outcome"}, m \in Markers, why \in Reasons :
        /\ job' = [job EXCEPT ![j].at = stage,
                              ![j].outcome = IF stage = "outcome" THEN Said(why, FALSE) ELSE @]
        /\ marker' = [marker EXCEPT ![j] = m]
        /\ stage = "reserve" => m = "bare"
  <2>1. marker[j] \in Markers /\ marker = [marker EXCEPT ![j] = marker[j]]  BY AtFacts
  <2>2. CASE /\ Goes(j, "reserve") /\ marker' = [marker EXCEPT ![j] = "bare"]
    <3>1. job' = [job EXCEPT ![j].at = "reserve", ![j].outcome = @]
      BY <2>2, AtFacts DEF Goes, JobState
    <3> QED  BY <2>2, <3>1 DEF Markers, Reasons
  <2>3. CASE /\ \E why \in {"unrecorded", "unsent"} : Yields(j, Said(why, FALSE))
             /\ marker' = marker \/ marker' = [marker EXCEPT ![j] = "bare"]
    BY <2>1, <2>3 DEF Yields, Markers, Reasons
  <2> QED  BY <2>2, <2>3 DEF Commit
<1> DEFINE o == IF stage = "outcome" THEN Said(why, FALSE) ELSE job[j].outcome
           b == [job[j] EXCEPT !.at = stage, !.outcome = o]
<1>3. o \in Outcome /\ (stage = "outcome" => o.spent = FALSE)
  BY AtFacts, OutcomeTyped DEF Said
<1>4. b \in JobState /\ job' = [job EXCEPT ![j] = b] /\ b.at = stage /\ b.outcome = o
      /\ b.spent = job[j].spent
  BY <1>2, <1>3, AtFacts DEF JobState, Stages
<1>5. job'[j] = b /\ marker'[j] = m  BY <1>2, <1>4, AtFacts
<1>6. recorded[j] \in Outcome /\ recorded' = [recorded EXCEPT ![j] = recorded[j]]
  BY AtFacts DEF Commit
<1>7. /\ ledger' = ledger /\ seen' = seen /\ recorded' = recorded /\ recovering' = recovering
      /\ up' = up
  BY DEF Commit, process
<1>8. JobInv(j)'
  <2>1. Fits(j, job[j])'
    BY <1>1, <1>2, <1>3, <1>4, <1>5, <1>7, AtFacts
    DEF Fits, Charged, Untouched, Recovering, Unstored, Gone
  <2>2. j \notin ledger  BY <1>1, AtFacts DEF Fits, Charged, Gone
  <2> QED  BY <2>1, <2>2, <1>7, AtFacts DEF JobInv, Kept1, Count1
<1> QED
  BY <1>2, <1>4, <1>6, <1>7, <1>8, AtFacts, OwnStep DEF Commit

LEMMA ReserveStep == ASSUME IInv, NEW j \in Jobs, Reserve(j) PROVE IInv'
<1>1. up /\ job[j].at = "reserve"  BY DEF Reserve, At
<1>2. job[j].spent = FALSE  BY <1>1, AtFacts DEF Fits, Charged
<1>3. CASE ledger' = ledger /\ \E why \in {"none", "stopping"} : Yields(j, Said(why, FALSE))
  BY <1>1, <1>2, <1>3, AtFacts, YieldsStep DEF Reserve, Reasons, disk
<1>4. CASE /\ ledger' = ledger \cup {j}
           /\ job' = [job EXCEPT ![j].at = "spawn", ![j].spent = TRUE]
  <2> DEFINE b == [job[j] EXCEPT !.at = "spawn", !.spent = TRUE]
  <2>1. b \in JobState /\ job' = [job EXCEPT ![j] = b] /\ b.at = "spawn" /\ b.spent = TRUE
    BY <1>4, AtFacts DEF JobState, Stages
  <2>2. /\ marker[j] \in Markers /\ marker' = [marker EXCEPT ![j] = marker[j]]
        /\ recorded[j] \in Outcome /\ recorded' = [recorded EXCEPT ![j] = recorded[j]]
        /\ marker' = marker /\ recorded' = recorded /\ seen' = seen
        /\ UNCHANGED <<process, canceller, discarded, deaths, slot, group>>
    BY AtFacts DEF Reserve
  <2>3. job'[j] = b /\ up' = up /\ recovering' = recovering  BY <2>1, <2>2, AtFacts DEF process
  <2>4. JobInv(j)'
    BY <1>1, <1>2, <1>4, <2>1, <2>2, <2>3, AtFacts
    DEF JobInv, Fits, Charged, Untouched, Recovering, Kept1, Count1, Unstored, Gone
  <2> QED  BY <1>4, <2>1, <2>2, <2>4, AtFacts, OwnStep
<1> QED  BY <1>3, <1>4 DEF Reserve, NoOutcome

LEMMA SpawnStep == ASSUME IInv, NEW j \in Jobs, Spawn(j) PROVE IInv'
<1>1. up /\ job[j].at = "spawn"  BY DEF Spawn, At
<1>2. job[j].spent = TRUE  BY <1>1, AtFacts DEF Fits, Charged
<1>3. group' \in [Jobs -> {"none", "running", "exited", "killed", "reaped", "unstopped"}]
  BY AtFacts DEF Spawn
<1>4. CASE Yields(j, Said("failed", TRUE))
  BY <1>1, <1>2, <1>3, <1>4, YieldsStep DEF Spawn, Reasons
<1>5. CASE Goes(j, "handover")
  BY <1>1, <1>3, <1>5, GoesStep DEF Spawn
<1> QED  BY <1>4, <1>5 DEF Spawn

LEMMA HandOverStep == ASSUME IInv, NEW j \in Jobs, HandOver(j) PROVE IInv'
<1>1. up /\ job[j].at = "handover"  BY DEF HandOver, At
<1> DEFINE b == [job[j] EXCEPT !.at = "wait", !.handed = TRUE]
<1>2. b \in JobState /\ job' = [job EXCEPT ![j] = b] /\ b.at = "wait" /\ b.spent = job[j].spent
  BY AtFacts DEF HandOver, JobState, Stages
<1>3. group' \in [Jobs -> {"none", "running", "exited", "killed", "reaped", "unstopped"}]
  BY AtFacts DEF HandOver, Killed
<1>4. Fits(j, b)
  BY <1>1, <1>2, AtFacts DEF Fits, Charged, Untouched, Recovering, Unstored, Gone
<1> QED  BY <1>2, <1>3, <1>4, AtFacts, QuietStep DEF HandOver

LEMMA ReapStep == ASSUME IInv, NEW j \in Jobs, Reap(j) PROVE IInv'
<1>1. up /\ job[j].at = "wait"  BY DEF Reap, At
<1>2. job[j].spent = TRUE  BY <1>1, AtFacts DEF Fits, Charged
<1>3. group' \in [Jobs -> {"none", "running", "exited", "killed", "reaped", "unstopped"}]
  BY AtFacts DEF Reap
<1>4. PICK why \in Reasons : Yields(j, Said(why, TRUE))  BY DEF Reap, Reasons
<1> QED  BY <1>1, <1>2, <1>3, <1>4, YieldsStep DEF Reap

LEMMA StoppedStep == ASSUME IInv, NEW j \in Jobs, Stopped(j) PROVE IInv'
<1>1. up /\ job[j].at = "outcome"  BY DEF Stopped, At
<1> DEFINE was == job[j].outcome
           o == IF closed /\ was.spent /\ was.why \notin {"reading", "unstopped", "oversized"}
                THEN Said("interrupted", TRUE) ELSE was
           b == [job[j] EXCEPT !.at = "seal", !.outcome = o]
<1>2. o \in Outcome /\ (o.spent <=> was.spent)
  BY AtFacts, OutcomeTyped DEF Said, Reasons
<1>3. b \in JobState /\ job' = [job EXCEPT ![j] = b] /\ b.at = "seal" /\ b.outcome = o
      /\ b.spent = job[j].spent
  BY <1>2, AtFacts DEF Stopped, JobState, Stages
<1>4. Fits(j, b)
  BY <1>1, <1>2, <1>3, AtFacts DEF Fits, Charged, Untouched, Recovering, Unstored, Gone
<1> QED  BY <1>3, <1>4, AtFacts, QuietStep DEF Stopped

\* A Cancel renames the outcome and leaves what it spent.
LEMMA CancelledSpends ==
  ASSUME NEW b \in JobState, b.outcome.spent <=> b.spent
  PROVE  Cancelled(b) \in Outcome /\ (Cancelled(b).spent <=> b.spent)
<1>1. b.outcome \in Outcome /\ b.spent \in BOOLEAN  BY DEF JobState
<1> QED  BY <1>1, OutcomeTyped DEF Cancelled, Said, Reasons

LEMMA SealStep == ASSUME IInv, NEW j \in Jobs, Seal(j) PROVE IInv'
<1>1. up /\ job[j].at = "seal"  BY DEF Seal, At
<1> DEFINE was == job[j].outcome
           o == IF job[j].cancelled = "no" \/ was = NoOutcome THEN was ELSE Cancelled(job[j])
           stage == IF was = NoOutcome THEN "finish" ELSE "record"
           b == [job[j] EXCEPT !.at = stage, !.sealed = TRUE, !.outcome = o]
<1>2. was.spent <=> job[j].spent  BY <1>1, AtFacts DEF Fits, Charged
<1>3. o \in Outcome /\ (o.spent <=> job[j].spent)  BY <1>2, AtFacts, CancelledSpends
<1>4. b \in JobState /\ job' = [job EXCEPT ![j] = b] /\ b.at = stage /\ b.outcome = o
      /\ b.spent = job[j].spent
  BY <1>3, AtFacts DEF Seal, JobState, Stages
<1>5. stage = "finish" => ~job[j].spent  BY <1>2 DEF NoOutcome, Said
<1>6. Fits(j, b)
  BY <1>1, <1>3, <1>4, <1>5, AtFacts DEF Fits, Charged, Untouched, Recovering, Unstored, Gone
<1> QED  BY <1>4, <1>6, AtFacts, QuietStep DEF Seal

LEMMA EndStep == ASSUME IInv, NEW j \in Jobs, End(j) PROVE IInv'
<1>1. up /\ job[j].at = "end"  BY DEF End, At
<1> DEFINE b == [job[j] EXCEPT !.at = "ended"]
<1>2. b \in JobState /\ job' = [job EXCEPT ![j] = b] /\ b.at = "ended" /\ b.spent = job[j].spent
  BY AtFacts DEF End, Goes, JobState, Stages
<1>3. slot' \in [Sessions -> Jobs \cup {Free}]  BY AtFacts DEF End
<1>4. Fits(j, b)
  BY <1>1, <1>2, AtFacts DEF Fits, Charged, Untouched, Recovering, Unstored, Gone
<1> QED  BY <1>2, <1>3, <1>4, AtFacts, QuietStep DEF End

\* An outcome the store keeps, or drops for a discarded entry, is what was charged.
LEMMA RecordStep == ASSUME IInv, NEW j \in Jobs, Record(j) PROVE IInv'
<1>1. up /\ job[j].at = "record"  BY DEF Record, At
<1>2. /\ recorded[j] = NoOutcome /\ (job[j].outcome.spent <=> job[j].spent)
      /\ (job[j].spent <=> j \in ledger)
  BY <1>1, AtFacts DEF Fits, Charged, Untouched, Unstored, Gone
<1>3. PICK durable \in BOOLEAN, o \in {recorded[j], job[j].outcome} :
        /\ job' = [job EXCEPT ![j].at = "finish", ![j].durable = durable]
        /\ recorded' = [recorded EXCEPT ![j] = o]
        /\ seen' \in {seen, [seen EXCEPT !.dropped = @ \cup {j}]}
        /\ durable => o = job[j].outcome \/ j \in seen'.dropped
  <2>1. recorded = [recorded EXCEPT ![j] = recorded[j]]  BY AtFacts
  <2>2. seen \in [dropped: SUBSET Jobs, doubted: SUBSET Jobs, early: SUBSET Jobs,
                  told: SUBSET Jobs]
    BY DEF IInv, TypeOK
  <2>3. CASE /\ Takes(j, job[j].outcome)
             /\ job' = [job EXCEPT ![j].at = "finish", ![j].durable = TRUE]
    <3>1. CASE SessionOf[j] \in discarded
      <4>1. /\ seen' = [seen EXCEPT !.dropped = @ \cup {j}] /\ recorded' = recorded
        BY <1>2, <2>3, <3>1 DEF Takes
      <4> QED  BY <2>1, <2>2, <2>3, <4>1
    <3>2. CASE SessionOf[j] \notin discarded
      <4>1. recorded' = [recorded EXCEPT ![j] = job[j].outcome] /\ seen' = seen
        BY <1>2, <2>3, <3>2 DEF Takes
      <4> QED  BY <2>3, <4>1
    <3> QED  BY <3>1, <3>2
  <2>4. CASE /\ job' = [job EXCEPT ![j].at = "finish", ![j].durable = FALSE]
             /\ UNCHANGED <<recorded, seen>>
    BY <2>1, <2>4
  <2> QED  BY <2>3, <2>4 DEF Record
<1> DEFINE b == [job[j] EXCEPT !.at = "finish", !.durable = durable]
<1>4. b \in JobState /\ job' = [job EXCEPT ![j] = b] /\ b.at = "finish" /\ b.durable = durable
      /\ b.spent = job[j].spent /\ b.outcome = job[j].outcome
  BY <1>3, AtFacts DEF JobState, Stages
<1>5. job'[j] = b /\ recorded'[j] = o /\ o \in Outcome
  <2>1. recorded[j] \in Outcome /\ job[j].outcome \in Outcome  BY AtFacts
  <2>2. o \in Outcome  BY <2>1
  <2>3. job'[j] = b  BY <1>4, AtFacts
  <2> QED  BY <1>3, <2>2, <2>3, AtFacts
<1>6. /\ marker[j] \in Markers /\ marker' = [marker EXCEPT ![j] = marker[j]]
      /\ marker' = marker /\ ledger' = ledger /\ up' = up /\ recovering' = recovering
      /\ seen'.doubted = seen.doubted
      /\ UNCHANGED <<process, canceller, discarded, deaths, slot, group>>
  BY <1>3, AtFacts DEF Record, process, IInv, TypeOK
<1>7. JobInv(j)'
  <2>1. Fits(j, job[j])'
    BY <1>1, <1>2, <1>3, <1>4, <1>5, <1>6, AtFacts
    DEF Fits, Charged, Untouched, Recovering, Unstored, Gone
  <2>2. j \in seen.dropped => j \in seen'.dropped
    BY <1>3 DEF IInv, TypeOK
  <2>3. Kept1(j)' /\ Count1(j)'
    BY <1>2, <1>3, <1>5, <1>6, <2>2, AtFacts DEF Kept1, Count1, NoOutcome, Said
  <2> QED  BY <2>1, <2>3 DEF JobInv
<1> QED  BY <1>3, <1>4, <1>5, <1>6, <1>7, AtFacts, OwnStep

\* The marker goes only when the outcome is durable or nothing was spent.
LEMMA FinishStep == ASSUME IInv, NEW j \in Jobs, Finish(j) PROVE IInv'
<1>1. up /\ job[j].at = "finish"  BY DEF Finish, At
<1>2. PICK m \in Markers :
        /\ marker' = [marker EXCEPT ![j] = m]
        /\ m = "none" => \/ marker[j] = "none" \/ job[j].durable \/ ~job[j].spent
  BY AtFacts DEF Finish, MarkerMay, Markers, Kept
<1> DEFINE b == [job[j] EXCEPT !.at = "end"]
<1>3. b \in JobState /\ job' = [job EXCEPT ![j] = b] /\ b.at = "end" /\ b.spent = job[j].spent
  BY AtFacts DEF Finish, Goes, JobState, Stages
<1>4. /\ recorded[j] \in Outcome /\ recorded' = [recorded EXCEPT ![j] = recorded[j]]
      /\ recorded' = recorded /\ ledger' = ledger /\ seen' = seen /\ up' = up
      /\ recovering' = recovering
      /\ UNCHANGED <<process, canceller, discarded, deaths, slot, group>>
  BY AtFacts DEF Finish, process
<1>5. job'[j] = b /\ marker'[j] = m  BY <1>2, <1>3, AtFacts
<1>6. Fits(j, job[j])'
  BY <1>1, <1>3, <1>4, <1>5, AtFacts DEF Fits, Charged, Untouched, Recovering, Unstored, Gone
<1>7. Kept1(j)' /\ Count1(j)'
  BY <1>1, <1>2, <1>4, <1>5, AtFacts DEF Kept1, Count1, Fits, Charged, Gone
<1> QED  BY <1>2, <1>3, <1>4, <1>6, <1>7, AtFacts, OwnStep DEF JobInv
-----------------------------------------------------------------------------
\* Steps from outside the job's thread.

\* A step that changes nothing IInv says of a job keeps it, once the types hold.
LEMMA SideStep ==
  ASSUME IInv, TypeOK', UNCHANGED <<up, job, marker, recorded, ledger>>,
         recovering' \subseteq recovering,
         seen'.dropped = seen.dropped, seen'.doubted = seen.doubted
  PROVE  IInv'
<1>1. ASSUME NEW k \in Jobs PROVE JobInv(k)'  BY OtherJob DEF IInv
<1> QED  BY <1>1 DEF IInv

LEMMA CliExitsStep == ASSUME IInv, NEW j \in Jobs, CliExits(j) PROVE IInv'
<1>1. TypeOK'  BY DEF IInv, TypeOK, CliExits, process, disk
<1> QED  BY <1>1, SideStep DEF CliExits, process, disk

LEMMA CallLimitStep == ASSUME IInv, NEW j \in Jobs, CallLimit(j) PROVE IInv'
<1>1. TypeOK'  BY DEF IInv, TypeOK, CallLimit, Killed, process, disk
<1> QED  BY <1>1, SideStep DEF CallLimit, process, disk

LEMMA CancelKillsStep == ASSUME IInv, NEW j \in Jobs, CancelKills(j) PROVE IInv'
<1>1. TypeOK'  BY DEF IInv, TypeOK, CancelKills, Killed, process, disk
<1> QED  BY <1>1, SideStep DEF CancelKills, process, disk

LEMMA DiscardStep == ASSUME IInv, NEW s \in Sessions, Discard(s) PROVE IInv'
<1>1. TypeOK'  BY DEF IInv, TypeOK, Discard, process
<1> QED  BY <1>1, SideStep DEF Discard, process

LEMMA CloseStep == ASSUME IInv, Close PROVE IInv'
<1>1. TypeOK'  BY DEF IInv, TypeOK, Close, disk
<1> QED  BY <1>1, SideStep DEF Close, disk

LEMMA KillNextStep == ASSUME IInv, NEW j \in Jobs, KillNext(j) PROVE IInv'
<1>1. TypeOK'  BY DEF IInv, TypeOK, KillNext, Killed, disk
<1> QED  BY <1>1, SideStep DEF KillNext, disk

LEMMA RecoverFailsStep == ASSUME IInv, NEW j \in Jobs, RecoverFails(j) PROVE IInv'
<1>1. TypeOK'  BY DEF IInv, TypeOK, RecoverFails, disk
<1> QED  BY <1>1, SideStep DEF RecoverFails, disk

LEMMA PressCancelStep == ASSUME IInv, NEW j \in Jobs, PressCancel(j) PROVE IInv'
<1> DEFINE when == IF closed THEN "after close" ELSE "yes"
           b == [job[j] EXCEPT !.cancelled = when]
<1>1. b \in JobState /\ job' = [job EXCEPT ![j] = b]
      /\ b.at = job[j].at /\ b.spent = job[j].spent /\ b.outcome = job[j].outcome
      /\ b.durable = job[j].durable
  BY AtFacts DEF PressCancel, JobState
<1>2. /\ seen' \in [dropped: SUBSET Jobs, doubted: SUBSET Jobs, early: SUBSET Jobs,
                    told: SUBSET Jobs]
      /\ seen'.dropped = seen.dropped /\ seen'.doubted = seen.doubted
  BY DEF PressCancel, IInv, TypeOK
<1>3. TypeOK'
  <2>1. job' \in [Jobs -> JobState]  BY <1>1, AtFacts
  <2>2. canceller' \in [Jobs -> {"idle", "mark", "mark, kill", "kill", "done"}]
    BY DEF PressCancel, IInv, TypeOK
  <2> QED  BY <1>2, <2>1, <2>2 DEF IInv, TypeOK, PressCancel, process, disk
<1>4. /\ UNCHANGED <<up, recovering, marker, recorded, ledger>>
  BY DEF PressCancel, process, disk
<1>5. ASSUME NEW k \in Jobs PROVE JobInv(k)'
  <2>1. CASE k # j
    <3>1. job'[k] = job[k]  BY <1>1, <2>1, AtFacts
    <3> QED  BY <3>1, <1>2, <1>4, OtherJob DEF IInv
  <2>2. CASE k = j
    <3>1. job'[j] = b  BY <1>1, AtFacts
    <3> QED  BY <1>1, <1>2, <1>4, <2>2, <3>1, AtFacts
             DEF JobInv, Fits, Charged, Untouched, Recovering, Kept1, Count1
  <2> QED  BY <2>1, <2>2
<1> QED  BY <1>3, <1>5 DEF IInv

\* A marker is told its reason; none appears and none goes.
LEMMA CancelMarksStep == ASSUME IInv, NEW j \in Jobs, CancelMarks(j) PROVE IInv'
<1>1. PICK m \in Markers :
        marker' = [marker EXCEPT ![j] = m] /\ (m = "none" <=> marker[j] = "none")
  BY AtFacts DEF CancelMarks, MarkerMay, Markers, Kept
<1>2. TypeOK'
  <2>1. marker' \in [Jobs -> Markers]  BY <1>1, AtFacts
  <2>2. canceller' \in [Jobs -> {"idle", "mark", "mark, kill", "kill", "done"}]
    BY DEF CancelMarks, IInv, TypeOK
  <2> QED  BY <2>1, <2>2 DEF IInv, TypeOK, CancelMarks, process
<1>3. UNCHANGED <<up, recovering, job, recorded, ledger, seen>>
  BY DEF CancelMarks, process
<1>4. ASSUME NEW k \in Jobs PROVE JobInv(k)'
  <2>1. marker'[k] = "none" <=> marker[k] = "none"  BY <1>1, AtFacts
  <2> QED  BY <1>3, <2>1 DEF IInv, JobInv, Fits, Charged, Untouched, Recovering, Kept1, Count1
<1> QED  BY <1>2, <1>4 DEF IInv
-----------------------------------------------------------------------------
\* Deaths, restarts and the recovery pass.

\* A death loses every thread and keeps the disk.
LEMMA DieStep == ASSUME IInv, Die PROVE IInv'
<1>1. \A k \in Jobs : job'[k] = IF job[k].at = "off" THEN job[k] ELSE NewJob("lost")
  BY DEF Die
<1>2. NewJob("lost") \in JobState /\ NewJob("lost").at = "lost"
  BY NewJobTyped DEF Stages, NewJob
<1>3. UNCHANGED <<marker, ledger, recorded, discarded, seen>>  BY DEF Die, disk
<1>4. TypeOK'
  <2>1. job' \in [Jobs -> JobState]  BY <1>2 DEF Die, IInv, TypeOK
  <2>2. canceller' \in [Jobs -> {"idle", "mark", "mark, kill", "kill", "done"}]  BY DEF Die
  <2>3. slot' \in [Sessions -> Jobs \cup {Free}]  BY DEF Die
  <2>4. group' \in [Jobs -> {"none", "running", "exited", "killed", "reaped", "unstopped"}]
    BY DEF Die
  <2>5. deaths' \in Nat
    <3>1. deaths \in Nat /\ deaths' = deaths + 1  BY DEF Die, IInv, TypeOK
    <3> QED  BY <3>1
  <2> QED  BY <1>3, <2>1, <2>2, <2>3, <2>4, <2>5 DEF IInv, TypeOK, Die
<1>5. ASSUME NEW k \in Jobs PROVE JobInv(k)'
  <2>1. \/ job'[k] = job[k] /\ job[k].at = "off"
        \/ job'[k].at = "lost" /\ job[k].at # "off"
    <3>1. CASE job[k].at = "off"  BY <1>1, <3>1
    <3>2. CASE job[k].at # "off"
      <4>1. job'[k] = NewJob("lost")  BY <1>1, <3>2
      <4> QED  BY <1>2, <3>2, <4>1
    <3> QED  BY <3>1, <3>2
  <2>2. recovering' = {} /\ ~up'  BY DEF Die
  <2> QED  BY <1>3, <2>1, <2>2, AtFacts
           DEF JobInv, Fits, Charged, Untouched, Recovering, Kept1, Count1, Unstored, Gone
<1> QED  BY <1>4, <1>5 DEF IInv

\* The start finds a marker only for a job an earlier process lost.
LEMMA RestartStep == ASSUME IInv, Restart PROVE IInv'
<1>1. ~up /\ recovering' = {j \in Jobs : marker[j] # "none"} /\ up' = TRUE
      /\ UNCHANGED <<job, marker, ledger, recorded, discarded, seen>>
  BY DEF Restart, disk
<1>2. TypeOK'  BY <1>1 DEF IInv, TypeOK, Restart
<1>3. ASSUME NEW k \in Jobs PROVE JobInv(k)'
  <2>1. k \in recovering' => job[k].at = "lost"
    BY <1>1, AtFacts DEF Fits, Untouched, Recovering
  <2> QED  BY <1>1, <2>1, AtFacts
           DEF JobInv, Fits, Charged, Untouched, Recovering, Kept1, Count1, Unstored, Gone
<1> QED  BY <1>2, <1>3 DEF IInv

\* What recovery stores for a marker says the attempt was made when the ledger does,
\* and, in doubt, when it cannot say.
LEMMA RecoveredSpends ==
  ASSUME NEW j \in Jobs, marker[j] \in Markers, NEW counted \in BOOLEAN
  PROVE  Recovered(j, counted) \in Outcome /\ (Recovered(j, counted).spent <=> counted)
BY OutcomeTyped DEF Recovered, Said, Reasons, Kept

LEMMA RecoverStep == ASSUME IInv, NEW j \in Jobs, Recover(j) PROVE IInv'
<1>1. up /\ j \in recovering /\ job[j].at = "lost"
  BY AtFacts DEF Recover, Fits, Recovering
<1>2. marker \in [Jobs -> Markers] /\ recorded \in [Jobs -> Outcome]
      /\ seen \in [dropped: SUBSET Jobs, doubted: SUBSET Jobs, early: SUBSET Jobs,
                   told: SUBSET Jobs]
  BY DEF IInv, TypeOK
<1>3. PICK doubt \in BOOLEAN :
        LET unsure == doubt /\ j \notin ledger
            o == Recovered(j, j \in ledger \/ unsure)
        IN IF recorded[j] # NoOutcome THEN UNCHANGED <<recorded, seen>>
           ELSE IF SessionOf[j] \in discarded
           THEN seen' = [seen EXCEPT !.dropped = @ \cup {j}] /\ UNCHANGED recorded
           ELSE /\ recorded' = [recorded EXCEPT ![j] = o]
                /\ seen' = [seen EXCEPT !.doubted = IF unsure THEN @ \cup {j} ELSE @]
  BY DEF Recover
<1> DEFINE unsure == doubt /\ j \notin ledger
           counted == j \in ledger \/ unsure
           o == Recovered(j, counted)
<1>4. counted \in BOOLEAN /\ o \in Outcome /\ (o.spent <=> counted)
  <2>1. marker[j] \in Markers /\ counted \in BOOLEAN  BY <1>2
  <2> QED  BY <2>1, RecoveredSpends
<1>5. UNCHANGED <<up, job, ledger, slot, group, canceller, discarded, deaths>>
      /\ recovering' = recovering \ {j}
  BY DEF Recover
<1>6. marker' \in [Jobs -> Markers] /\ \A k \in Jobs : k # j => marker'[k] = marker[k]
  BY <1>2 DEF Recover, MarkerMay, Markers
<1>7. /\ recorded' \in [Jobs -> Outcome]
      /\ seen' \in [dropped: SUBSET Jobs, doubted: SUBSET Jobs, early: SUBSET Jobs,
                    told: SUBSET Jobs]
      /\ \A k \in Jobs : k # j => /\ recorded'[k] = recorded[k]
                                  /\ k \in seen'.dropped <=> k \in seen.dropped
                                  /\ k \in seen'.doubted <=> k \in seen.doubted
  <2>1. CASE recorded[j] # NoOutcome  BY <1>2, <1>3, <2>1
  <2>2. CASE recorded[j] = NoOutcome /\ SessionOf[j] \in discarded  BY <1>2, <1>3, <2>2
  <2>3. CASE recorded[j] = NoOutcome /\ SessionOf[j] \notin discarded
    <3>1. recorded' = [recorded EXCEPT ![j] = o]
          /\ seen' = [seen EXCEPT !.doubted = IF unsure THEN @ \cup {j} ELSE @]
      BY <1>3, <2>3
    <3> HIDE DEF o
    <3> QED  BY <1>2, <1>4, <3>1
  <2> QED  BY <2>1, <2>2, <2>3
<1>8. TypeOK'  BY <1>5, <1>6, <1>7 DEF IInv, TypeOK, Recover
<1>9. Kept1(j)' /\ Count1(j)' /\ (j \in seen'.doubted => j \notin ledger)
  <2>1. CASE recorded[j] # NoOutcome
    <3>1. recorded' = recorded /\ seen' = seen  BY <1>3, <2>1
    <3> QED  BY <1>5, <2>1, <3>1, AtFacts DEF Kept1, Count1, Fits, Recovering
  <2>2. CASE recorded[j] = NoOutcome /\ SessionOf[j] \in discarded
    <3>1. recorded' = recorded /\ seen' = [seen EXCEPT !.dropped = @ \cup {j}]
      BY <1>3, <2>2
    <3>2. j \in seen'.dropped /\ seen'.doubted = seen.doubted  BY <1>2, <3>1
    <3> QED  BY <1>5, <2>2, <3>1, <3>2, AtFacts DEF Kept1, Count1, Fits, Recovering
  <2>3. CASE recorded[j] = NoOutcome /\ SessionOf[j] \notin discarded
    <3>1. recorded' = [recorded EXCEPT ![j] = o]
          /\ seen' = [seen EXCEPT !.doubted = IF unsure THEN @ \cup {j} ELSE @]
      BY <1>3, <2>3
    <3>2. recorded'[j] = o /\ (j \in seen'.doubted <=> unsure \/ j \in seen.doubted)
      BY <1>2, <3>1
    <3>3. recorded'[j].spent <=> counted  BY <1>4, <3>2
    <3> HIDE DEF o
    <3> QED  BY <1>5, <3>2, <3>3, AtFacts DEF Kept1, Count1, Fits, Recovering
  <2> QED  BY <2>1, <2>2, <2>3
<1>10. ASSUME NEW k \in Jobs PROVE JobInv(k)'
  <2>1. CASE k # j
    <3>1. k \in recovering' => k \in recovering  BY <1>5
    <3> QED  BY <1>5, <1>6, <1>7, <2>1, <3>1, OtherJob DEF IInv
  <2>2. CASE k = j
    <3>1. Fits(j, job[j])'
      BY <1>1, <1>5, <1>9, AtFacts DEF Fits, Charged, Untouched, Recovering, Unstored, Gone
    <3> QED  BY <1>9, <2>2, <3>1 DEF JobInv
  <2> QED  BY <2>1, <2>2
<1> QED  BY <1>8, <1>10 DEF IInv

\* Every step of the system, and the stutter.
LEMMA NextIInv == IInv /\ [Next]_vars => IInv'
<1> SUFFICES ASSUME IInv, [Next]_vars PROVE IInv'  OBVIOUS
<1>1. ASSUME NEW j \in Jobs, Thread(j) PROVE IInv'
  BY <1>1, ComposeStep, LookStep, CommitStep, ReserveStep, SpawnStep, HandOverStep, ReapStep,
     StoppedStep, SealStep, RecordStep, FinishStep, EndStep DEF Thread
<1>2. ASSUME NEW j \in Jobs, Press(j) \/ PressCancel(j) \/ Canceller(j) PROVE IInv'
  BY <1>2, PressStep, PressCancelStep, CancelMarksStep, CancelKillsStep DEF Canceller
<1>3. ASSUME NEW j \in Jobs, CliExits(j) \/ CallLimit(j) \/ KillNext(j) PROVE IInv'
  BY <1>3, CliExitsStep, CallLimitStep, KillNextStep
<1>4. ASSUME NEW j \in Jobs, Recover(j) \/ RecoverFails(j) PROVE IInv'
  BY <1>4, RecoverStep, RecoverFailsStep
<1>5. CASE \E s \in Sessions : Discard(s)  BY <1>5, DiscardStep
<1>6. CASE Close \/ Exit \/ Crash \/ Restart
  BY <1>6, CloseStep, DieStep, RestartStep DEF Exit, Crash
<1>7. CASE UNCHANGED vars
  <2>1. UNCHANGED <<up, closed, killList, recovering, job, slot, group, canceller, marker,
                    ledger, recorded, discarded, seen, deaths>>
    BY <1>7 DEF vars, process, disk
  <2>2. TypeOK'  BY <2>1 DEF IInv, TypeOK
  <2> QED  BY <2>1, <2>2, SideStep
<1> QED  BY <1>1, <1>2, <1>3, <1>4, <1>5, <1>6, <1>7 DEF Next
-----------------------------------------------------------------------------
\* The slot and the stop: what a live thread holds, where a CLI runs, and that a
\* stop has every one it did not refuse in its list.
Held ==
  /\ OnePerSession
  /\ \A j \in Jobs : group[j] = "running" => job[j].at \in {"handover", "wait"}
  /\ closed => \A j \in Jobs : group[j] = "running" => j \in killList

\* A live thread that keeps its slot, and whose CLI runs, if it does, where a stop
\* finds it.
LEMMA HeldMove ==
  ASSUME Held, IInv, NEW j \in Jobs, job[j].at \notin Threadless,
         \A k \in Jobs : k # j => job'[k] = job[k] /\ group'[k] = group[k],
         group'[j] = "running" => /\ job'[j].at \in {"handover", "wait"}
                                  /\ group[j] = "running" \/ ~closed,
         UNCHANGED <<up, closed, killList, slot>>
  PROVE  Held'
BY DEF Held, OnePerSession

\* A step that moves no thread, starts no CLI and shortens no list.
LEMMA HeldKept ==
  ASSUME Held, IInv, \A k \in Jobs : job'[k].at = job[k].at,
         \A k \in Jobs : group'[k] = "running" => group[k] = "running",
         UNCHANGED <<up, closed, killList, slot>>
  PROVE  Held'
BY DEF Held, OnePerSession

\* A thread's step between the press and the end of its job.
LEMMA ThreadHeld ==
  ASSUME Held, IInv, NEW j \in Jobs,
         \/ Compose(j) \/ Look(j) \/ Commit(j) \/ Reserve(j) \/ Spawn(j) \/ HandOver(j)
         \/ Reap(j) \/ Stopped(j) \/ Seal(j) \/ Record(j) \/ Finish(j)
  PROVE  Held'
<1> USE AtFacts DEF At, Goes, Yields
<1>0. UNCHANGED <<up, closed, killList, slot>>
  BY DEF Compose, Look, Commit, Reserve, Spawn, HandOver, Reap, Stopped, Seal, Record, Finish,
         process
<1>1. job[j].at \notin Threadless
  BY DEF Compose, Look, Commit, Reserve, Spawn, HandOver, Reap, Stopped, Seal, Record, Finish,
         Threadless
<1>2. \A k \in Jobs : k # j => job'[k] = job[k] /\ group'[k] = group[k]
  <2>1. CASE Compose(j) \/ Look(j) \/ Commit(j) \/ Reserve(j)  BY <2>1
    DEF Compose, Look, Commit, Reserve
  <2>2. CASE Spawn(j) \/ HandOver(j) \/ Reap(j)  BY <2>2 DEF Spawn, HandOver, Reap
  <2>3. CASE Stopped(j) \/ Seal(j) \/ Record(j) \/ Finish(j)  BY <2>3
    DEF Stopped, Seal, Record, Finish
  <2> QED  BY <2>1, <2>2, <2>3
<1>3. CASE Compose(j) \/ Look(j) \/ Commit(j) \/ Reserve(j) \/ Stopped(j) \/ Seal(j)
           \/ Record(j) \/ Finish(j)
  <2>1. group' = group /\ job[j].at \notin {"handover", "wait"}
    BY <1>3 DEF Compose, Look, Commit, Reserve, Stopped, Seal, Record, Finish
  <2>2. group[j] # "running"  BY <2>1 DEF Held
  <2> QED  BY <1>0, <1>1, <1>2, <2>1, <2>2, HeldMove
<1>4. CASE Spawn(j)
  <2>1. group[j] # "running"  BY <1>4 DEF Held, Spawn
  <2>2. group'[j] = "running" => ~closed /\ job'[j].at = "handover"
    BY <1>4, <2>1 DEF Spawn, JobState
  <2> QED  BY <1>0, <1>1, <1>2, <2>2, HeldMove
<1>5. CASE HandOver(j)
  <2>1. job'[j].at = "wait" /\ (group'[j] = "running" => group[j] = "running")
    BY <1>5 DEF HandOver, Killed, JobState
  <2> QED  BY <1>0, <1>1, <1>2, <2>1, HeldMove
<1>6. CASE Reap(j)
  <2>1. group'[j] # "running"  BY <1>6 DEF Reap
  <2> QED  BY <1>0, <1>1, <1>2, <2>1, HeldMove
<1> QED  BY <1>3, <1>4, <1>5, <1>6

\* A press takes a free slot: no live thread of its session holds it.
LEMMA PressHeld == ASSUME Held, IInv, NEW j \in Jobs, Press(j) PROVE Held'
<1> USE AtFacts, ReadingJobsAssumption DEF At, Goes, ReadingJobsAssumption
<1>1. UNCHANGED <<up, closed, killList, group>> /\ up /\ group[j] # "running"
  BY DEF Press, process, Held
<1>2. \A k \in Jobs : k # j => job'[k] = job[k]  BY DEF Press
<1>3. ASSUME NEW k \in Jobs, job'[k].at \notin Threadless PROVE slot'[SessionOf[k]] = k
  <2>1. CASE k = j
    <3>1. CASE Goes(j, "ended")
      <4>1. job'[j].at = "ended"  BY <3>1, GoesTo
      <4> QED  BY <1>3, <2>1, <4>1 DEF Threadless
    <3>2. CASE slot' = [slot EXCEPT ![SessionOf[j]] = j]
      <4> QED  BY <2>1, <3>2, AtFacts
    <3> QED  BY <3>1, <3>2 DEF Press
  <2>2. CASE k # j
    <3>1. slot[SessionOf[k]] = k  BY <1>1, <1>2, <1>3, <2>2 DEF Held, OnePerSession
    <3>2. SessionOf[k] # SessionOf[j]  BY <3>1 DEF Press, Free
    <3> QED  BY <3>1, <3>2 DEF Press
  <2> QED  BY <2>1, <2>2
<1>4. OnePerSession'  BY <1>3 DEF OnePerSession
<1> QED  BY <1>1, <1>2, <1>4 DEF Held

\* A job gives up its slot as its thread ends, and no other job of the session has one.
LEMMA EndHeld == ASSUME Held, IInv, NEW j \in Jobs, End(j) PROVE Held'
<1> USE AtFacts, ReadingJobsAssumption DEF At, Goes, ReadingJobsAssumption
<1>1. UNCHANGED <<up, closed, killList, group>> /\ up /\ group[j] # "running"
  BY DEF End, process, Held
<1>2. \A k \in Jobs : k # j => job'[k] = job[k]  BY DEF End
<1>3. job'[j].at = "ended" /\ slot[SessionOf[j]] = j
  <2>1. job[j].at = "end" /\ job' = [job EXCEPT ![j].at = "ended"]  BY DEF End
  <2>2. slot[SessionOf[j]] = j  BY <1>1, <2>1 DEF Held, OnePerSession, Threadless
  <2> QED  BY <2>1, <2>2 DEF JobState
<1>4. ASSUME NEW k \in Jobs, job'[k].at \notin Threadless PROVE slot'[SessionOf[k]] = k
  <2>1. k # j  BY <1>3, <1>4 DEF Threadless
  <2>2. slot[SessionOf[k]] = k  BY <1>1, <1>2, <1>4, <2>1 DEF Held, OnePerSession
  <2>3. SessionOf[k] # SessionOf[j]  BY <1>3, <2>1, <2>2
  <2> QED  BY <2>2, <2>3 DEF End
<1>5. OnePerSession'  BY <1>4 DEF OnePerSession
<1> QED  BY <1>1, <1>2, <1>5 DEF Held

\* What goes on beside the threads: the Cancel, the CLI, the store and recovery.
LEMMA BesideHeld ==
  ASSUME Held, IInv,
         \/ \E j \in Jobs : \/ PressCancel(j) \/ Canceller(j) \/ CliExits(j) \/ CallLimit(j)
                            \/ Recover(j) \/ RecoverFails(j)
         \/ \E s \in Sessions : Discard(s)
         \/ UNCHANGED vars
  PROVE  Held'
<1> USE AtFacts DEF process, disk
<1>1. ASSUME NEW j \in Jobs, PressCancel(j) PROVE Held'
  <2>1. \A k \in Jobs : job'[k].at = job[k].at  BY <1>1 DEF PressCancel, JobState
  <2> QED  BY <1>1, <2>1, HeldKept DEF PressCancel
<1>2. ASSUME NEW j \in Jobs, CancelMarks(j) \/ Recover(j) \/ RecoverFails(j) PROVE Held'
  BY <1>2, HeldKept DEF CancelMarks, Recover, RecoverFails
<1>3. ASSUME NEW j \in Jobs, CancelKills(j) \/ CliExits(j) \/ CallLimit(j) PROVE Held'
  <2>1. \A k \in Jobs : group'[k] = "running" => group[k] = "running"
    BY <1>3 DEF CancelKills, CliExits, CallLimit, Killed
  <2> QED  BY <1>3, <2>1, HeldKept DEF CancelKills, CliExits, CallLimit
<1>4. ASSUME NEW s \in Sessions, Discard(s) PROVE Held'  BY <1>4, HeldKept DEF Discard
<1>5. CASE UNCHANGED vars  BY <1>5, HeldKept DEF vars
<1> QED  BY <1>1, <1>2, <1>3, <1>4, <1>5 DEF Canceller

\* The stop lists every CLI that runs, kills what it listed, and a death ends all.
LEMMA StopHeld ==
  ASSUME Held, IInv, Close \/ (\E j \in Jobs : KillNext(j)) \/ Exit \/ Crash \/ Restart
  PROVE  Held'
<1> USE AtFacts
<1>1. CASE Close  BY <1>1 DEF Close, Held, OnePerSession
<1>2. ASSUME NEW j \in Jobs, KillNext(j) PROVE Held'
  <2>1. /\ group'[j] # "running" /\ killList' = killList \ {j}
        /\ \A k \in Jobs : k # j => group'[k] = group[k]
    BY <1>2 DEF KillNext, Killed
  <2> QED  BY <1>2, <2>1 DEF KillNext, Held, OnePerSession
<1>3. CASE Die  BY <1>3 DEF Die, Held, OnePerSession
<1>4. CASE Restart
  <2>1. \A k \in Jobs : job[k].at \in Threadless
    BY <1>4 DEF Restart, Fits, Recovering, Threadless
  <2> QED  BY <1>4, <2>1 DEF Restart, Held, OnePerSession
<1> QED  BY <1>1, <1>2, <1>3, <1>4 DEF Exit, Crash

\* Every step together.
LEMMA NextHeld == Held /\ IInv /\ [Next]_vars => Held'
<1> SUFFICES ASSUME Held, IInv, [Next]_vars PROVE Held'  OBVIOUS
<1>1. ASSUME NEW j \in Jobs, Press(j) \/ Thread(j) PROVE Held'
  BY <1>1, PressHeld, ThreadHeld, EndHeld DEF Thread
<1> QED  BY <1>1, BesideHeld, StopHeld DEF Next

LEMMA InitHeld == Init => Held
BY DEF Init, Held, OnePerSession, NewJob, Threadless
-----------------------------------------------------------------------------
\* A job that waits has handed its group over, so whoever cancels it from here on
\* knows that the kill is its own.
Owed(j) ==
  job[j].at = "wait" =>
    /\ job[j].handed
    /\ job[j].cancelled # "no" /\ group[j] = "running" => canceller[j] \in {"mark, kill", "kill"}

\* A step that leaves a job and its canceller alone, and starts no CLI.
LEMMA OwedKept ==
  ASSUME NEW j \in Jobs, Owed(j), job'[j] = job[j], canceller'[j] = canceller[j],
         group'[j] = "running" => group[j] = "running"
  PROVE  Owed(j)'
BY DEF Owed

\* Only the handover brings a job to its wait, and it kills for a Cancel before it.
LEMMA OwedThread ==
  ASSUME IInv, NEW j \in Jobs, Owed(j), NEW k \in Jobs, Thread(k) PROVE Owed(j)'
<1> USE AtFacts DEF At, Goes, Yields
<1>1. canceller' = canceller
  BY DEF Thread, Compose, Look, Commit, Reserve, Spawn, HandOver, Reap, Stopped, Seal, Record,
         Finish, End
<1>2. k # j => job'[j] = job[j] /\ group'[j] = group[j]
  <2>1. CASE Compose(k) \/ Look(k) \/ Commit(k) \/ Reserve(k)  BY <2>1
    DEF Compose, Look, Commit, Reserve
  <2>2. CASE Spawn(k) \/ HandOver(k) \/ Reap(k)  BY <2>2 DEF Spawn, HandOver, Reap
  <2>3. CASE Stopped(k) \/ Seal(k) \/ Record(k) \/ Finish(k) \/ End(k)  BY <2>3
    DEF Stopped, Seal, Record, Finish, End
  <2> QED  BY <2>1, <2>2, <2>3 DEF Thread
<1>3. CASE k = j /\ HandOver(k)
  <2>1. job' = [job EXCEPT ![j].at = "wait", ![j].handed = TRUE]  BY <1>3 DEF HandOver
  <2>2. job'[j].handed /\ job'[j].cancelled = job[j].cancelled  BY <2>1 DEF JobState
  <2>3. job[j].cancelled # "no" => group'[j] # "running"  BY <1>3 DEF HandOver, Killed
  <2> QED  BY <2>2, <2>3 DEF Owed
<1>4. CASE k = j /\ ~HandOver(k)
  <2>1. job'[j].at # "wait"
    <3>0. job[j] \in JobState /\ job \in [Jobs -> JobState]  OBVIOUS
    <3>1. ASSUME NEW x, Goes(j, x), x # "wait" PROVE job'[j].at # "wait"
      BY <3>0, <3>1 DEF JobState
    <3>2. ASSUME NEW o, Yields(j, o) PROVE job'[j].at # "wait"  BY <3>0, <3>2 DEF JobState
    <3>3. CASE Compose(j) \/ Look(j)  BY <3>1, <3>2, <3>3 DEF Compose, Look
    <3>4. CASE Commit(j)  BY <3>1, <3>2, <3>4 DEF Commit
    <3>5. CASE Reserve(j)  BY <3>0, <3>1, <3>2, <3>5 DEF Reserve, JobState
    <3>6. CASE Spawn(j) \/ Reap(j)  BY <3>1, <3>2, <3>6 DEF Spawn, Reap
    <3>7. CASE Stopped(j)  BY <3>0, <3>7 DEF Stopped, JobState
    <3>8. CASE Seal(j)  BY <3>0, <3>8 DEF Seal, JobState
    <3>9. CASE Record(j)
      <4>1. PICK b \in BOOLEAN : job' = [job EXCEPT ![j].at = "finish", ![j].durable = b]
        BY <3>9 DEF Record
      <4> QED  BY <3>0, <4>1 DEF JobState
    <3>10. CASE Finish(j) \/ End(j)  BY <3>1, <3>10 DEF Finish, End
    <3> QED  BY <1>4, <3>3, <3>4, <3>5, <3>6, <3>7, <3>8, <3>9, <3>10 DEF Thread
  <2> QED  BY <2>1 DEF Owed
<1> QED  BY <1>1, <1>2, <1>3, <1>4, OwedKept

\* A Cancel made from the handover on sets out with its kill, and keeps it until done.
LEMMA OwedCancel ==
  ASSUME IInv, NEW j \in Jobs, Owed(j), NEW k \in Jobs, PressCancel(k) \/ Canceller(k)
  PROVE  Owed(j)'
<1> USE AtFacts
<1>0. canceller \in [Jobs -> {"idle", "mark", "mark, kill", "kill", "done"}]
  BY DEF IInv, TypeOK
<1>1. CASE PressCancel(k) /\ k = j
  <2>1. job'[j].at = job[j].at /\ job'[j].handed = job[j].handed
    BY <1>1 DEF PressCancel, JobState
  <2>2. job[j].handed => canceller'[j] = "mark, kill"  BY <1>0, <1>1 DEF PressCancel
  <2> QED  BY <2>1, <2>2 DEF Owed
<1>2. CASE PressCancel(k) /\ k # j
  <2>1. job'[j] = job[j]  BY <1>2 DEF PressCancel
  <2>2. canceller'[j] = canceller[j]  BY <1>0, <1>2 DEF PressCancel
  <2> QED  BY <1>2, <2>1, <2>2, OwedKept DEF PressCancel
<1>3. CASE CancelMarks(k)
  <2>1. canceller[j] = "mark, kill" => canceller'[j] \in {"mark, kill", "kill"}
    BY <1>0, <1>3 DEF CancelMarks
  <2>2. canceller[j] = "kill" => canceller'[j] = "kill"  BY <1>0, <1>3 DEF CancelMarks
  <2> QED  BY <1>3, <2>1, <2>2 DEF Owed, CancelMarks
<1>4. CASE CancelKills(k)
  <2>1. k = j => group'[j] # "running"  BY <1>4 DEF CancelKills, Killed
  <2>2. k # j => canceller'[j] = canceller[j] /\ group'[j] = group[j]  BY <1>4 DEF CancelKills
  <2> QED  BY <1>4, <2>1, <2>2 DEF Owed, CancelKills
<1> QED  BY <1>1, <1>2, <1>3, <1>4 DEF Canceller

\* Every step together.
LEMMA NextOwed == IInv /\ (\A j \in Jobs : Owed(j)) /\ [Next]_vars => \A j \in Jobs : Owed(j)'
<1> SUFFICES ASSUME IInv, [Next]_vars, NEW j \in Jobs, Owed(j) PROVE Owed(j)'  OBVIOUS
<1> USE AtFacts DEF process, disk
<1>1. ASSUME NEW k \in Jobs, Thread(k) \/ PressCancel(k) \/ Canceller(k) PROVE Owed(j)'
  BY <1>1, OwedThread, OwedCancel
<1>2. ASSUME NEW k \in Jobs, Press(k) PROVE Owed(j)'
  <2>1. k = j => job'[j].at # "wait"
    <3>1. PICK stage \in {"compose", "ended"} : Goes(k, stage)  BY <1>2 DEF Press
    <3> QED  BY <3>1 DEF Goes, JobState
  <2>2. k # j => job'[j] = job[j]  BY <1>2 DEF Press, Goes
  <2>3. CASE k = j  BY <2>1, <2>3 DEF Owed
  <2>4. CASE k # j  BY <1>2, <2>2, <2>4, OwedKept DEF Press
  <2> QED  BY <2>3, <2>4
<1>3. ASSUME NEW k \in Jobs, CliExits(k) \/ CallLimit(k) \/ KillNext(k) PROVE Owed(j)'
  <2>1. group'[j] = "running" => group[j] = "running"
    BY <1>3 DEF CliExits, CallLimit, KillNext, Killed
  <2> QED  BY <1>3, <2>1, OwedKept DEF CliExits, CallLimit, KillNext
<1>4. ASSUME NEW k \in Jobs, Recover(k) \/ RecoverFails(k) PROVE Owed(j)'
  BY <1>4, OwedKept DEF Recover, RecoverFails
<1>5. ASSUME NEW s \in Sessions, Discard(s) PROVE Owed(j)'  BY <1>5, OwedKept DEF Discard
<1>6. CASE Close  BY <1>6, OwedKept DEF Close
<1>7. CASE Exit \/ Crash
  <2>1. job'[j] = IF job[j].at = "off" THEN job[j] ELSE NewJob("lost")
    BY <1>7 DEF Exit, Crash, Die
  <2>2. job'[j].at # "wait"  BY <2>1 DEF NewJob
  <2> QED  BY <2>2 DEF Owed
<1>8. CASE Restart  BY <1>8, OwedKept DEF Restart
<1>9. CASE UNCHANGED vars  BY <1>9, OwedKept DEF vars
<1> QED  BY <1>1, <1>2, <1>3, <1>4, <1>5, <1>6, <1>7, <1>8, <1>9 DEF Next
-----------------------------------------------------------------------------
\* What a reader is told. The words for a Cancel that came before the stop, and the
\* two stages an outcome is past.
Named == {"cancelled", "unsent", "unstopped"}

\* A Cancel finds a job whose thread runs and is not sealed, and stays with it.
Open(j) ==
  /\ slot[SessionOf[j]] = j => job[j].at \notin Threadless
  /\ job[j].at \in {"record", "finish", "end"} => job[j].sealed
  /\ j \in seen.told => job[j].at \in Gone \/ job[j].cancelled # "no"
  /\ j \in seen.early => j \in seen.told /\ j \notin ledger /\ job[j].at # "reserve"
  /\ job[j].at = "lost" => job[j].cancelled = "no" /\ group[j] # "unstopped"

\* What the thread is about to record already says what the store must be told.
Worded(j) ==
  /\ job[j].at = "record" => /\ job[j].cancelled # "no" => job[j].outcome.why # "reading"
                             /\ job[j].cancelled = "yes" => job[j].outcome.why \in Named
  /\ group[j] = "unstopped" =>
       \/ job[j].at \in {"outcome", "seal", "record"} /\ job[j].outcome.why = "unstopped"
       \/ job[j].at \in {"finish", "end", "ended"}

\* What the store was told.
Told(j) ==
  /\ j \in seen.told => recorded[j].why # "reading"
  /\ recorded[j] # NoOutcome =>
       /\ job[j].cancelled = "yes" => recorded[j].why \in Named
       /\ group[j] = "unstopped" => recorded[j].why = "unstopped"

Word(j) == Open(j) /\ Worded(j) /\ Told(j)

\* A step that leaves a job, its CLI, its outcome and its Cancel alone.
LEMMA WordKept ==
  ASSUME NEW j \in Jobs, Word(j), job'[j] = job[j], recorded'[j] = recorded[j],
         group'[j] = "unstopped" => group[j] = "unstopped",
         slot'[SessionOf[j]] = j => slot[SessionOf[j]] = j,
         j \in ledger' <=> j \in ledger, j \in seen'.told <=> j \in seen.told,
         j \in seen'.early <=> j \in seen.early
  PROVE  Word(j)'
BY DEF Word, Open, Worded, Told

\* A step of the thread that only moves it on, to a stage before its outcome.
LEMMA WordMoves ==
  ASSUME IInv, NEW j \in Jobs, Word(j), job[j].at \notin Threadless,
         NEW b \in JobState, job'[j] = b, b.at \notin Threadless \cup {"record", "reserve"},
         b.cancelled = job[j].cancelled, b.sealed = job[j].sealed,
         b.at \in {"finish", "end"} => b.sealed,
         group'[j] = "unstopped" =>
           \/ b.at \in {"outcome", "seal"} /\ b.outcome.why = "unstopped"
           \/ b.at = "end",
         recorded'[j] = NoOutcome \/ (recorded'[j] = recorded[j] /\ group'[j] = group[j]),
         j \in ledger' => j \in ledger \/ job[j].at = "reserve",
         UNCHANGED <<slot, seen>>
  PROVE  Word(j)'
<1>1. Gone \subseteq Threadless /\ job[j].at \in Stages  BY AtFacts DEF Gone, Threadless
<1>2. NoOutcome.why = "none"  BY DEF NoOutcome, Said
<1>3. Open(j)'  BY <1>1 DEF Word, Open, Threadless
<1>4. Worded(j)'  BY <1>1 DEF Worded, Threadless
<1>5. Told(j)'  BY <1>2 DEF Word, Told
<1> QED  BY <1>3, <1>4, <1>5 DEF Word

\* An outcome reached before the wait is over, and a move towards the CLI.
LEMMA WordYields ==
  ASSUME IInv, NEW j \in Jobs, Word(j), NEW o \in Outcome, Yields(j, o),
         job[j].at \in {"compose", "look", "mark", "reserve", "spawn", "wait"},
         group'[j] = "unstopped" => group[j] = "unstopped" \/ o.why = "unstopped",
         UNCHANGED <<slot, seen, recorded, ledger>>
  PROVE  Word(j)'
<1> DEFINE b == [job[j] EXCEPT !.at = "outcome", !.outcome = o]
<1>1. b \in JobState /\ job'[j] = b /\ b.at = "outcome" /\ b.outcome = o
      /\ b.cancelled = job[j].cancelled /\ b.sealed = job[j].sealed
  BY AtFacts DEF Yields, JobState, Stages
<1>2. recorded[j] = NoOutcome  BY AtFacts DEF Fits, Untouched, Unstored
<1>3. group[j] # "unstopped" /\ job[j].at \notin Threadless
  BY DEF Word, Worded, Threadless
<1> QED  BY <1>1, <1>2, <1>3, WordMoves DEF Threadless

LEMMA WordGoes ==
  ASSUME IInv, NEW j \in Jobs, Word(j), NEW b \in JobState, job'[j] = b,
         job[j].at \in {"compose", "look", "reserve", "spawn", "handover"},
         b.at \in {"look", "mark", "spawn", "handover", "wait"},
         b.cancelled = job[j].cancelled, b.sealed = job[j].sealed,
         group'[j] = "unstopped" => group[j] = "unstopped",
         j \in ledger' => j \in ledger \/ job[j].at = "reserve",
         UNCHANGED <<slot, seen, recorded>>
  PROVE  Word(j)'
<1>1. recorded[j] = NoOutcome  BY AtFacts DEF Fits, Untouched, Unstored
<1>2. group[j] # "unstopped" /\ job[j].at \notin Threadless
  BY DEF Word, Worded, Threadless
<1> QED  BY <1>1, <1>2, WordMoves DEF Threadless

\* The thread as far as the CLI's end. No Cancel reaches the reservation.
LEMMA WordCompose ==
  ASSUME IInv, NEW j \in Jobs, Word(j), Compose(j) \/ Look(j) PROVE Word(j)'
<1>1. UNCHANGED <<slot, seen, recorded, ledger, group>>  BY DEF Compose, Look, disk
<1>2. ASSUME NEW why \in Reasons, Yields(j, Said(why, FALSE)) PROVE Word(j)'
  BY <1>1, <1>2, OutcomeTyped, WordYields DEF Compose, Look, At
<1>3. ASSUME NEW stage \in {"look", "mark"}, Goes(j, stage) PROVE Word(j)'
  <2> DEFINE b == [job[j] EXCEPT !.at = stage]
  <2>1. b \in JobState /\ job'[j] = b /\ b.at = stage /\ b.cancelled = job[j].cancelled
        /\ b.sealed = job[j].sealed
    BY <1>3, AtFacts DEF Goes, JobState, Stages
  <2> QED  BY <1>1, <2>1, WordGoes DEF Compose, Look, At
<1> QED  BY <1>2, <1>3 DEF Compose, Look, Reasons, NoOutcome

LEMMA WordCommit == ASSUME IInv, NEW j \in Jobs, Word(j), Commit(j) PROVE Word(j)'
<1>1. UNCHANGED <<slot, seen, recorded, ledger, group>> /\ job[j].at = "mark"
  BY DEF Commit, At
<1>2. ASSUME NEW why \in Reasons, Yields(j, Said(why, FALSE)) PROVE Word(j)'
  BY <1>1, <1>2, OutcomeTyped, WordYields
<1>3. CASE job[j].cancelled = "no" /\ Goes(j, "reserve")
  <2>1. /\ job'[j].at = "reserve" /\ job'[j].cancelled = "no"
        /\ job'[j].sealed = job[j].sealed
    BY <1>3, AtFacts DEF Goes, JobState
  <2>2. j \notin seen.told /\ group[j] # "unstopped"
    BY <1>1, <1>3 DEF Word, Open, Worded, Gone
  <2>3. recorded[j] = NoOutcome  BY <1>1, AtFacts DEF Fits, Untouched, Unstored
  <2> QED  BY <1>1, <2>1, <2>2, <2>3 DEF Word, Open, Worded, Told, Threadless
<1> QED  BY <1>2, <1>3 DEF Commit, Reasons

LEMMA WordReserve == ASSUME IInv, NEW j \in Jobs, Word(j), Reserve(j) PROVE Word(j)'
<1>1. UNCHANGED <<slot, seen, recorded, group>> /\ job[j].at = "reserve"
  BY DEF Reserve, At
<1>2. ASSUME NEW why \in Reasons, Yields(j, Said(why, FALSE)), ledger' = ledger PROVE Word(j)'
  BY <1>1, <1>2, OutcomeTyped, WordYields
<1>3. CASE job' = [job EXCEPT ![j].at = "spawn", ![j].spent = TRUE]
  <2> DEFINE b == [job[j] EXCEPT !.at = "spawn", !.spent = TRUE]
  <2>1. b \in JobState /\ job'[j] = b /\ b.at = "spawn" /\ b.cancelled = job[j].cancelled
        /\ b.sealed = job[j].sealed
    BY <1>3, AtFacts DEF JobState, Stages
  <2> QED  BY <1>1, <2>1, WordGoes
<1> QED  BY <1>2, <1>3 DEF Reserve, Reasons, NoOutcome

LEMMA WordSpawn ==
  ASSUME IInv, NEW j \in Jobs, Word(j), Spawn(j) \/ HandOver(j) PROVE Word(j)'
<1>1. /\ UNCHANGED <<slot, seen, recorded, ledger>> /\ job[j].at \in {"spawn", "handover"}
      /\ group'[j] = "unstopped" => group[j] = "unstopped"
  BY AtFacts DEF Spawn, HandOver, Killed, At, disk
<1>2. CASE Yields(j, Said("failed", TRUE)) /\ job[j].at = "spawn"
  BY <1>1, <1>2, OutcomeTyped, WordYields DEF Reasons
<1>3. CASE Goes(j, "handover")
  <2> DEFINE b == [job[j] EXCEPT !.at = "handover"]
  <2>1. b \in JobState /\ job'[j] = b /\ b.at = "handover" /\ b.cancelled = job[j].cancelled
        /\ b.sealed = job[j].sealed
    BY <1>3, AtFacts DEF Goes, JobState, Stages
  <2> QED  BY <1>1, <2>1, WordGoes
<1>4. CASE HandOver(j)
  <2> DEFINE b == [job[j] EXCEPT !.at = "wait", !.handed = TRUE]
  <2>1. b \in JobState /\ job'[j] = b /\ b.at = "wait" /\ b.cancelled = job[j].cancelled
        /\ b.sealed = job[j].sealed
    BY <1>4, AtFacts DEF HandOver, JobState, Stages
  <2> QED  BY <1>1, <2>1, WordGoes
<1> QED  BY <1>2, <1>3, <1>4 DEF Spawn, At

\* A CLI that would not end is said so where that is seen.
LEMMA WordReap == ASSUME IInv, NEW j \in Jobs, Word(j), Reap(j) PROVE Word(j)'
<1>1. UNCHANGED <<slot, seen, recorded, ledger>> /\ job[j].at = "wait"
  BY DEF Reap, At, disk
<1>2. PICK why \in Reasons :
        Yields(j, Said(why, TRUE)) /\ (group'[j] = "unstopped" => why = "unstopped")
  BY AtFacts DEF Reap, Reasons
<1>3. Said(why, TRUE) \in Outcome /\ Said(why, TRUE).why = why  BY OutcomeTyped DEF Said
<1> QED  BY <1>1, <1>2, <1>3, WordYields

\* The stop renames no CLI that would not end.
LEMMA WordStopped == ASSUME IInv, NEW j \in Jobs, Word(j), Stopped(j) PROVE Word(j)'
<1>1. UNCHANGED <<slot, seen, recorded, ledger, group>> /\ job[j].at = "outcome"
  BY DEF Stopped, At, disk
<1> DEFINE was == job[j].outcome
           o == IF closed /\ was.spent /\ was.why \notin {"reading", "unstopped", "oversized"}
                THEN Said("interrupted", TRUE) ELSE was
           b == [job[j] EXCEPT !.at = "seal", !.outcome = o]
<1>2. o \in Outcome /\ (was.why = "unstopped" => o.why = "unstopped")
  BY AtFacts, OutcomeTyped DEF Said, Reasons
<1>3. b \in JobState /\ job'[j] = b /\ b.at = "seal" /\ b.outcome = o
      /\ b.cancelled = job[j].cancelled /\ b.sealed = job[j].sealed
  BY <1>2, AtFacts DEF Stopped, JobState, Stages
<1>4. recorded[j] = NoOutcome /\ (group[j] = "unstopped" => was.why = "unstopped")
  BY <1>1, AtFacts DEF Fits, Untouched, Unstored, Word, Worded
<1> HIDE DEF o
<1> QED  BY <1>1, <1>2, <1>3, <1>4, WordMoves DEF Threadless

\* The outcome of a cancelled job: no reading; the Cancel's word, when the Cancel came
\* first; and a CLI that would not end, in any case.
LEMMA CancelledSays ==
  ASSUME NEW b \in JobState
  PROVE  /\ Cancelled(b).why # "reading"
         /\ b.cancelled = "yes" => Cancelled(b).why \in Named
         /\ b.outcome.why = "unstopped" => Cancelled(b).why = "unstopped"
BY DEF Cancelled, Said, Named

\* The seal is the last word: a Cancel came before it, and is said, or never comes.
LEMMA WordSeal == ASSUME IInv, NEW j \in Jobs, Word(j), Seal(j) PROVE Word(j)'
<1>1. UNCHANGED <<slot, seen, recorded, ledger, group>> /\ job[j].at = "seal"
  BY DEF Seal, At, disk
<1> DEFINE was == job[j].outcome
           o == IF job[j].cancelled = "no" \/ was = NoOutcome THEN was ELSE Cancelled(job[j])
           stage == IF was = NoOutcome THEN "finish" ELSE "record"
           b == [job[j] EXCEPT !.at = stage, !.sealed = TRUE, !.outcome = o]
<1>2. job[j].outcome.spent <=> job[j].spent  BY <1>1, AtFacts DEF Fits, Charged
<1>3. /\ o \in Outcome
      /\ stage = "record" =>
           /\ job[j].cancelled # "no" => o.why # "reading"
           /\ job[j].cancelled = "yes" => o.why \in Named
      /\ was.why = "unstopped" => o.why = "unstopped"
  BY <1>2, AtFacts, CancelledSpends, CancelledSays DEF NoOutcome, Said
<1>4. b \in JobState /\ job'[j] = b /\ b.at = stage /\ b.outcome = o /\ b.sealed
      /\ b.cancelled = job[j].cancelled
  BY <1>3, AtFacts DEF Seal, JobState, Stages
<1>5. recorded[j] = NoOutcome /\ (group[j] = "unstopped" => was.why = "unstopped")
  BY <1>1, AtFacts DEF Fits, Untouched, Unstored, Word, Worded
<1>6. stage \in {"finish", "record"} /\ NoOutcome.why = "none"  BY DEF NoOutcome, Said
<1> HIDE DEF o, stage, b
<1>7. Open(j)'  BY <1>1, <1>4, <1>6 DEF Word, Open, Gone, Threadless
<1>8. Worded(j)'  BY <1>1, <1>3, <1>4, <1>5, <1>6 DEF Worded
<1>9. Told(j)'  BY <1>1, <1>5, <1>6 DEF Told
<1> QED  BY <1>7, <1>8, <1>9 DEF Word

\* What the store takes is what the thread was about to record.
LEMMA WordRecord == ASSUME IInv, NEW j \in Jobs, Word(j), Record(j) PROVE Word(j)'
<1>1. UNCHANGED <<slot, ledger, group>> /\ job[j].at = "record"
  BY DEF Record, At
<1>2. PICK durable \in BOOLEAN :
        job' = [job EXCEPT ![j].at = "finish", ![j].durable = durable]
  BY DEF Record
<1>3. /\ job'[j].at = "finish" /\ job'[j].sealed = job[j].sealed
      /\ job'[j].cancelled = job[j].cancelled
  BY <1>2, AtFacts DEF JobState
<1>4. seen \in [dropped: SUBSET Jobs, doubted: SUBSET Jobs, early: SUBSET Jobs,
                told: SUBSET Jobs]
  BY DEF IInv, TypeOK
<1>5. recorded'[j] \in {recorded[j], job[j].outcome} /\ seen'.told = seen.told
      /\ seen'.early = seen.early
  BY <1>4, AtFacts DEF Record, Takes
<1>6. recorded[j] = NoOutcome /\ NoOutcome.why = "none"
  BY <1>1, AtFacts DEF Fits, Untouched, Unstored, NoOutcome, Said
<1>7. Open(j)'  BY <1>1, <1>3, <1>5 DEF Word, Open, Gone, Threadless
<1>8. Worded(j)'  BY <1>3 DEF Worded
<1>9. Told(j)'
  <2>1. job[j].at \notin Gone  BY <1>1 DEF Gone
  <2> QED  BY <1>1, <1>3, <1>5, <1>6, <2>1 DEF Word, Open, Worded, Told
<1> QED  BY <1>7, <1>8, <1>9 DEF Word

\* The thread's end, and the slot's.
LEMMA WordFinish ==
  ASSUME IInv, NEW j \in Jobs, Word(j), Finish(j) \/ End(j) PROVE Word(j)'
<1>1. UNCHANGED <<seen, recorded, ledger, group>> /\ job[j].at \in {"finish", "end"}
  BY DEF Finish, End, At, disk
<1>2. CASE Finish(j)
  <2> DEFINE b == [job[j] EXCEPT !.at = "end"]
  <2>1. b \in JobState /\ job'[j] = b /\ b.at = "end" /\ b.cancelled = job[j].cancelled
        /\ b.sealed = job[j].sealed
    BY <1>2, AtFacts DEF Finish, Goes, JobState, Stages
  <2>2. job[j].sealed  BY <1>1 DEF Word, Open
  <2> QED  BY <1>1, <1>2, <2>1, <2>2, WordMoves DEF Finish, Threadless
<1>3. CASE End(j)
  <2>1. job'[j].at = "ended" /\ job'[j].cancelled = job[j].cancelled
    BY <1>3, AtFacts DEF End, Goes, JobState
  <2>2. slot'[SessionOf[j]] # j
    BY <1>3, AtFacts, ReadingJobsAssumption DEF End, Free, ReadingJobsAssumption
  <2> QED  BY <1>1, <2>1, <2>2 DEF Word, Open, Worded, Told, Gone, Threadless
<1> QED  BY <1>2, <1>3

\* A press finds a job nothing was ever told of.
LEMMA WordPress == ASSUME IInv, NEW j \in Jobs, Word(j), Press(j) PROVE Word(j)'
<1>1. UNCHANGED <<seen, recorded, ledger, group>> /\ job[j].at = "off"
  BY DEF Press, At, disk
<1>2. PICK stage \in {"compose", "ended"} :
        Goes(j, stage) /\ (stage = "ended" => slot' = slot)
  BY DEF Press
<1>3. job'[j].at = stage /\ job'[j].cancelled = job[j].cancelled
  BY <1>2, AtFacts DEF Goes, JobState
<1>4. slot[SessionOf[j]] # j  BY <1>1 DEF Word, Open, Threadless
<1>5. recorded[j] = NoOutcome /\ NoOutcome.why = "none" /\ group[j] # "unstopped"
  BY <1>1, AtFacts DEF Fits, Untouched, Unstored, Word, Worded, NoOutcome, Said
<1> QED  BY <1>1, <1>2, <1>3, <1>4, <1>5 DEF Word, Open, Worded, Told, Gone, Threadless

\* An accepted Cancel finds a job whose outcome is neither sealed nor stored.
LEMMA WordCancel ==
  ASSUME IInv, NEW j \in Jobs, Word(j), PressCancel(j) PROVE Word(j)'
<1>1. UNCHANGED <<slot, recorded, ledger, group>> /\ ~job[j].sealed
      /\ slot[SessionOf[j]] = j
  BY DEF PressCancel, disk
<1>2. job[j].at \in Unstored \ {"off", "record"}
  BY <1>1, AtFacts DEF Word, Open, Threadless, Stages, Unstored
<1>3. recorded[j] = NoOutcome /\ NoOutcome.why = "none"
  BY <1>2, AtFacts DEF Fits, Untouched, NoOutcome, Said
<1>4. /\ job'[j].at = job[j].at /\ job'[j].cancelled # "no" /\ job'[j].sealed = job[j].sealed
      /\ job'[j].outcome = job[j].outcome
  BY AtFacts DEF PressCancel, JobState
<1>5. j \in seen'.early =>
        j \in seen.early \/ job[j].at \in {"compose", "look", "mark"}
  <2>1. seen \in [dropped: SUBSET Jobs, doubted: SUBSET Jobs, early: SUBSET Jobs,
                  told: SUBSET Jobs]
    BY DEF IInv, TypeOK
  <2> QED  BY <2>1 DEF PressCancel
<1>6. j \in seen'.told
  <2>1. seen \in [dropped: SUBSET Jobs, doubted: SUBSET Jobs, early: SUBSET Jobs,
                  told: SUBSET Jobs]
    BY DEF IInv, TypeOK
  <2> QED  BY <2>1 DEF PressCancel
<1>7. job[j].at \in {"compose", "look", "mark"} => j \notin ledger
  BY AtFacts DEF Fits, Charged, Gone
<1>8. job[j].at \notin {"lost", "record", "finish", "end", "ended"}  BY <1>2 DEF Unstored
<1>9. Open(j)'  BY <1>1, <1>4, <1>5, <1>6, <1>7, <1>8 DEF Word, Open, Gone, Threadless
<1>10. Worded(j)'  BY <1>1, <1>4, <1>8 DEF Word, Worded
<1>11. Told(j)'  BY <1>1, <1>3 DEF Told
<1> QED  BY <1>9, <1>10, <1>11 DEF Word

\* Recovery tells of a job no Cancel can reach, and never of a reading.
LEMMA WordRecover == ASSUME IInv, NEW j \in Jobs, Word(j), Recover(j) PROVE Word(j)'
<1>1. UNCHANGED <<slot, job, ledger, group>>  BY DEF Recover
<1>2. job[j].at = "lost"  BY AtFacts DEF Recover, Fits, Recovering
<1>3. job[j].cancelled = "no" /\ group[j] # "unstopped"  BY <1>2 DEF Word, Open
<1>4. ASSUME NEW c PROVE Recovered(j, c).why # "reading"
  BY DEF Recovered, Said, Kept
<1>5. /\ seen'.told = seen.told /\ seen'.early = seen.early
      /\ recorded'[j] = recorded[j] \/ recorded'[j].why # "reading"
  <2>1. /\ seen \in [dropped: SUBSET Jobs, doubted: SUBSET Jobs, early: SUBSET Jobs,
                     told: SUBSET Jobs]
        /\ recorded \in [Jobs -> Outcome]
    BY DEF IInv, TypeOK
  <2>2. PICK c : \/ UNCHANGED <<recorded, seen>>
                 \/ seen' = [seen EXCEPT !.dropped = @ \cup {j}] /\ UNCHANGED recorded
                 \/ /\ recorded' = [recorded EXCEPT ![j] = Recovered(j, c)]
                    /\ \E d \in SUBSET Jobs : seen' = [seen EXCEPT !.doubted = d]
    <3>1. seen.doubted \cup {j} \in SUBSET Jobs /\ seen.doubted \in SUBSET Jobs  BY <2>1
    <3>2. PICK doubt \in BOOLEAN :
            LET unsure == doubt /\ j \notin ledger
                o == Recovered(j, j \in ledger \/ unsure)
            IN IF recorded[j] # NoOutcome THEN UNCHANGED <<recorded, seen>>
               ELSE IF SessionOf[j] \in discarded
               THEN seen' = [seen EXCEPT !.dropped = @ \cup {j}] /\ UNCHANGED recorded
               ELSE /\ recorded' = [recorded EXCEPT ![j] = o]
                    /\ seen' = [seen EXCEPT !.doubted = IF unsure THEN @ \cup {j} ELSE @]
      BY DEF Recover
    <3> QED  BY <3>1, <3>2
  <2> QED  BY <2>1, <2>2, <1>4
<1> QED  BY <1>1, <1>2, <1>3, <1>5 DEF Word, Open, Worded, Told

\* A death takes the Cancel and the CLI with the thread.
LEMMA WordDie == ASSUME IInv, NEW j \in Jobs, Word(j), Die PROVE Word(j)'
<1>1. UNCHANGED <<recorded, ledger, seen>> /\ group'[j] = "none" /\ slot'[SessionOf[j]] = Free
  BY AtFacts DEF Die, disk
<1>2. Free # j  BY ReadingJobsAssumption DEF Free, ReadingJobsAssumption
<1>3. CASE job[j].at = "off"
  <2>1. job'[j] = job[j]  BY <1>3 DEF Die
  <2> QED  BY <1>1, <1>2, <1>3, <2>1 DEF Word, Open, Worded, Told
<1>4. CASE job[j].at # "off"
  <2>1. job'[j].at = "lost" /\ job'[j].cancelled = "no"  BY <1>4 DEF Die, NewJob
  <2> QED  BY <1>1, <1>2, <1>4, <2>1 DEF Word, Open, Worded, Told, Gone, Threadless
<1> QED  BY <1>3, <1>4

\* Another job's steps: its press and its end move its own session's slot.
LEMMA WordOther ==
  ASSUME IInv, NEW j \in Jobs, Word(j), NEW k \in Jobs, k # j,
         Press(k) \/ Thread(k) \/ PressCancel(k) \/ Recover(k)
  PROVE  Word(j)'
<1> USE AtFacts, ReadingJobsAssumption DEF Goes, Yields, ReadingJobsAssumption
<1>0. seen \in [dropped: SUBSET Jobs, doubted: SUBSET Jobs, early: SUBSET Jobs,
                told: SUBSET Jobs]
  BY DEF IInv, TypeOK
<1>1. CASE Press(k) \/ End(k)
  <2>1. job'[j] = job[j] /\ UNCHANGED <<recorded, group, ledger, seen>>
    BY <1>1 DEF Press, End, disk
  <2>2. slot'[SessionOf[j]] = j => slot[SessionOf[j]] = j
    BY <1>1 DEF Press, End, Free
  <2> QED  BY <2>1, <2>2, WordKept
<1>2. CASE Compose(k) \/ Look(k) \/ Commit(k) \/ Stopped(k) \/ Seal(k) \/ Finish(k)
  <2>1. job'[j] = job[j] /\ UNCHANGED <<recorded, group, ledger, seen, slot>>
    BY <1>2 DEF Compose, Look, Commit, Stopped, Seal, Finish, disk
  <2> QED  BY <2>1, WordKept
<1>3. CASE Reserve(k) \/ Spawn(k) \/ HandOver(k) \/ Reap(k)
  <2>1. /\ job'[j] = job[j] /\ UNCHANGED <<recorded, seen, slot>> /\ group'[j] = group[j]
        /\ j \in ledger' <=> j \in ledger
    BY <1>3 DEF Reserve, Spawn, HandOver, Reap, disk
  <2> QED  BY <2>1, WordKept
<1>4. CASE Record(k)
  <2>1. job'[j] = job[j] /\ UNCHANGED <<group, ledger, slot>>  BY <1>4 DEF Record
  <2>2. recorded'[j] = recorded[j] /\ seen'.told = seen.told /\ seen'.early = seen.early
    BY <1>0, <1>4 DEF Record, Takes
  <2> QED  BY <2>1, <2>2, WordKept
<1>5. CASE PressCancel(k)
  <2>1. job'[j] = job[j] /\ UNCHANGED <<group, ledger, slot, recorded>>
    BY <1>5 DEF PressCancel, disk
  <2>2. (j \in seen'.told <=> j \in seen.told) /\ (j \in seen'.early <=> j \in seen.early)
    BY <1>0, <1>5 DEF PressCancel
  <2> QED  BY <2>1, <2>2, WordKept
<1>6. CASE Recover(k)
  <2>1. UNCHANGED <<job, group, ledger, slot>>  BY <1>6 DEF Recover
  <2>2. recorded'[j] = recorded[j] /\ seen'.told = seen.told /\ seen'.early = seen.early
    BY <1>0, <1>6 DEF Recover
  <2> QED  BY <2>1, <2>2, WordKept
<1> QED  BY <1>1, <1>2, <1>3, <1>4, <1>5, <1>6 DEF Thread

\* Every step together.
LEMMA NextWord == IInv /\ (\A j \in Jobs : Word(j)) /\ [Next]_vars => \A j \in Jobs : Word(j)'
<1> SUFFICES ASSUME IInv, [Next]_vars, NEW j \in Jobs, Word(j) PROVE Word(j)'  OBVIOUS
<1>1. ASSUME NEW k \in Jobs, Press(k) \/ Thread(k) \/ PressCancel(k) \/ Recover(k)
      PROVE  Word(j)'
  <2>1. CASE k = j
    BY <1>1, <2>1, WordPress, WordCompose, WordCommit, WordReserve, WordSpawn, WordReap,
       WordStopped, WordSeal, WordRecord, WordFinish, WordCancel, WordRecover DEF Thread
  <2>2. CASE k # j  BY <1>1, <2>2, WordOther
  <2> QED  BY <2>1, <2>2
<1>2. ASSUME NEW k \in Jobs,
             CliExits(k) \/ CallLimit(k) \/ KillNext(k) \/ CancelKills(k)
      PROVE  Word(j)'
  <2>1. UNCHANGED <<job, recorded, slot, ledger, seen>>
    BY <1>2 DEF CliExits, CallLimit, KillNext, CancelKills, disk
  <2>2. group'[j] = "unstopped" => group[j] = "unstopped"
    BY <1>2, AtFacts DEF CliExits, CallLimit, KillNext, CancelKills, Killed
  <2> QED  BY <2>1, <2>2, WordKept
<1>3. ASSUME NEW k \in Jobs, CancelMarks(k) \/ RecoverFails(k) PROVE Word(j)'
  BY <1>3, WordKept DEF CancelMarks, RecoverFails, disk
<1>4. ASSUME NEW s \in Sessions, Discard(s) PROVE Word(j)'  BY <1>4, WordKept DEF Discard
<1>5. CASE Close \/ Restart  BY <1>5, WordKept DEF Close, Restart, disk
<1>6. CASE Exit \/ Crash  BY <1>6, WordDie DEF Exit, Crash
<1>7. CASE UNCHANGED vars  BY <1>7, WordKept DEF vars, disk
<1> QED  BY <1>1, <1>2, <1>3, <1>4, <1>5, <1>6, <1>7 DEF Next, Canceller

LEMMA InitWord == Init => \A j \in Jobs : Word(j)
BY ReadingJobsAssumption
DEF Init, Word, Open, Worded, Told, NewJob, NoOutcome, Said, Free, ReadingJobsAssumption
-----------------------------------------------------------------------------
\* Every variable keeps its type: no step, no failing store and no recovery puts a
\* word in an outcome or a marker the code has none for.
THEOREM JobsTyped == Spec => []TypeOK
<1>1. IInv => TypeOK  BY DEF IInv
<1> QED  BY InitIInv, NextIInv, <1>1, PTL DEF Spec

\* A charge is never lost: wherever the process dies and whatever write fails, the
\* ledger's charge has its marker, its spent outcome, or a discarded entry
\* (reading_jobs._run's `finally`, mark_unstored, _recover).
THEOREM ChargesKept == Spec => []ChargeKept
<1>1. IInv => ChargeKept  BY DEF IInv, TypeOK, JobInv, Kept1, ChargeKept
<1> QED  BY InitIInv, NextIInv, <1>1, PTL DEF Spec

\* What the reader is shown as spent is what was charged, from the job's own thread
\* or from the recovery pass, except where the ledger could not say
\* (reading_jobs._outcome, _cancelled, _recovered).
THEOREM CountsAgree == Spec => []CountEqualsCharge
<1>1. IInv => CountEqualsCharge  BY DEF IInv, JobInv, Count1, CountEqualsCharge
<1> QED  BY InitIInv, NextIInv, <1>1, PTL DEF Spec

\* Of readers' presses, a session has one reading at a time: a live job's thread holds
\* its session's slot from the press to its end (reading.start_job, end_job), also when
\* its thread could not start and through any stop and restart. The unasked lane is no
\* part of ReadingJobs: its refused claim gives the slot back under the job.
THEOREM OneReading == Spec => []OnePerSession
<1>1. Held => OnePerSession  BY DEF Held
<1> QED  BY InitIInv, NextIInv, InitHeld, NextHeld, <1>1, PTL DEF Spec

\* When kill_all is through no CLI runs: it lists the groups in the hold that shuts
\* the runner, and a spawn asks in the hold that makes its group (supervise.py).
THEOREM NoCliLeft == Spec => []StopLeavesNoCli
<1>1. Held => StopLeavesNoCli  BY DEF Held, StopLeavesNoCli
<1> QED  BY InitIInv, NextIInv, InitHeld, NextHeld, <1>1, PTL DEF Spec

\* The kill a Cancel owes is never nobody's: a flag and a group read in one hold make
\* it the canceller's or the handover's (reading.Job.cancel, hand_over).
THEOREM CancelsKill == Spec => []KillOwed
<1> DEFINE AllOwed == \A j \in Jobs : Owed(j)
<1>1. Init => AllOwed  BY DEF Init, Owed, NewJob
<1>2. IInv /\ AllOwed /\ [Next]_vars => AllOwed'  BY NextOwed
<1>3. AllOwed => KillOwed  BY DEF Owed, KillOwed
<1> HIDE DEF AllOwed
<1> QED  BY InitIInv, NextIInv, <1>1, <1>2, <1>3, PTL DEF Spec

\* A Cancel the reader saw accepted never ends in a reading, in this run or the next,
\* and one accepted before the commit point is never charged (reading.Job.cancel and
\* seal, reading_jobs._cancelled, before_reserve).
THEOREM CancelsHonoured == Spec => []CancelHonoured
<1> DEFINE AllWord == \A j \in Jobs : Word(j)
<1>1. Init => AllWord  BY InitWord
<1>2. IInv /\ AllWord /\ [Next]_vars => AllWord'  BY NextWord
<1>3. IInv /\ AllWord => CancelHonoured
  BY DEF IInv, TypeOK, CancelHonoured, Word, Open, Told
<1> HIDE DEF AllWord
<1> QED  BY InitIInv, NextIInv, <1>1, <1>2, <1>3, PTL DEF Spec

\* What the reader is told ended a reading is what did: the Cancel, when it came before
\* the stop, and a CLI that would not end, whatever else reached it (_outcome,
\* _cancelled, Job.cancelled_after_close).
THEOREM OutcomesTrue == Spec => []OutcomeSays
<1> DEFINE AllWord == \A j \in Jobs : Word(j)
<1>1. Init => AllWord  BY InitWord
<1>2. IInv /\ AllWord /\ [Next]_vars => AllWord'  BY NextWord
<1>3. AllWord => OutcomeSays
  BY DEF OutcomeSays, CancelNamed, UnstoppedSaid, Word, Told, Named
<1> HIDE DEF AllWord
<1> QED  BY InitIInv, NextIInv, <1>1, <1>2, <1>3, PTL DEF Spec
-----------------------------------------------------------------------------
\* The account: what one more invariant must say of a job for each step of it to be a
\* step of ReadingAccount or none. A stage past which a job's outcome may be refused.
Past == {"finish", "end", "ended", "lost"}

Bill(j) ==
  /\ j \in recovering => marker[j] # "none"
  /\ j \in seen.dropped => SessionOf[j] \in discarded /\ job[j].at \in Past
  /\ job[j].at = "record" => job[j].outcome # NoOutcome
  /\ job[j].at \in {"outcome", "seal", "record"} /\ job[j].outcome.why = "reading"
       => j \in ledger
  /\ recorded[j].why = "reading" => j \in ledger

\* A step that leaves a job, its marker and its outcome alone.
LEMMA BillKept ==
  ASSUME NEW j \in Jobs, Bill(j), job'[j] = job[j], recorded'[j] = recorded[j],
         j \in recovering' => j \in recovering /\ marker'[j] = marker[j],
         j \in ledger => j \in ledger', j \in seen'.dropped => j \in seen.dropped,
         discarded \subseteq discarded'
  PROVE  Bill(j)'
BY DEF Bill

\* A step of the job's own thread, wherever it moves to; recovery has no business with it.
LEMMA BillMoves ==
  ASSUME IInv, NEW j \in Jobs, Bill(j), job[j].at # "lost", recovering' = recovering,
         recorded'[j] = recorded[j], j \in ledger => j \in ledger',
         seen'.dropped = seen.dropped, discarded' = discarded,
         job[j].at \in Past => job'[j].at \in Past,
         job'[j].at = "record" => job'[j].outcome # NoOutcome,
         job'[j].at \in {"outcome", "seal", "record"} /\ job'[j].outcome.why = "reading"
           => j \in ledger'
  PROVE  Bill(j)'
BY AtFacts DEF Bill, Fits, Recovering

LEMMA BillOpens ==
  ASSUME IInv, NEW j \in Jobs, Bill(j),
         Press(j) \/ Compose(j) \/ Look(j) \/ Commit(j) \/ Reserve(j)
  PROVE  Bill(j)'
<1>1. /\ UNCHANGED <<recovering, recorded, seen, discarded>> /\ ledger \subseteq ledger'
      /\ job[j].at \in {"off", "compose", "look", "mark", "reserve"}
  BY DEF Press, Compose, Look, Commit, Reserve, At, process, disk
<1>2. \/ /\ job'[j].at \in {"compose", "ended", "look", "mark", "reserve", "spawn"}
      \/ job'[j].at = "outcome" /\ job'[j].outcome.why # "reading"
  <2>1. ASSUME NEW why \in Reasons \ {"reading"}, Yields(j, Said(why, FALSE))
        PROVE  job'[j].at = "outcome" /\ job'[j].outcome.why # "reading"
    BY <2>1, YieldsTo DEF Said
  <2>2. ASSUME job' = [job EXCEPT ![j].at = "spawn", ![j].spent = TRUE]
        PROVE  job'[j].at = "spawn"
    BY <2>2, AtFacts DEF JobState
  <2>3. \/ \E at \in {"compose", "ended", "look", "mark", "reserve"} : Goes(j, at)
        \/ \E why \in Reasons \ {"reading"} : Yields(j, Said(why, FALSE))
        \/ job' = [job EXCEPT ![j].at = "spawn", ![j].spent = TRUE]
    BY DEF Press, Compose, Look, Commit, Reserve, NoOutcome, Reasons
  <2> QED  BY <2>1, <2>2, <2>3, GoesTo
<1> QED  BY <1>1, <1>2, BillMoves DEF Past

LEMMA BillRuns ==
  ASSUME IInv, NEW j \in Jobs, Bill(j), Spawn(j) \/ HandOver(j) \/ Reap(j) \/ Stopped(j)
  PROVE  Bill(j)'
<1>1. /\ UNCHANGED <<recovering, recorded, seen, discarded, ledger>>
      /\ job[j].at \in {"spawn", "handover", "wait", "outcome"}
  BY DEF Spawn, HandOver, Reap, Stopped, At, process, disk
<1>2. CASE Spawn(j) \/ HandOver(j) \/ Reap(j)
  <2>1. j \in ledger  BY <1>2, AtFacts DEF Spawn, HandOver, Reap, At, Fits, Charged, Gone
  <2>2. job'[j].at \in {"outcome", "handover", "wait"}
    <3>1. CASE Spawn(j)  BY <3>1, GoesTo, YieldsTo DEF Spawn
    <3>2. CASE HandOver(j)  BY <3>2, AtFacts DEF HandOver, JobState
    <3>3. CASE Reap(j)  BY <3>3, YieldsTo DEF Reap
    <3> QED  BY <1>2, <3>1, <3>2, <3>3
  <2> QED  BY <1>1, <2>1, <2>2, BillMoves DEF Past
<1>3. CASE Stopped(j)
  <2>1. /\ job'[j].at = "seal" /\ job[j].at = "outcome"
        /\ job'[j].outcome.why = "reading" => job[j].outcome.why = "reading"
    BY <1>3, AtFacts DEF Stopped, At, Said, JobState
  <2> QED  BY <1>1, <2>1, BillMoves DEF Bill, Past
<1> QED  BY <1>2, <1>3

LEMMA BillCloses ==
  ASSUME IInv, NEW j \in Jobs, Bill(j), Seal(j) \/ Finish(j) \/ End(j)
  PROVE  Bill(j)'
<1>1. /\ UNCHANGED <<recovering, recorded, seen, discarded, ledger>>
      /\ job[j].at \in {"seal", "finish", "end"}
  BY DEF Seal, Finish, End, At, process, disk
<1>2. CASE Seal(j)
  <2> DEFINE was == job[j].outcome
             o == IF job[j].cancelled = "no" \/ was = NoOutcome THEN was ELSE Cancelled(job[j])
  <2>1. /\ job'[j].at = IF was = NoOutcome THEN "finish" ELSE "record"
        /\ job'[j].outcome = o /\ job[j].at = "seal"
    BY <1>2, AtFacts DEF Seal, At, JobState
  <2>2. o.why = "reading" => was.why = "reading"  BY AtFacts, CancelledSays
  <2>3. was # NoOutcome => o # NoOutcome
    BY DEF Cancelled, Said, NoOutcome
  <2> HIDE DEF o
  <2> QED  BY <1>1, <2>1, <2>2, <2>3, BillMoves DEF Bill, Past
<1>3. CASE Finish(j) \/ End(j)
  <2>1. job'[j].at \in {"end", "ended"}  BY <1>3, GoesTo DEF Finish, End
  <2> QED  BY <1>1, <2>1, BillMoves DEF Past
<1> QED  BY <1>2, <1>3

\* The store refuses only for a discarded entry, and takes a reading only if charged.
LEMMA BillRecord == ASSUME IInv, NEW j \in Jobs, Bill(j), Record(j) PROVE Bill(j)'
<1>1. /\ UNCHANGED <<recovering, discarded, ledger>> /\ job[j].at = "record"
      /\ job'[j].at = "finish"
  <2>1. PICK durable \in BOOLEAN :
          job' = [job EXCEPT ![j].at = "finish", ![j].durable = durable]
    BY DEF Record
  <2>2. job'[j].at = "finish"  BY <2>1, AtFacts DEF JobState
  <2> QED  BY <2>2 DEF Record, At, process
<1>2. j \notin recovering  BY <1>1, AtFacts DEF Fits, Recovering
<1>3. seen \in [dropped: SUBSET Jobs, doubted: SUBSET Jobs, early: SUBSET Jobs,
                told: SUBSET Jobs]
  BY DEF IInv, TypeOK
<1>4. recorded'[j] \in {recorded[j], job[j].outcome}
      /\ (j \in seen'.dropped => j \in seen.dropped \/ SessionOf[j] \in discarded)
  BY <1>3, AtFacts DEF Record, Takes
<1> QED  BY <1>1, <1>2, <1>4 DEF Bill, Past

LEMMA BillCancel == ASSUME IInv, NEW j \in Jobs, Bill(j), PressCancel(j) PROVE Bill(j)'
<1>1. /\ UNCHANGED <<recovering, marker, recorded, discarded, ledger>>
      /\ job'[j].at = job[j].at /\ job'[j].outcome = job[j].outcome
  BY AtFacts DEF PressCancel, process, disk, JobState
<1>2. seen'.dropped = seen.dropped
  BY DEF PressCancel, IInv, TypeOK
<1> QED  BY <1>1, <1>2 DEF Bill

\* What one step of a recovery does to its job's outcome.
LEMMA RecoverTells ==
  ASSUME IInv, NEW j \in Jobs, Recover(j)
  PROVE  \/ recorded[j] # NoOutcome /\ UNCHANGED <<recorded, seen>>
         \/ /\ recorded[j] = NoOutcome /\ SessionOf[j] \in discarded /\ UNCHANGED recorded
            /\ seen' = [seen EXCEPT !.dropped = @ \cup {j}]
         \/ /\ recorded[j] = NoOutcome /\ SessionOf[j] \notin discarded
            /\ \E o \in Outcome :
                 /\ recorded' = [recorded EXCEPT ![j] = o]
                 /\ o # NoOutcome /\ o.why # "reading" /\ (j \in ledger => o.spent)
                 /\ seen' = [seen EXCEPT !.doubted = IF o.spent /\ j \notin ledger
                                                     THEN @ \cup {j} ELSE @]
<1>1. PICK doubt \in BOOLEAN :
        LET unsure == doubt /\ j \notin ledger
            o == Recovered(j, j \in ledger \/ unsure)
        IN IF recorded[j] # NoOutcome THEN UNCHANGED <<recorded, seen>>
           ELSE IF SessionOf[j] \in discarded
           THEN seen' = [seen EXCEPT !.dropped = @ \cup {j}] /\ UNCHANGED recorded
           ELSE /\ recorded' = [recorded EXCEPT ![j] = o]
                /\ seen' = [seen EXCEPT !.doubted = IF unsure THEN @ \cup {j} ELSE @]
  BY DEF Recover
<1> DEFINE unsure == doubt /\ j \notin ledger
           counted == j \in ledger \/ unsure
           o == Recovered(j, counted)
<1>2. counted \in BOOLEAN /\ o \in Outcome /\ (o.spent <=> counted)
  <2>1. marker[j] \in Markers /\ counted \in BOOLEAN  BY AtFacts
  <2> QED  BY <2>1, RecoveredSpends
<1>3. o # NoOutcome /\ o.why # "reading"
  BY DEF Recovered, NoOutcome, Said, Kept
<1>4. unsure <=> o.spent /\ j \notin ledger  BY <1>2
<1>5. CASE recorded[j] = NoOutcome /\ SessionOf[j] \notin discarded
  <2>1. /\ recorded' = [recorded EXCEPT ![j] = o]
        /\ seen' = [seen EXCEPT !.doubted = IF unsure THEN @ \cup {j} ELSE @]
    BY <1>1, <1>5
  <2> HIDE DEF o, unsure
  <2> QED  BY <1>2, <1>3, <1>4, <1>5, <2>1 DEF counted
<1> QED  BY <1>1, <1>5

LEMMA BillRecover == ASSUME IInv, NEW j \in Jobs, Bill(j), Recover(j) PROVE Bill(j)'
<1>1. UNCHANGED <<job, ledger, discarded>> /\ recovering' = recovering \ {j}
      /\ job[j].at = "lost"
  BY AtFacts DEF Recover, Fits, Recovering
<1>2. seen \in [dropped: SUBSET Jobs, doubted: SUBSET Jobs, early: SUBSET Jobs,
                told: SUBSET Jobs]
  BY DEF IInv, TypeOK
<1>3. recorded'[j] = recorded[j] \/ recorded'[j].why # "reading"
  BY RecoverTells, AtFacts
<1>4. j \in seen'.dropped => j \in seen.dropped \/ SessionOf[j] \in discarded
  BY <1>2, RecoverTells
<1> QED  BY <1>1, <1>3, <1>4 DEF Bill, Past

LEMMA BillOther ==
  ASSUME IInv, NEW j \in Jobs, Bill(j), NEW k \in Jobs, k # j,
         Press(k) \/ Thread(k) \/ PressCancel(k) \/ Recover(k)
  PROVE  Bill(j)'
<1> USE AtFacts DEF Goes, Yields
<1>0. seen \in [dropped: SUBSET Jobs, doubted: SUBSET Jobs, early: SUBSET Jobs,
                told: SUBSET Jobs]
  BY DEF IInv, TypeOK
<1>1. CASE Press(k) \/ Thread(k)
  <2>1. UNCHANGED <<recovering, discarded>> /\ ledger \subseteq ledger' /\ job'[j] = job[j]
    BY <1>1 DEF Press, Thread, Compose, Look, Commit, Reserve, Spawn, HandOver, Reap, Stopped,
                Seal, Record, Finish, End, process, disk
  <2>2. marker'[j] = marker[j]
    BY <1>1 DEF Press, Thread, Compose, Look, Commit, Reserve, Spawn, HandOver, Reap, Stopped,
                Seal, Record, Finish, End, MarkerMay, disk
  <2>3. recorded'[j] = recorded[j] /\ (j \in seen'.dropped => j \in seen.dropped)
    <3>1. CASE Record(k)  BY <1>0, <3>1 DEF Record, Takes
    <3>2. CASE ~Record(k)
      BY <1>1, <3>2 DEF Press, Thread, Compose, Look, Commit, Reserve, Spawn, HandOver, Reap,
                        Stopped, Seal, Finish, End, disk
    <3> QED  BY <3>1, <3>2
  <2> QED  BY <2>1, <2>2, <2>3, BillKept
<1>2. CASE PressCancel(k)
  <2>1. job'[j] = job[j] /\ UNCHANGED <<recovering, marker, recorded, ledger, discarded>>
    BY <1>2 DEF PressCancel, process, disk
  <2>2. seen'.dropped = seen.dropped  BY <1>0, <1>2 DEF PressCancel
  <2> QED  BY <2>1, <2>2, BillKept
<1>3. CASE Recover(k)
  <2>1. UNCHANGED <<job, ledger, discarded>> /\ recovering' \subseteq recovering
        /\ marker'[j] = marker[j]
    BY <1>3 DEF Recover, MarkerMay
  <2>2. recorded'[j] = recorded[j] /\ (j \in seen'.dropped => j \in seen.dropped)
    BY <1>0, <1>3, RecoverTells
  <2> QED  BY <2>1, <2>2, BillKept
<1> QED  BY <1>1, <1>2, <1>3

LEMMA NextBill == IInv /\ (\A j \in Jobs : Bill(j)) /\ [Next]_vars => \A j \in Jobs : Bill(j)'
<1> SUFFICES ASSUME IInv, [Next]_vars, NEW j \in Jobs, Bill(j) PROVE Bill(j)'  OBVIOUS
<1>1. ASSUME NEW k \in Jobs, Press(k) \/ Thread(k) \/ PressCancel(k) \/ Recover(k)
      PROVE  Bill(j)'
  <2>1. CASE k = j
    BY <1>1, <2>1, BillOpens, BillRuns, BillCloses, BillRecord, BillCancel, BillRecover
    DEF Thread
  <2>2. CASE k # j  BY <1>1, <2>2, BillOther
  <2> QED  BY <2>1, <2>2
<1>2. ASSUME NEW k \in Jobs, CliExits(k) \/ CallLimit(k) \/ KillNext(k) \/ CancelKills(k)
      PROVE  Bill(j)'
  BY <1>2, BillKept DEF CliExits, CallLimit, KillNext, CancelKills, process, disk
<1>3. ASSUME NEW k \in Jobs, RecoverFails(k) PROVE Bill(j)'
  <2>1. UNCHANGED <<job, marker, recorded, ledger, discarded, seen>>
        /\ recovering' \subseteq recovering
    BY <1>3 DEF RecoverFails, disk
  <2> QED  BY <2>1, BillKept
<1>4. ASSUME NEW k \in Jobs, CancelMarks(k) PROVE Bill(j)'
  <2>1. marker[j] # "none" => marker'[j] # "none"
    BY <1>4, AtFacts DEF CancelMarks, MarkerMay
  <2> QED  BY <1>4, <2>1 DEF Bill, CancelMarks, process
<1>5. ASSUME NEW s \in Sessions, Discard(s) PROVE Bill(j)'
  BY <1>5, BillKept DEF Discard, process
<1>6. CASE Close  BY <1>6, BillKept DEF Close, disk
<1>7. CASE Exit \/ Crash
  <2>1. UNCHANGED <<marker, recorded, ledger, discarded, seen>> /\ recovering' = {}
        /\ job'[j] = IF job[j].at = "off" THEN job[j] ELSE NewJob("lost")
    BY <1>7 DEF Exit, Crash, Die, disk
  <2>2. job'[j] = job[j] \/ job'[j].at = "lost"  BY <2>1 DEF NewJob
  <2> QED  BY <2>1, <2>2 DEF Bill, Past
<1>8. CASE Restart
  BY <1>8 DEF Bill, Restart, disk
<1>9. CASE UNCHANGED vars  BY <1>9, BillKept DEF vars, process, disk
<1> QED  BY <1>1, <1>2, <1>3, <1>4, <1>5, <1>6, <1>7, <1>8, <1>9 DEF Next, Canceller

LEMMA InitBill == Init => \A j \in Jobs : Bill(j)
BY DEF Init, Bill, NewJob, NoOutcome, Said
-----------------------------------------------------------------------------
\* Each step of the code as a step of the account.
Rest == <<ledger, recorded, seen.told, seen.dropped, seen.doubted>>

\* A phase is read off a job's place and whether it has a marker.
LEMMA PhaseKept ==
  ASSUME NEW k \in Jobs, job'[k].at = job[k].at, marker'[k] = "none" <=> marker[k] = "none"
  PROVE  Phase(k)' = Phase(k)
BY DEF Phase

LEMMA Silent ==
  ASSUME \A k \in Jobs : Phase(k)' = Phase(k), UNCHANGED Rest
  PROVE  UNCHANGED Account!vars
BY DEF Account!vars, Rest

LEMMA OneMoves ==
  ASSUME NEW j \in Jobs, NEW from, NEW to, Phase(j) = from, Phase(j)' = to,
         \A k \in Jobs \ {j} : Phase(k)' = Phase(k)
  PROVE  Account!Moves(j, from, to)
BY DEF Account!Moves

\* A step of the thread of j leaves the others where they are.
LEMMA OthersStay ==
  ASSUME IInv, NEW j \in Jobs, NEW k \in Jobs \ {j},
         Press(j) \/ Thread(j) \/ PressCancel(j) \/ CancelMarks(j) \/ Recover(j)
  PROVE  Phase(k)' = Phase(k)
<1> USE AtFacts DEF Goes, Yields
<1>1. job'[k] = job[k]
  BY DEF Press, Thread, Compose, Look, Commit, Reserve, Spawn, HandOver, Reap, Stopped, Seal,
         Record, Finish, End, PressCancel, CancelMarks, Recover
<1>2. marker'[k] = marker[k]
  BY DEF Press, Thread, Compose, Look, Commit, Reserve, Spawn, HandOver, Reap, Stopped, Seal,
         Record, Finish, End, PressCancel, CancelMarks, Recover, MarkerMay, disk
<1> QED  BY <1>1, <1>2, PhaseKept

\* Nobody has been told of a job with its outcome to come.
LEMMA StillUntold ==
  ASSUME IInv, NEW j \in Jobs, Bill(j), job[j].at \in Unstored
  PROVE  Account!Untold(j)
BY AtFacts DEF Fits, Untouched, Bill, Account!Untold, Unstored, Past

LEMMA PressBills == ASSUME IInv, NEW j \in Jobs, Press(j) PROVE Account!Next
<1>1. UNCHANGED Rest /\ job[j].at = "off" /\ marker' = marker
  BY DEF Press, At, disk, Rest
<1>2. marker[j] = "none"  BY <1>1, AtFacts DEF Fits, Untouched
<1>3. job'[j].at \in {"compose", "ended"}  BY GoesTo DEF Press
<1>4. Phase(j) = "idle" /\ Phase(j)' \in {"running", "over"}
  BY <1>1, <1>2, <1>3 DEF Phase, Threadless
<1>5. Account!Moves(j, "idle", "running") \/ Account!Moves(j, "idle", "over")
  BY <1>4, OneMoves, OthersStay
<1>6. Account!Start(j)  BY <1>1, <1>5 DEF Account!Start, Rest
<1> QED  BY <1>6 DEF Account!Next

\* The commit point finds no Cancel, and the marker there before the charge may be.
LEMMA CommitBills ==
  ASSUME IInv, NEW j \in Jobs, Word(j), Bill(j), Commit(j)
  PROVE  Account!Next \/ UNCHANGED Account!vars
<1>1. UNCHANGED Rest /\ job[j].at = "mark"  BY DEF Commit, At, Rest
<1>2. CASE job[j].cancelled = "no" /\ Goes(j, "reserve")
  <2>1. Phase(j) = "running" /\ Phase(j)' = "committed"
    BY <1>1, <1>2, GoesTo DEF Phase, Threadless
  <2>2. Account!Moves(j, "running", "committed")
    BY <2>1, OneMoves, OthersStay DEF Thread
  <2>3. j \notin ledger \cup seen.told
    BY <1>1, <1>2, AtFacts DEF Fits, Charged, Gone, Word, Open
  <2>4. Account!Untold(j)  BY <1>1, StillUntold DEF Unstored
  <2>5. Account!Commit(j)  BY <1>1, <2>2, <2>3, <2>4 DEF Account!Commit, Rest
  <2> QED  BY <2>5 DEF Account!Next
<1>3. ASSUME NEW o, Yields(j, o) PROVE UNCHANGED Account!vars
  <2>1. Phase(j)' = Phase(j)  BY <1>1, <1>3, YieldsTo DEF Phase, Threadless
  <2> QED  BY <1>1, <2>1, Silent, OthersStay DEF Thread
<1> QED  BY <1>2, <1>3 DEF Commit

LEMMA ReserveBills == ASSUME IInv, NEW j \in Jobs, Reserve(j) PROVE Account!Next
<1>1. /\ UNCHANGED <<recorded, seen>> /\ job[j].at = "reserve"
      /\ ledger' \in {ledger, ledger \cup {j}}
  BY DEF Reserve, At
<1>2. job'[j].at \in {"outcome", "spawn"}
  <2>1. ASSUME job' = [job EXCEPT ![j].at = "spawn", ![j].spent = TRUE]
        PROVE  job'[j].at = "spawn"
    BY <2>1, AtFacts DEF JobState
  <2> QED  BY <2>1, YieldsTo DEF Reserve
<1>3. Phase(j) = "committed" /\ Phase(j)' = "running"
  BY <1>1, <1>2 DEF Phase, Threadless
<1>4. Account!Moves(j, "committed", "running")
  BY <1>3, OneMoves, OthersStay DEF Thread
<1>5. Account!Charge(j)  BY <1>1, <1>4 DEF Account!Charge
<1> QED  BY <1>5 DEF Account!Next

\* A thread that runs on, towards its outcome or past it, shows a reader nothing.
LEMMA RunsOn ==
  ASSUME IInv, NEW j \in Jobs, Compose(j) \/ Look(j) \/ Spawn(j) \/ HandOver(j) \/ Reap(j)
           \/ Stopped(j) \/ Seal(j) \/ Finish(j)
  PROVE  UNCHANGED Account!vars
<1>1. /\ UNCHANGED Rest /\ job[j].at \notin Threadless \cup {"reserve"}
  BY DEF Compose, Look, Spawn, HandOver, Reap, Stopped, Seal, Finish, At, Rest, disk, Threadless
<1>2. job'[j].at \notin Threadless \cup {"reserve"}
  <2>1. CASE Compose(j) \/ Look(j) \/ Spawn(j) \/ Reap(j) \/ Finish(j)
    <3>1. \/ \E at \in {"look", "mark", "handover", "end"} : Goes(j, at)
          \/ \E o : Yields(j, o)
      <4>1. CASE Compose(j) \/ Look(j)  BY <4>1 DEF Compose, Look
      <4>2. CASE Spawn(j) \/ Reap(j)  BY <4>2 DEF Spawn, Reap
      <4>3. CASE Finish(j)  BY <4>3 DEF Finish
      <4> QED  BY <2>1, <4>1, <4>2, <4>3
    <3> QED  BY <3>1, GoesTo, YieldsTo DEF Threadless
  <2>2. CASE HandOver(j)
    <3>1. job'[j].at = "wait"  BY <2>2, AtFacts DEF HandOver, JobState
    <3> QED  BY <3>1 DEF Threadless
  <2>3. CASE Stopped(j)
    <3>1. job'[j].at = "seal"  BY <2>3, AtFacts DEF Stopped, JobState
    <3> QED  BY <3>1 DEF Threadless
  <2>4. CASE Seal(j)
    <3>1. job'[j].at = IF job[j].outcome = NoOutcome THEN "finish" ELSE "record"
      BY <2>4, AtFacts DEF Seal, JobState
    <3> QED  BY <3>1 DEF Threadless
  <2> QED  BY <2>1, <2>2, <2>3, <2>4
<1>3. Phase(j)' = Phase(j)  BY <1>1, <1>2 DEF Phase
<1> QED  BY <1>1, <1>3, Silent, OthersStay DEF Thread

\* What the store takes of a thread is the one outcome, and says of the charge and of the
\* Cancel what is so.
LEMMA RecordBills ==
  ASSUME IInv, NEW j \in Jobs, Word(j), Bill(j), Record(j)
  PROVE  Account!Next \/ UNCHANGED Account!vars
<1> DEFINE o == job[j].outcome
<1>1. UNCHANGED <<ledger, marker>> /\ job[j].at = "record" /\ o \in Outcome
  BY AtFacts DEF Record, At
<1>2. job'[j].at = "finish"
  <2>1. PICK durable \in BOOLEAN :
          job' = [job EXCEPT ![j].at = "finish", ![j].durable = durable]
    BY DEF Record
  <2> QED  BY <2>1, AtFacts DEF JobState
<1>3. Phase(j) = "running" /\ \A k \in Jobs : Phase(k)' = Phase(k)
  <2>1. Phase(j) = "running" /\ Phase(j)' = "running"  BY <1>1, <1>2 DEF Phase, Threadless
  <2> QED  BY <2>1, OthersStay DEF Thread
<1>4. seen \in [dropped: SUBSET Jobs, doubted: SUBSET Jobs, early: SUBSET Jobs,
                told: SUBSET Jobs]
  BY DEF IInv, TypeOK
<1>5. Account!Untold(j) /\ recorded[j] = NoOutcome
  BY <1>1, StillUntold DEF Unstored, Account!Untold
<1>6. CASE UNCHANGED <<recorded, seen>>  BY <1>1, <1>3, <1>6, Silent DEF Rest
<1>7. CASE seen' = [seen EXCEPT !.dropped = @ \cup {j}] /\ UNCHANGED recorded
  <2>1. Account!Refuse(j)
    BY <1>1, <1>3, <1>4, <1>5, <1>7 DEF Account!Refuse
  <2> QED  BY <2>1 DEF Account!Next
<1>8. CASE recorded' = [recorded EXCEPT ![j] = o] /\ UNCHANGED seen
  <2>1. (o.spent <=> j \in ledger) /\ o # NoOutcome
    BY <1>1, AtFacts DEF Fits, Charged, Gone, Bill
  <2>2. o.why = "reading" => j \in ledger \ seen.told
    BY <1>1 DEF Bill, Word, Open, Worded, Gone
  <2>3. Account!Answer(j, o)
    BY <1>1, <1>3, <1>5, <1>8, <2>1, <2>2 DEF Account!Answer, Account!Tell
  <2> QED  BY <1>1, <2>3 DEF Account!Next
<1> QED  BY <1>5, <1>6, <1>7, <1>8 DEF Record, Takes

\* A job that leaves has no charge to be told of, or a marker that will tell it.
LEMMA LeavesSettled ==
  ASSUME IInv, IInv', NEW k \in Jobs, UNCHANGED Rest,
         Phase(k) \in {"running", "committed", "owed"}, job'[k].at \in Gone
  PROVE  \/ Phase(k)' = "owed"
         \/ Phase(k)' = "over" /\ Account!Settled(k)
<1>1. Phase(k)' = IF marker'[k] # "none" THEN "owed" ELSE "over"
  BY DEF Phase, Gone, Threadless
<1>2. CASE marker'[k] = "none"
  <2>1. Kept1(k)'  BY DEF IInv, JobInv
  <2>2. Account!Settled(k)  BY <1>2, <2>1 DEF Kept1, Account!Settled, Rest
  <2> QED  BY <1>1, <1>2, <2>2
<1> QED  BY <1>1, <1>2

LEMMA EndBills == ASSUME IInv, IInv', NEW j \in Jobs, End(j) PROVE Account!Next
<1>1. UNCHANGED Rest /\ job[j].at = "end"  BY DEF End, At, disk, Rest
<1>2. job'[j].at = "ended"  BY GoesTo DEF End
<1>3. Phase(j) = "running"  BY <1>1 DEF Phase, Threadless
<1>4. \/ Phase(j)' = "owed"
      \/ Phase(j)' = "over" /\ Account!Settled(j)
  BY <1>1, <1>2, <1>3, LeavesSettled DEF Gone
<1>5. Account!Leave
  BY <1>1, <1>3, <1>4, OthersStay DEF Account!Leave, Thread, Rest
<1> QED  BY <1>5 DEF Account!Next

\* A Cancel that is accepted is of a job whose outcome nobody was told.
LEMMA CancelBills ==
  ASSUME IInv, NEW j \in Jobs, Word(j), Bill(j), PressCancel(j) PROVE Account!Next
<1>1. UNCHANGED <<marker, recorded, ledger>> /\ ~job[j].sealed /\ slot[SessionOf[j]] = j
  BY DEF PressCancel, disk
<1>2. job[j].at \in Unstored \ {"off", "record"}
  BY <1>1, AtFacts DEF Word, Open, Threadless, Stages, Unstored
<1>3. Account!Untold(j)  BY <1>2, StillUntold
<1>4. job'[j].at = job[j].at  BY AtFacts DEF PressCancel, JobState
<1>5. Phase(j) \in {"running", "committed"} /\ \A k \in Jobs : Phase(k)' = Phase(k)
  <2>1. Phase(j) \in {"running", "committed"} /\ Phase(j)' = Phase(j)
    BY <1>1, <1>2, <1>4 DEF Phase, Threadless, Unstored
  <2> QED  BY <2>1, OthersStay
<1>6. /\ seen'.told = seen.told \cup {j} /\ seen'.dropped = seen.dropped
      /\ seen'.doubted = seen.doubted
  BY DEF PressCancel, IInv, TypeOK
<1>7. Account!Cancel(j)  BY <1>1, <1>3, <1>5, <1>6 DEF Account!Cancel
<1> QED  BY <1>7 DEF Account!Next

\* Every thread goes at once.
LEMMA DieBills == ASSUME IInv, IInv', Die PROVE Account!Next
<1>1. UNCHANGED Rest /\ marker' = marker  BY DEF Die, disk, Rest
<1>2. ASSUME NEW k \in Jobs
      PROVE  \/ Phase(k)' = Phase(k)
             \/ Phase(k) \in {"running", "committed"} /\ Phase(k)' = "owed"
             \/ /\ Phase(k) \in {"running", "committed", "owed"}
                /\ Phase(k)' = "over" /\ Account!Settled(k)
  <2>1. CASE job[k].at \in Threadless
    <3>1. job'[k].at = IF job[k].at = "off" THEN "off" ELSE "lost"
      BY DEF Die, NewJob
    <3> QED  BY <1>1, <2>1, <3>1 DEF Phase, Threadless
  <2>2. CASE job[k].at \notin Threadless
    <3>1. job'[k].at = "lost"  BY <2>2 DEF Die, NewJob, Threadless
    <3>2. Phase(k) \in {"running", "committed"}  BY <2>2 DEF Phase
    <3> QED  BY <1>1, <3>1, <3>2, LeavesSettled DEF Gone
  <2> QED  BY <2>1, <2>2
<1>3. Account!Leave  BY <1>1, <1>2 DEF Account!Leave, Rest
<1> QED  BY <1>3 DEF Account!Next

\* A marker's recovery, wherever it stops: it tells, is refused, or finds it told.
LEMMA RecoverBills ==
  ASSUME IInv, IInv', NEW j \in Jobs, Bill(j), Recover(j)
  PROVE  Account!Next \/ UNCHANGED Account!vars
<1>1. UNCHANGED <<job, ledger>> /\ job[j].at = "lost" /\ marker[j] # "none"
  BY AtFacts DEF Recover, Fits, Recovering, Bill
<1>2. Phase(j) = "owed" /\ Phase(j)' \in {"owed", "over"}
  BY <1>1 DEF Phase, Threadless
<1>3. Account!Moves(j, "owed", "owed") \/ Account!Moves(j, "owed", "over")
  BY <1>2, OneMoves, OthersStay
<1>4. seen \in [dropped: SUBSET Jobs, doubted: SUBSET Jobs, early: SUBSET Jobs,
                told: SUBSET Jobs]
  BY DEF IInv, TypeOK
<1>5. CASE UNCHANGED <<recorded, seen>>
  <2>1. UNCHANGED Rest  BY <1>1, <1>5 DEF Rest
  <2>2. \/ Phase(j)' = "owed"
        \/ Phase(j)' = "over" /\ Account!Settled(j)
    BY <1>1, <1>2, <2>1, LeavesSettled DEF Gone
  <2>3. Account!Leave
    BY <1>2, <2>1, <2>2, OthersStay DEF Account!Leave, Rest
  <2> QED  BY <2>3 DEF Account!Next
<1>6. CASE /\ recorded[j] = NoOutcome /\ UNCHANGED recorded
           /\ seen' = [seen EXCEPT !.dropped = @ \cup {j}]
  <2>1. /\ seen'.dropped = seen.dropped \cup {j} /\ seen'.told = seen.told
        /\ seen'.doubted = seen.doubted
    BY <1>4, <1>6
  <2>2. Account!Refuse(j)  BY <1>1, <1>3, <1>6, <2>1 DEF Account!Refuse
  <2> QED  BY <2>2 DEF Account!Next
<1>7. ASSUME recorded[j] = NoOutcome, SessionOf[j] \notin discarded, NEW o \in Outcome,
             recorded' = [recorded EXCEPT ![j] = o], o # NoOutcome, o.why # "reading",
             j \in ledger => o.spent,
             seen' = [seen EXCEPT !.doubted = IF o.spent /\ j \notin ledger
                                              THEN @ \cup {j} ELSE @]
      PROVE  Account!Next
  <2>1. /\ seen'.dropped = seen.dropped /\ seen'.told = seen.told
        /\ seen'.doubted = IF o.spent /\ j \notin ledger THEN seen.doubted \cup {j}
                           ELSE seen.doubted
    BY <1>4, <1>7
  <2>2. Account!Untold(j)  BY <1>7 DEF Bill, Account!Untold
  <2>3. Account!Recover(j, o)
    BY <1>1, <1>3, <1>7, <2>1, <2>2 DEF Account!Recover, Account!Tell
  <2> QED  BY <2>3 DEF Account!Next
<1> QED  BY <1>5, <1>6, <1>7, RecoverTells

AccInv == IInv /\ \A j \in Jobs : Word(j) /\ Bill(j)

LEMMA InitAccInv == Init => AccInv /\ Account!Init
<1>1. ASSUME Init PROVE Account!Init
  <2>1. \A j \in Jobs : Phase(j) = "idle"
    BY <1>1 DEF Init, NewJob, Phase, Threadless
  <2> QED  BY <1>1, <2>1 DEF Init, Account!Init
<1> QED  BY <1>1, InitIInv, InitWord, InitBill DEF AccInv

LEMMA NextAccInv == AccInv /\ [Next]_vars => AccInv'
BY NextIInv, NextWord, NextBill DEF AccInv

LEMMA NextRefinesAccount ==
  AccInv /\ AccInv' /\ [Next]_vars => [Account!Next]_(Account!vars)
<1> SUFFICES ASSUME AccInv, AccInv', [Next]_vars
             PROVE  Account!Next \/ UNCHANGED Account!vars
  OBVIOUS
<1>1. IInv /\ IInv' /\ \A j \in Jobs : Word(j) /\ Bill(j)  BY DEF AccInv
<1>2. ASSUME NEW j \in Jobs, Press(j) \/ Thread(j) \/ PressCancel(j) \/ Recover(j)
      PROVE  Account!Next \/ UNCHANGED Account!vars
  BY <1>1, <1>2, PressBills, CommitBills, ReserveBills, RunsOn, RecordBills, EndBills,
     CancelBills, RecoverBills DEF Thread
<1>3. ASSUME UNCHANGED <<job, marker>>, UNCHANGED Rest PROVE UNCHANGED Account!vars
  BY <1>3, PhaseKept, Silent
<1>4. ASSUME NEW j \in Jobs,
             CliExits(j) \/ CallLimit(j) \/ KillNext(j) \/ RecoverFails(j) \/ CancelKills(j)
      PROVE  UNCHANGED Account!vars
  BY <1>3, <1>4 DEF CliExits, CallLimit, KillNext, RecoverFails, CancelKills, disk, Rest
<1>5. ASSUME NEW j \in Jobs, CancelMarks(j) PROVE UNCHANGED Account!vars
  <2>1. UNCHANGED job /\ UNCHANGED Rest  BY <1>5 DEF CancelMarks, Rest
  <2>2. marker'[j] = "none" <=> marker[j] = "none"
    BY <1>1, <1>5, AtFacts DEF CancelMarks, MarkerMay
  <2>3. Phase(j)' = Phase(j)  BY <2>1, <2>2, PhaseKept
  <2> QED  BY <1>1, <1>5, <2>1, <2>3, OthersStay, Silent
<1>6. ASSUME \/ \E s \in Sessions : Discard(s)
             \/ Close \/ Restart \/ UNCHANGED vars
      PROVE  UNCHANGED Account!vars
  BY <1>3, <1>6 DEF Discard, Close, Restart, vars, disk, Rest
<1>7. CASE Exit \/ Crash  BY <1>1, <1>7, DieBills DEF Exit, Crash
<1> QED  BY <1>2, <1>4, <1>5, <1>6, <1>7 DEF Next, Canceller

\* From the press to the last word, through any stop, death and recovery, a reading is what
\* ReadingAccount promises: past the commit point only without a Cancel, charged once, told
\* one outcome for good, and let go of only when its charge is told (reading_jobs._run,
\* before_reserve, _cancelled, _recover, mark_unstored).
THEOREM OneAccount == Spec => Account!Spec
BY InitAccInv, NextAccInv, NextRefinesAccount, PTL DEF Spec, Account!Spec

\* So the bill is honest at every moment: what the store tells is the charge, a reading
\* was paid for and not cancelled, and a job that is over has its charge told or refused.
THEOREM BillHonest == Spec => []Account!Honest
<1>1. AccInv => Account!Honest
  <2> SUFFICES ASSUME AccInv, NEW j \in Jobs
               PROVE  /\ recorded[j] # NoOutcome /\ j \notin seen.doubted
                           => (recorded[j].spent <=> j \in ledger)
                      /\ recorded[j].why = "reading" => j \in ledger \ seen.told
                      /\ Phase(j) \in {"idle", "over"} => Account!Settled(j)
    BY DEF Account!Honest
  <2>1. IInv /\ Word(j) /\ Bill(j)  BY DEF AccInv
  <2>2. recorded[j] # NoOutcome /\ j \notin seen.doubted
          => (recorded[j].spent <=> j \in ledger)
    BY <2>1, AtFacts DEF Count1
  <2>3. recorded[j].why = "reading" => j \in ledger \ seen.told
    BY <2>1 DEF Bill, Word, Told
  <2>4. Phase(j) \in {"idle", "over"} => marker[j] = "none"
    BY DEF Phase
  <2>5. Phase(j) \in {"idle", "over"} => Account!Settled(j)
    BY <2>1, <2>4, AtFacts DEF Kept1, Account!Settled
  <2> QED  BY <2>2, <2>3, <2>5
<1> QED  BY InitAccInv, NextAccInv, <1>1, PTL DEF Spec
=============================================================================
