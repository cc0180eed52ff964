---------------------------- MODULE ReadingJobs ----------------------------
(***************************************************************************)
(* One reader-pressed reading, from the press to its stored outcome: the   *)
(* job and its slot (reading.py), the job thread and its restart marker    *)
(* (reading_jobs.py), the charge (reading_policy.py), the supervised CLI   *)
(* (supervise.py), the reader's Cancel, the dashboard's stop, a death at   *)
(* any step, and the recovery the next start runs over the markers left.   *)
(* The disk is marker, ledger, recorded and discarded; the rest dies with  *)
(* the process. Operators named Slip... are wrong variants of the action   *)
(* they precede, for testing the properties; Next uses none of them.       *)
(***************************************************************************)
EXTENDS Naturals, FiniteSets

CONSTANTS Jobs,        \* job ids, each used for one press
          Sessions,
          SessionOf,   \* [Jobs -> Sessions]
          Faults,      \* "marker": a marker write or removal fails; "store": the
                       \* annotation store does; "doubt": the ledger cannot say
          MaxDeaths    \* bound: crashes and exits, in all

ASSUME ReadingJobsAssumption ==
  /\ SessionOf \in [Jobs -> Sessions] /\ "free" \notin Jobs
  /\ Faults \subseteq {"marker", "store", "doubt"}
  /\ MaxDeaths \in Nat

VARIABLES
  up,           \* the process runs
  closed,       \* supervise._SHUTDOWN
  killList,     \* the groups kill_all took under its lock and has yet to kill
  recovering,   \* markers the start-up pass has yet to look at
  job,          \* reading.Job, its thread's place and Hooks
  slot,         \* reading._IN_FLIGHT and _JOBS: the job a session runs
  group,        \* the job's CLI
  canceller,    \* the request thread of the reader's Cancel
  marker,       \* the restart marker on disk, by the reason it carries
  ledger,       \* the spend_jobs table
  recorded,     \* the outcome the store took for the job
  discarded,    \* sessions whose entry the reader discarded
  seen,         \* history: see the properties
  deaths

process == <<up, closed, killList, recovering>>
disk == <<marker, ledger, recorded, discarded>>
vars == <<process, job, slot, group, canceller, disk, seen, deaths>>

Reasons == {"none", "reading", "withheld", "unrecorded", "unsent", "stopping",
            "failed", "oversized", "unstopped", "cancelled", "interrupted", "unstored"}
Outcome == [why: Reasons, spent: BOOLEAN]
Said(why, spent) == [why |-> why, spent |-> spent]
NoOutcome == Said("none", FALSE)
Kept == {"interrupted", "unstopped", "cancelled", "oversized"}
\* "bare" carries no reason: the attempt was still running when it was written.
Markers == {"none", "bare", "unstored"} \cup Kept
Stages == {"off", "compose", "look", "mark", "reserve", "spawn", "handover", "wait",
           "outcome", "seal", "record", "finish", "end", "ended", "lost"}
Threadless == {"off", "ended", "lost"}
JobState == [at: Stages, cancelled: {"no", "yes", "after close"}, sealed: BOOLEAN,
             handed: BOOLEAN, spent: BOOLEAN, outcome: Outcome, durable: BOOLEAN]
NewJob(at) == [at |-> at, cancelled |-> "no", sealed |-> FALSE, handed |-> FALSE,
               spent |-> FALSE, outcome |-> NoOutcome, durable |-> TRUE]
Free == "free"

\* Every variable has its type: in particular no outcome and no marker carries a
\* word the code has none for (_KEPT_REASONS, _STATUS_FAILURES).
TypeOK ==
  /\ up \in BOOLEAN /\ closed \in BOOLEAN
  /\ killList \subseteq Jobs /\ recovering \subseteq Jobs
  /\ job \in [Jobs -> JobState]
  /\ slot \in [Sessions -> Jobs \cup {Free}]
  /\ group \in [Jobs -> {"none", "running", "exited", "killed", "reaped", "unstopped"}]
  /\ canceller \in [Jobs -> {"idle", "mark", "mark, kill", "kill", "done"}]
  /\ marker \in [Jobs -> Markers]
  /\ ledger \subseteq Jobs
  /\ recorded \in [Jobs -> Outcome]
  /\ discarded \subseteq Sessions
  /\ seen \in [dropped: SUBSET Jobs, doubted: SUBSET Jobs, early: SUBSET Jobs, told: SUBSET Jobs]
  /\ deaths \in Nat

Init ==
  /\ up = TRUE /\ closed = FALSE /\ killList = {} /\ recovering = {}
  /\ job = [j \in Jobs |-> NewJob("off")]
  /\ slot = [s \in Sessions |-> Free]
  /\ group = [j \in Jobs |-> "none"]
  /\ canceller = [j \in Jobs |-> "idle"]
  /\ marker = [j \in Jobs |-> "none"]
  /\ ledger = {}
  /\ recorded = [j \in Jobs |-> NoOutcome]
  /\ discarded = {}
  /\ seen = [dropped |-> {}, doubted |-> {}, early |-> {}, told |-> {}]
  /\ deaths = 0

-----------------------------------------------------------------------------
At(j, stage) == up /\ job[j].at = stage
Goes(j, stage) == job' = [job EXCEPT ![j].at = stage]
Yields(j, o) == job' = [job EXCEPT ![j].at = "outcome", ![j].outcome = o]

\* Requests are served once the start-up recovery is over.
Serving == up /\ recovering = {}

\* Slip: a press that does not ask whether the slot is taken.
SlipPress(j) ==
  /\ Serving /\ At(j, "off")
  /\ SessionOf[j] \notin discarded
  /\ Goes(j, "compose") /\ slot' = [slot EXCEPT ![SessionOf[j]] = j]
  /\ UNCHANGED <<process, group, canceller, disk, seen, deaths>>

\* A press takes the session's one slot. A thread that cannot start gives it back
\* before the press is answered (launch).
Press(j) ==
  /\ Serving /\ At(j, "off")
  /\ SessionOf[j] \notin discarded /\ slot[SessionOf[j]] = Free
  /\ \/ Goes(j, "compose") /\ slot' = [slot EXCEPT ![SessionOf[j]] = j]
     \/ Goes(j, "ended") /\ UNCHANGED slot
  /\ UNCHANGED <<process, group, canceller, disk, seen, deaths>>

\* produce up to the model seam, and the seam's early look at the runner.
Compose(j) ==
  /\ At(j, "compose")
  /\ \/ \E why \in {"withheld", "failed"} : Yields(j, Said(why, FALSE))
     \/ closed /\ Yields(j, Said("stopping", FALSE))
     \/ ~closed /\ Goes(j, "look")
  /\ UNCHANGED <<process, slot, group, canceller, disk, seen, deaths>>

\* The seam's look at the Cancel, then at a destination that may have moved.
Look(j) ==
  /\ At(j, "look")
  /\ IF job[j].cancelled # "no"
     THEN Yields(j, Said("unsent", FALSE))
     ELSE Goes(j, "mark") \/ Yields(j, NoOutcome)
  /\ UNCHANGED <<process, slot, group, canceller, disk, seen, deaths>>

MarkerMay(j, to) ==
  \/ marker' = [marker EXCEPT ![j] = to]
  \/ "marker" \in Faults /\ UNCHANGED marker

\* before_reserve: the marker, then the commit point, in one hold of _MARKER_LOCK.
Commit(j) ==
  /\ At(j, "mark")
  /\ \/ "marker" \in Faults /\ Yields(j, Said("unrecorded", FALSE)) /\ UNCHANGED marker
     \/ /\ job[j].cancelled = "no"
        /\ Goes(j, "reserve") /\ marker' = [marker EXCEPT ![j] = "bare"]
     \/ /\ job[j].cancelled # "no"
        /\ Yields(j, Said("unsent", FALSE))
        /\ \/ UNCHANGED marker
           \/ "marker" \in Faults /\ marker' = [marker EXCEPT ![j] = "bare"]
  /\ UNCHANGED <<process, slot, group, canceller, ledger, recorded, discarded, seen, deaths>>

\* reserve: refused by the policy store, or the charge commits under the lock a
\* shutdown takes (_commit_charge), and Hooks.reserved hears of it.
Reserve(j) ==
  /\ At(j, "reserve")
  /\ \/ Yields(j, NoOutcome) /\ UNCHANGED ledger
     \/ closed /\ Yields(j, Said("stopping", FALSE)) /\ UNCHANGED ledger
     \/ /\ ~closed
        /\ ledger' = ledger \cup {j}
        /\ job' = [job EXCEPT ![j].at = "spawn", ![j].spent = TRUE]
  /\ UNCHANGED <<process, slot, group, canceller, marker, recorded, discarded, seen, deaths>>

\* Slip: the runner was open at the reservation, so the spawn does not ask.
SlipSpawn(j) ==
  /\ At(j, "spawn")
  /\ Goes(j, "handover") /\ group' = [group EXCEPT ![j] = "running"]
  /\ UNCHANGED <<process, slot, canceller, disk, seen, deaths>>

\* supervise.run: the runner's state and the spawn in one hold of its lock. A
\* refused spawn and a failed one both reach the job as a model failure.
Spawn(j) ==
  /\ At(j, "spawn")
  /\ \/ Yields(j, Said("failed", TRUE)) /\ UNCHANGED group
     \/ ~closed /\ Goes(j, "handover") /\ group' = [group EXCEPT ![j] = "running"]
  /\ UNCHANGED <<process, slot, canceller, disk, seen, deaths>>

\* A kill reaches a running CLI; one that already exited keeps its exit.
Killed(g) == IF g = "running" THEN "killed" ELSE g

\* Slip: the handover hands the group over and does not look at the Cancel.
SlipHandOver(j) ==
  /\ At(j, "handover")
  /\ job' = [job EXCEPT ![j].at = "wait", ![j].handed = TRUE]
  /\ UNCHANGED <<process, slot, group, canceller, disk, seen, deaths>>

\* Hooks.spawned: a Cancel that found no group to kill is carried out here.
HandOver(j) ==
  /\ At(j, "handover")
  /\ job' = [job EXCEPT ![j].at = "wait", ![j].handed = TRUE]
  /\ group' = [group EXCEPT ![j] = IF job[j].cancelled = "no" THEN @ ELSE Killed(@)]
  /\ UNCHANGED <<process, slot, canceller, disk, seen, deaths>>

\* The CLI ends by itself.
CliExits(j) ==
  /\ up /\ group[j] = "running"
  /\ group' = [group EXCEPT ![j] = "exited"]
  /\ UNCHANGED <<process, job, slot, canceller, disk, seen, deaths>>

\* The call's own limit, of time or of output: it kills its CLI.
CallLimit(j) ==
  /\ At(j, "wait") /\ group[j] = "running"
  /\ group' = [group EXCEPT ![j] = Killed(@)]
  /\ UNCHANGED <<process, job, slot, canceller, disk, seen, deaths>>

\* _finish, and what the call's answer becomes in produce: a reply is checked and
\* may still fail; a group that cannot be seen to end is said so.
Reap(j) ==
  /\ At(j, "wait") /\ group[j] # "running"
  /\ \/ \E why \in {"failed", "oversized"} :
          Yields(j, Said(why, TRUE)) /\ group' = [group EXCEPT ![j] = "reaped"]
     \/ /\ group[j] = "exited"
        /\ Yields(j, Said("reading", TRUE)) /\ group' = [group EXCEPT ![j] = "reaped"]
     \/ Yields(j, Said("unstopped", TRUE)) /\ group' = [group EXCEPT ![j] = "unstopped"]
  /\ UNCHANGED <<process, slot, canceller, disk, seen, deaths>>

\* Slip: the stop renames every spent outcome that is not a reading.
SlipStopped(j) ==
  /\ At(j, "outcome")
  /\ job' = [job EXCEPT ![j].at = "seal",
       ![j].outcome = IF closed /\ @.spent /\ @.why # "reading"
                      THEN Said("interrupted", TRUE) ELSE @]
  /\ UNCHANGED <<process, slot, group, canceller, disk, seen, deaths>>

\* The end of _outcome: a stop that killed the call is said as the stop.
Stopped(j) ==
  /\ At(j, "outcome")
  /\ job' = [job EXCEPT ![j].at = "seal",
       ![j].outcome =
         IF closed /\ @.spent /\ @.why \notin {"reading", "unstopped", "oversized"}
         THEN Said("interrupted", TRUE) ELSE @]
  /\ UNCHANGED <<process, slot, group, canceller, disk, seen, deaths>>

\* Slip: a stop that came after the Cancel still has the last word.
SlipCancelled(b) ==
  IF b.outcome.why \in {"unstopped", "interrupted", "stopping"} THEN b.outcome
  ELSE IF b.outcome.spent \/ b.spent THEN Said("cancelled", TRUE) ELSE Said("unsent", FALSE)

\* _cancelled: the outcome of a job a Cancel reached before its seal.
Cancelled(b) ==
  IF b.outcome.why = "unstopped"
     \/ (b.cancelled = "after close" /\ b.outcome.why \in {"interrupted", "stopping"})
  THEN b.outcome
  ELSE IF b.outcome.spent \/ b.spent THEN Said("cancelled", TRUE) ELSE Said("unsent", FALSE)

\* Slip: the seal says whether a Cancel came first and leaves the job open to one.
SlipSeal(j) ==
  /\ At(j, "seal")
  /\ LET b == job[j] IN
     job' = [job EXCEPT
       ![j].at = IF b.outcome = NoOutcome THEN "finish" ELSE "record",
       ![j].outcome = IF b.cancelled = "no" \/ @ = NoOutcome THEN @ ELSE Cancelled(b)]
  /\ UNCHANGED <<process, slot, group, canceller, disk, seen, deaths>>

\* seal_job refuses every later Cancel and says whether one came first. A job the
\* model seam refused has no outcome and records none.
Seal(j) ==
  /\ At(j, "seal")
  /\ LET b == job[j] IN
     job' = [job EXCEPT
       ![j].at = IF b.outcome = NoOutcome THEN "finish" ELSE "record",
       ![j].sealed = TRUE,
       ![j].outcome = IF b.cancelled = "no" \/ @ = NoOutcome THEN @ ELSE Cancelled(b)]
  /\ UNCHANGED <<process, slot, group, canceller, disk, seen, deaths>>

\* What the annotation store does with an outcome, recorded under the job's id:
\* stored, already held, or refused because the entry is gone. Each is durable.
Takes(j, o) ==
  IF recorded[j] # NoOutcome THEN UNCHANGED <<recorded, seen>>
  ELSE IF SessionOf[j] \in discarded
  THEN seen' = [seen EXCEPT !.dropped = @ \cup {j}] /\ UNCHANGED recorded
  ELSE recorded' = [recorded EXCEPT ![j] = o] /\ UNCHANGED seen

\* _record: taken, or an unwritable, untrusted or raising store.
Record(j) ==
  /\ At(j, "record")
  /\ \/ /\ Takes(j, job[j].outcome)
        /\ job' = [job EXCEPT ![j].at = "finish", ![j].durable = TRUE]
     \/ /\ "store" \in Faults
        /\ job' = [job EXCEPT ![j].at = "finish", ![j].durable = FALSE]
        /\ UNCHANGED <<recorded, seen>>
  /\ UNCHANGED <<process, slot, group, canceller, marker, ledger, discarded, deaths>>

\* Slip: the marker goes with the job, whatever the store answered.
SlipFinish(j) ==
  /\ At(j, "finish")
  /\ MarkerMay(j, "none")
  /\ Goes(j, "end")
  /\ UNCHANGED <<process, slot, group, canceller, ledger, recorded, discarded, seen, deaths>>

\* _run's `finally`: the marker goes, unless it is the only record of a charge;
\* then it is told why (mark_unstored).
Finish(j) ==
  /\ At(j, "finish")
  /\ LET b == job[j] IN
     IF b.durable \/ ~b.spent THEN MarkerMay(j, "none")
     ELSE MarkerMay(j, IF marker[j] = "none" THEN "none"
                       ELSE IF b.outcome.why \in Kept THEN b.outcome.why ELSE "unstored")
  /\ Goes(j, "end")
  /\ UNCHANGED <<process, slot, group, canceller, ledger, recorded, discarded, seen, deaths>>

\* end_job: the job leaves and the slot is free.
End(j) ==
  /\ At(j, "end")
  /\ Goes(j, "ended")
  /\ slot' = [slot EXCEPT ![SessionOf[j]] = Free]
  /\ UNCHANGED <<process, group, canceller, disk, seen, deaths>>

-----------------------------------------------------------------------------
\* cancel_job: one accepted Cancel a job, from a request thread of its own. The
\* flag and the group are read in one hold, so the kill is its own or HandOver's.
\* A request thread outlives serve_forever, so it may come after the close.
PressCancel(j) ==
  /\ Serving /\ slot[SessionOf[j]] = j /\ ~job[j].sealed /\ canceller[j] = "idle"
  /\ job' = [job EXCEPT ![j].cancelled = IF closed THEN "after close" ELSE "yes"]
  /\ canceller' = [canceller EXCEPT ![j] = IF job[j].handed THEN "mark, kill" ELSE "mark"]
  /\ seen' = [seen EXCEPT !.told = @ \cup {j},
                          !.early = IF job[j].at \in {"compose", "look", "mark"}
                                    THEN @ \cup {j} ELSE @]
  /\ UNCHANGED <<process, slot, group, disk, deaths>>

\* cancel: a marker with no reason yet is told this one.
CancelMarks(j) ==
  /\ up /\ canceller[j] \in {"mark", "mark, kill"}
  /\ MarkerMay(j, IF marker[j] = "bare" THEN "cancelled" ELSE marker[j])
  /\ canceller' = [canceller EXCEPT ![j] = IF @ = "mark" THEN "done" ELSE "kill"]
  /\ UNCHANGED <<process, job, slot, group, ledger, recorded, discarded, seen, deaths>>

CancelKills(j) ==
  /\ up /\ canceller[j] = "kill"
  /\ group' = [group EXCEPT ![j] = Killed(@)]
  /\ canceller' = [canceller EXCEPT ![j] = "done"]
  /\ UNCHANGED <<process, job, slot, disk, seen, deaths>>

\* The reader discards a session's entry.
Discard(s) ==
  /\ Serving /\ discarded' = discarded \cup {s}
  /\ UNCHANGED <<process, job, slot, group, canceller, marker, ledger, recorded, seen, deaths>>

-----------------------------------------------------------------------------
\* kill_all: the runner shuts and the live groups are taken in one hold.
Close ==
  /\ Serving /\ ~closed
  /\ closed' = TRUE
  /\ killList' = {j \in Jobs : job[j].at \in {"handover", "wait"}}
  /\ UNCHANGED <<up, recovering, job, slot, group, canceller, disk, seen, deaths>>

KillNext(j) ==
  /\ up /\ j \in killList
  /\ killList' = killList \ {j}
  /\ group' = [group EXCEPT ![j] = Killed(@)]
  /\ UNCHANGED <<up, closed, recovering, job, slot, canceller, disk, seen, deaths>>

\* The process is gone: its daemon threads with it, wherever they were.
Die ==
  /\ deaths < MaxDeaths /\ deaths' = deaths + 1
  /\ up' = FALSE /\ closed' = FALSE /\ killList' = {} /\ recovering' = {}
  /\ job' = [j \in Jobs |-> IF job[j].at = "off" THEN job[j] ELSE NewJob("lost")]
  /\ slot' = [s \in Sessions |-> Free]
  /\ group' = [j \in Jobs |-> "none"]
  /\ canceller' = [j \in Jobs |-> IF canceller[j] = "idle" THEN "idle" ELSE "done"]
  /\ UNCHANGED <<disk, seen>>

\* A stop exits once kill_all is through; it waits for no job.
Exit == up /\ closed /\ killList = {} /\ Die
Crash == up /\ Die

\* serve: the markers are looked at before a request is.
Restart ==
  /\ ~up /\ up' = TRUE
  /\ recovering' = {j \in Jobs : marker[j] # "none"}
  /\ UNCHANGED <<closed, killList, job, slot, group, canceller, disk, seen, deaths>>

\* Slip: a marker with no reason is an attempt that was made.
SlipRecovered(j, counted) ==
  IF marker[j] \in Kept \cup {"unstored"} THEN Said(marker[j], TRUE)
  ELSE Said("interrupted", TRUE)

\* _recovered: the outcome a left marker records. `counted` is the ledger's yes,
\* or its doubt.
Recovered(j, counted) ==
  IF ~counted
  THEN IF marker[j] = "cancelled" THEN Said("unsent", FALSE) ELSE Said("stopping", FALSE)
  ELSE IF marker[j] \in Kept \cup {"unstored"} THEN Said(marker[j], TRUE)
  ELSE Said("interrupted", TRUE)

\* One marker of the pass, recorded under its job's id and then removed. A removal
\* that fails also stands for a death between the two.
Recover(j) ==
  /\ up /\ j \in recovering
  /\ recovering' = recovering \ {j}
  /\ \E doubt \in {FALSE} \cup (IF "doubt" \in Faults THEN {TRUE} ELSE {}) :
       LET unsure == doubt /\ j \notin ledger
           o == Recovered(j, j \in ledger \/ unsure)
       IN IF recorded[j] # NoOutcome THEN UNCHANGED <<recorded, seen>>
          ELSE IF SessionOf[j] \in discarded
          THEN seen' = [seen EXCEPT !.dropped = @ \cup {j}] /\ UNCHANGED recorded
          ELSE /\ recorded' = [recorded EXCEPT ![j] = o]
               /\ seen' = [seen EXCEPT !.doubted = IF unsure THEN @ \cup {j} ELSE @]
  /\ MarkerMay(j, "none")
  /\ UNCHANGED <<up, closed, killList, job, slot, group, canceller, ledger, discarded, deaths>>

\* The store does not take the outcome: the marker waits for the next start. An
\* exception ends the pass, and the serve loop starts all the same.
RecoverFails(j) ==
  /\ up /\ j \in recovering /\ "store" \in Faults
  /\ recovering' \in {recovering \ {j}, {}}
  /\ UNCHANGED <<up, closed, killList, job, slot, group, canceller, disk, seen, deaths>>

-----------------------------------------------------------------------------
Thread(j) ==
  \/ Compose(j) \/ Look(j) \/ Commit(j) \/ Reserve(j) \/ Spawn(j) \/ HandOver(j) \/ Reap(j)
  \/ Stopped(j) \/ Seal(j) \/ Record(j) \/ Finish(j) \/ End(j)
Canceller(j) == CancelMarks(j) \/ CancelKills(j)

Next ==
  \/ \E j \in Jobs : \/ Press(j) \/ Thread(j) \/ CliExits(j) \/ CallLimit(j)
                     \/ PressCancel(j) \/ Canceller(j)
                     \/ KillNext(j) \/ Recover(j) \/ RecoverFails(j)
  \/ \E s \in Sessions : Discard(s)
  \/ Close \/ Exit \/ Crash \/ Restart

\* A started thread runs on. Nothing makes the CLI exit, and the call's own limit,
\* minutes away, is not relied on either.
Fairness == \A j \in Jobs : WF_vars(Thread(j)) /\ WF_vars(Canceller(j))
Spec == Init /\ [][Next]_vars
FairSpec == Spec /\ Fairness
-----------------------------------------------------------------------------
\* A charge is never lost: until the store holds the attempt as spent, or has
\* refused it for a discarded entry, the marker that will count it is on disk.
ChargeKept ==
  \A j \in ledger : marker[j] # "none" \/ recorded[j].spent \/ j \in seen.dropped

\* The count the reader sees equals what was charged, for a live outcome as for a
\* recovered one; only a ledger that cannot say counts an attempt in doubt.
CountEqualsCharge ==
  \A j \in Jobs : recorded[j] # NoOutcome /\ j \notin seen.doubted
                  => (recorded[j].spent <=> j \in ledger)

\* An accepted Cancel never yields a reading, whatever it raced, in this run or
\* the next; accepted before the commit point it spends nothing.
CancelHonoured ==
  \A j \in seen.told : recorded[j].why # "reading" /\ (j \in seen.early => j \notin ledger)

\* While the process lives, a Cancel made before the stop is told as the Cancel,
\* or as a CLI that may still run (_cancelled, Job.cancelled_after_close).
CancelNamed ==
  \A j \in Jobs : job[j].cancelled = "yes" /\ recorded[j] # NoOutcome
                  => recorded[j].why \in {"cancelled", "unsent", "unstopped"}

\* A CLI that could not be stopped is said so: neither the stop nor the Cancel
\* that killed it takes the sentence over.
UnstoppedSaid ==
  \A j \in Jobs : group[j] = "unstopped" /\ recorded[j] # NoOutcome
                  => recorded[j].why = "unstopped"

\* What a reader is told ended a reading is what did, in whichever order the Cancel,
\* the stop and a CLI that would not end reached it (_outcome, _cancelled).
OutcomeSays == CancelNamed /\ UnstoppedSaid

\* When kill_all is through, no CLI runs: a spawn in progress was in its list and
\* any later one was refused.
StopLeavesNoCli == closed /\ killList = {} => \A j \in Jobs : group[j] # "running"

\* Of readers' presses alone, one reading a session: a live job's thread holds its
\* session's slot. The unasked lane, which is not here, may give that slot back
\* (unasked.py, _claim; MCSlot of Unasked).
OnePerSession ==
  up => \A j \in Jobs : job[j].at \notin Threadless => slot[SessionOf[j]] = j

\* The kill a Cancel owes is always somebody's: while its job waits on a running CLI
\* the canceller's thread has still to kill it, the handover having come first.
KillOwed ==
  \A j \in Jobs : job[j].at = "wait" /\ job[j].cancelled # "no" /\ group[j] = "running"
                  => canceller[j] \in {"mark, kill", "kill"}

\* An accepted Cancel ends its job without waiting for the CLI to end by itself:
\* the kill is the Cancel's, or the handover's, and never neither's.
CancelEndsJob ==
  \A j \in Jobs : job[j].cancelled # "no" ~> job[j].at \in {"ended", "lost"}
-----------------------------------------------------------------------------
\* Where a reader would say a job stands: a marker outlives its thread as a word owed.
Phase(j) ==
  IF job[j].at = "reserve" THEN "committed"
  ELSE IF job[j].at \notin Threadless THEN "running"
  ELSE IF marker[j] # "none" THEN "owed"
  ELSE IF job[j].at = "off" THEN "idle" ELSE "over"

Account == INSTANCE ReadingAccount
             WITH phase <- [j \in Jobs |-> Phase(j)], charged <- ledger,
                  cancelled <- seen.told, outcome <- recorded, refused <- seen.dropped,
                  doubted <- seen.doubted, Outcomes <- Outcome
=============================================================================
