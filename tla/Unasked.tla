-------------------------------- MODULE Unasked --------------------------------
(***************************************************************************)
(* The unasked lane (unasked.py, departures.py) and what it shares with    *)
(* the rest of one dashboard: the reading slot and the job registry of     *)
(* reading.py and the collection that calls the lane. Three kinds of       *)
(* thread meet here: the collection, which considers its rows and starts   *)
(* at most one worker; the lane's workers; and the readers' own jobs. One  *)
(* action is one hold of one lock, or one write of one store and the calls *)
(* that lead to it. What a reading quotes is Annotations.tla's.            *)
(***************************************************************************)
EXTENDS Integers, FiniteSets, Functions

CONSTANTS Sessions,    \* sessions on the board
          Jobs,        \* readings the reader presses for, each started once
          SessionOf,   \* the session each job reads
          SessionCap,  \* unasked_session_cap
          DailyCap,    \* unasked_daily_cap
          Criteria,    \* how many things a reading can say departed
          Faults,      \* what may befall: "spawn", "store", "withheld", "full"
          Edited,      \* bound: sessions whose words come and go as we watch
          MaxRuns,     \* bound: readings the lane starts
          MaxRestarts  \* bound: restarts of the dashboard

None == "none"

ASSUME UnaskedAssumption ==
  /\ IsFiniteSet(Sessions) /\ IsFiniteSet(Jobs)
  /\ SessionOf \in [Jobs -> Sessions]
  /\ None \notin Sessions /\ Jobs \cap {"worker", "collection", None} = {}
  /\ SessionCap \in Nat /\ DailyCap \in Nat /\ Criteria \in Nat \ {0}
  /\ Faults \subseteq {"spawn", "store", "withheld", "full"}
  /\ Edited \subseteq Sessions
  /\ MaxRuns \in Nat /\ MaxRestarts \in Nat

VARIABLES
  worded,    \* the annotation store: sessions with a typed goal
  checks,    \* the departure store: each session's rows, withdrawn or not
  today,     \* the departure store's rows younger than a day
  slot,      \* reading._IN_FLIGHT
  registry,  \* reading._JOBS
  inflight,  \* state.unasked_inflight
  known,     \* state.unasked_seen: sessions whose state was noted before
  worker,    \* each session's worker of the lane, until it gives the lane back
  owing,     \* each session's workers that still have its slot to give back
  job,       \* each reader's job
  coll,      \* the collection under way
  runs,      \* readings the lane has started
  restarts,
  stolen,    \* history: sessions whose slot was given back under its holder
  landed,    \* history: the readings each session's rows are of
  spent      \* history: the readings the day's rows are of

threads == <<worker, owing>>
history == <<landed, spent>>
store == <<worded, checks, today, history>>
slots == <<slot, registry, stolen>>
vars == <<store, slots, inflight, known, threads, job, coll, runs, restarts>>

\* A collection: the rows it has yet to consider, those it read words for, the counts
\* of the departures it loaded and the claim it is making.
NotLoaded == [loaded |-> FALSE, mine |-> [s \in Sessions |-> 0], today |-> 0]
NoColl == [at |-> "idle", left |-> {}, words |-> {}, stored |-> NotLoaded,
           started |-> FALSE, s |-> None]
CollAt == {"idle", "rows", "gate", "slot", "spawn", "lane_back", "slot_back"}
Colls == [at: CollAt, left: SUBSET Sessions, words: SUBSET Sessions,
          stored: [loaded: BOOLEAN, mine: [Sessions -> Nat], today: Nat],
          started: BOOLEAN, s: Sessions \cup {None}]

\* Every variable has its type.
TypeOK ==
  /\ worded \subseteq Sessions
  /\ checks \in [Sessions -> Nat] /\ today \in Nat
  /\ slot \subseteq Sessions /\ inflight \subseteq Sessions /\ known \subseteq Sessions
  /\ registry \in [Sessions -> Jobs \cup {None}]
  /\ worker \in [Sessions -> {"idle", "reading", "lane_back"}]
  /\ owing \in [Sessions -> Nat]
  /\ job \in [Jobs -> {"new", "reading", "done"}]
  /\ coll \in Colls /\ (coll.s = None <=> coll.at \in {"idle", "rows"})
  /\ runs \in Nat /\ restarts \in Nat
  /\ stolen \subseteq Sessions
  /\ landed \in [Sessions -> Nat] /\ spent \in Nat

\* A board with words on every session and nothing checked yet.
Init ==
  /\ worded = Sessions
  /\ checks = [s \in Sessions |-> 0] /\ today = 0
  /\ slot = {} /\ inflight = {} /\ known = {} /\ stolen = {}
  /\ registry = [s \in Sessions |-> None]
  /\ worker = [s \in Sessions |-> "idle"] /\ owing = [s \in Sessions |-> 0]
  /\ job = [j \in Jobs |-> "new"]
  /\ coll = NoColl
  /\ runs = 0 /\ restarts = 0
  /\ landed = [s \in Sessions |-> 0] /\ spent = 0

-----------------------------------------------------------------------------
\* annotate and clear, as the lane sees them: the words come and go. departures.withdraw
\* blanks the rows of a session whose words went, and keeps every row for its count.
Edit(s) ==
  /\ s \in Edited
  /\ worded' = IF s \in worded THEN worded \ {s} ELSE worded \cup {s}
  /\ UNCHANGED <<checks, today, history, slots, inflight, known, threads, job, coll, runs,
                 restarts>>

-----------------------------------------------------------------------------
\* The collection.

\* annotations.refresh, and the rows as the harness reports them.
Begin ==
  /\ coll.at = "idle"
  /\ coll' = [NoColl EXCEPT !.at = "rows", !.left = Sessions, !.words = worded]
  /\ UNCHANGED <<store, slots, inflight, known, threads, job, runs, restarts>>

Considered == [coll EXCEPT !.at = "rows", !.s = None]

\* departures.load and counts: every row, whatever it found or has lost since.
Counts == [loaded |-> TRUE, mine |-> checks, today |-> today]

\* consider, one row: its state is noted whatever else holds. It is a candidate when
\* that was a change, which a first sight is not, this collection has started nothing
\* and its copy holds words. The first candidate loads the departures.
Row(s) ==
  /\ coll.at = "rows" /\ s \in coll.left
  /\ known' = known \cup {s}
  /\ \/ /\ s \in known /\ ~coll.started /\ s \in coll.words
        /\ coll' = [coll EXCEPT !.left = @ \ {s}, !.at = "gate", !.s = s,
                               !.stored = IF @.loaded THEN @ ELSE Counts]
     \/ coll' = [Considered EXCEPT !.left = @ \ {s}]
  /\ UNCHANGED <<store, slots, inflight, threads, job, runs, restarts>>

Publish ==
  /\ coll.at = "rows" /\ coll.left = {}
  /\ coll' = NoColl
  /\ UNCHANGED <<store, slots, inflight, known, threads, job, runs, restarts>>

\* Slip: one unasked reading at a time per session, not for the board.
SlipMayClaim(s) ==
  /\ s \notin inflight
  /\ coll.stored.mine[s] < SessionCap /\ coll.stored.today < DailyCap

MayClaim(s) ==
  /\ inflight = {}
  /\ coll.stored.mine[s] < SessionCap /\ coll.stored.today < DailyCap

\* _claim, the hold of unasked_lock. The session's floor is a matter of time, which
\* is left open: it may refuse any claim.
Gate ==
  /\ coll.at = "gate"
  /\ \/ /\ MayClaim(coll.s) /\ runs < MaxRuns
        /\ inflight' = inflight \cup {coll.s}
        /\ coll' = [coll EXCEPT !.at = "slot"]
     \/ coll' = Considered /\ UNCHANGED inflight
  /\ UNCHANGED <<store, slots, known, threads, job, runs, restarts>>

\* reading.claim; a refusal gives back both slots, the lane's and the reader's.
TakeSlot ==
  /\ coll.at = "slot"
  /\ IF coll.s \in slot
     THEN coll' = [coll EXCEPT !.at = "lane_back"] /\ UNCHANGED slot
     ELSE coll' = [coll EXCEPT !.at = "spawn", !.started = TRUE] /\ slot' = slot \cup {coll.s}
  /\ UNCHANGED <<store, registry, stolen, inflight, known, threads, job, runs, restarts>>

\* The worker starts, on the collection's copy of the entry ...
Spawn ==
  /\ coll.at = "spawn"
  /\ coll' = Considered
  /\ worker' = [worker EXCEPT ![coll.s] = "reading"]
  /\ runs' = runs + 1
  /\ UNCHANGED <<store, slots, inflight, known, owing, job, restarts>>

\* Slip: a thread that does not start leaves its slots taken.
SlipSpawnFails ==
  /\ coll.at = "spawn" /\ "spawn" \in Faults
  /\ coll' = Considered
  /\ UNCHANGED <<store, slots, inflight, known, threads, job, runs, restarts>>

\* ... or its thread does not, and both slots go back.
SpawnFails ==
  /\ coll.at = "spawn" /\ "spawn" \in Faults
  /\ coll' = [coll EXCEPT !.at = "lane_back"]
  /\ UNCHANGED <<store, slots, inflight, known, threads, job, runs, restarts>>

Reading(j) == job[j] = "reading"
\* Whoever has taken the slot of s and is still at work on what it took it for.
Holders(s) ==
  {j \in Jobs : SessionOf[j] = s /\ Reading(j)}
  \cup {x \in {"worker"} : worker[s] # "idle"}
  \cup {x \in {"collection"} : coll.s = s /\ coll.started}

\* reading.release, by the slot's holder or by another: the set does not know whose
\* it is.
Release(s, me) ==
  /\ slot' = slot \ {s}
  /\ stolen' = IF Holders(s) \ me # {} THEN stolen \cup {s} ELSE stolen
  /\ UNCHANGED registry

\* _release from the collection: two locks, one after the other.
CollLaneBack ==
  /\ coll.at = "lane_back"
  /\ inflight' = inflight \ {coll.s}
  /\ coll' = [coll EXCEPT !.at = "slot_back"]
  /\ UNCHANGED <<store, slots, known, threads, job, runs, restarts>>

CollSlotBack ==
  /\ coll.at = "slot_back"
  /\ Release(coll.s, {"collection"})
  /\ coll' = Considered
  /\ UNCHANGED <<store, inflight, known, threads, job, runs, restarts>>

-----------------------------------------------------------------------------
\* The worker.

\* Slip: a check that found nothing leaves no row.
SlipRows(found) == IF found THEN 1 .. Criteria ELSE {0}

\* A row for each thing that departed, and one when nothing did.
Rows(found) == IF found THEN 1 .. Criteria ELSE {1}

\* produce, and departures.record under its lock; the banner of a departure that
\* was recorded goes out after it. A record the store did not take is not counted.
Check(s) ==
  /\ worker[s] = "reading"
  /\ worker' = [worker EXCEPT ![s] = "lane_back"]
  /\ \/ \E found \in BOOLEAN : \E n \in Rows(found) :
          /\ checks' = [checks EXCEPT ![s] = @ + n] /\ today' = today + n
          /\ landed' = [landed EXCEPT ![s] = @ + 1] /\ spent' = spent + 1
     \/ "store" \in Faults /\ UNCHANGED <<checks, today, history>>
  /\ UNCHANGED <<worded, slots, inflight, known, owing, job, coll, runs, restarts>>

\* No assessment: withheld or uncovered before the CLI ran, or its call failed after.
\* Nothing is recorded for either, so the caps do not see the second.
Withheld(s) ==
  /\ worker[s] = "reading" /\ "withheld" \in Faults
  /\ worker' = [worker EXCEPT ![s] = "lane_back"]
  /\ UNCHANGED <<store, slots, inflight, known, owing, job, coll, runs, restarts>>

\* _release from the worker.
LaneBack(s) ==
  /\ worker[s] = "lane_back"
  /\ inflight' = inflight \ {s}
  /\ worker' = [worker EXCEPT ![s] = "idle"] /\ owing' = [owing EXCEPT ![s] = @ + 1]
  /\ UNCHANGED <<store, slots, known, job, coll, runs, restarts>>

SlotBack(s) ==
  /\ owing[s] > 0 /\ owing' = [owing EXCEPT ![s] = @ - 1]
  /\ Release(s, {})
  /\ UNCHANGED <<store, inflight, known, worker, job, coll, runs, restarts>>

-----------------------------------------------------------------------------
\* The reader's own press (ReadingJobs.tla has the job in detail).

\* Slip: the press asks the registry, which does not know the lane's readings.
SlipFree(s) == registry[s] = None

Free(s) == s \notin slot

\* _send_reading: the entry is read afresh, and start_job takes the slot and
\* registers the job, or the press is refused.
Press(j) ==
  LET s == SessionOf[j]
  IN /\ job[j] = "new" /\ s \in worded /\ Free(s)
     /\ job' = [job EXCEPT ![j] = "reading"]
     /\ slot' = slot \cup {s} /\ registry' = [registry EXCEPT ![s] = j]
     /\ UNCHANGED <<store, stolen, inflight, known, threads, coll, runs, restarts>>

\* end_job: the registry and the slot in one hold, whoever the session's are by now.
End(j) ==
  LET s == SessionOf[j]
  IN /\ Reading(j)
     /\ job' = [job EXCEPT ![j] = "done"]
     /\ registry' = [registry EXCEPT ![s] = None] /\ slot' = slot \ {s}
     /\ UNCHANGED <<store, stolen, inflight, known, threads, coll, runs, restarts>>

-----------------------------------------------------------------------------
\* The world. The rows of the oldest reading leave the day ...
DayPasses ==
  /\ spent > 0 /\ spent' = spent - 1
  /\ today' \in spent' .. today - 1
  /\ UNCHANGED <<worded, checks, landed, slots, inflight, known, threads, job, coll, runs,
                 restarts>>

\* ... and a full store drops its oldest rows, which the day's are not
\* (departures._bounded).
SomeOlder == FoldFunction(+, 0, landed) > spent
Drops(s) ==
  /\ "full" \in Faults /\ SomeOlder /\ landed[s] > 0
  /\ landed' = [landed EXCEPT ![s] = @ - 1]
  /\ \E n \in landed'[s] .. checks[s] - 1 : checks' = [checks EXCEPT ![s] = n]
  /\ UNCHANGED <<worded, today, spent, slots, inflight, known, threads, job, coll, runs,
                 restarts>>

Restart ==
  /\ restarts < MaxRestarts /\ restarts' = restarts + 1
  /\ slot' = {} /\ inflight' = {} /\ known' = {}
  /\ registry' = [s \in Sessions |-> None]
  /\ worker' = [s \in Sessions |-> "idle"] /\ owing' = [s \in Sessions |-> 0]
  /\ job' = [j \in Jobs |-> IF Reading(j) THEN "done" ELSE job[j]]
  /\ coll' = NoColl
  /\ UNCHANGED <<store, stolen, runs>>

Next ==
  \/ \E s \in Sessions : Edit(s) \/ Row(s) \/ Check(s) \/ Withheld(s) \/ LaneBack(s)
                         \/ SlotBack(s) \/ Drops(s)
  \/ \E j \in Jobs : Press(j) \/ End(j)
  \/ Begin \/ Publish \/ Gate \/ TakeSlot \/ Spawn \/ SpawnFails
  \/ CollLaneBack \/ CollSlotBack \/ DayPasses \/ Restart

\* A worker that was started comes to its end (produce runs under a deadline), and
\* so does a collection's claim.
Fairness ==
  /\ \A s \in Sessions : WF_vars(Check(s) \/ Withheld(s)) /\ WF_vars(LaneBack(s))
  /\ WF_vars(TakeSlot) /\ WF_vars(Spawn \/ SpawnFails) /\ WF_vars(CollLaneBack)
Spec == Init /\ [][Next]_vars
FairSpec == Spec /\ Fairness
-----------------------------------------------------------------------------
\* The board runs one unasked reading at a time, across collections, give-backs and
\* threads that do not start (unasked.py, module docstring).
OneUnasked == \A s, t \in Sessions : worker[s] = "reading" /\ worker[t] = "reading" => s = t

\* What is being read of a session now.
ReadingsOf(s) == {j \in Jobs : SessionOf[j] = s /\ Reading(j)}
                 \cup {x \in {"worker"} : worker[s] = "reading"}

\* "One reading in flight per session" (reading.py, claim), a reader's or the lane's:
\* the slot shared by the two keeps it for as long as nobody has given back a slot
\* that was another's.
SlotShared == \A s \in Sessions \ stolen : \A a, b \in ReadingsOf(s) : a = b

\* The same without the proviso, which is what reading.claim and unasked._claim say.
OneReadingPerSession == \A s \in Sessions : \A a, b \in ReadingsOf(s) : a = b

\* The caps bound the readings the lane makes, whatever they found, whatever was
\* withdrawn since and however often the dashboard restarts: of a session, those the
\* store still has rows of, and of the board, the day's. They may be passed by one,
\* no more: a collection counts once, and a reading may land between that and its claim.
SpendBounded == /\ \A s \in Sessions : landed[s] <= SessionCap + 1
                /\ spent <= DailyCap + 1

\* No failure silences the lane for the life of the process (consider, on a thread
\* that does not start): whoever holds its slot gives it back.
LaneFrees == inflight # {} ~> inflight = {}
=============================================================================
