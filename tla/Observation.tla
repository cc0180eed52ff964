---------------------------- MODULE Observation ----------------------------
(***************************************************************************)
(* The event coordinator of observation.py: the generation each event and  *)
(* each question dirties, the worker that decides when to collect (_due),  *)
(* captures the generations before the read and retires them after it      *)
(* (_collect), beside request threads that collect the same body for       *)
(* themselves through aggregate.collect_json. Time is in ticks; a timer    *)
(* stops at the last value a comparison tells apart, so the clock never    *)
(* runs out. Operators named Slip... are wrong variants of the one they    *)
(* precede, for testing the properties; Next uses none of them.            *)
(***************************************************************************)
EXTENDS Naturals

CONSTANTS Harnesses,  \* event sources
          Getters,    \* request threads of /api/data
          Streams,    \* whether a page stays connected to the stream
          Memo,       \* collect_memo_sec, the floor
          Coalesce,   \* event_coalesce_sec
          Period,     \* stream_producer_interval_sec
          Reconcile,  \* reconcile_interval_sec
          MaxEvents, MaxAsks, MaxChanges, MaxClears \* bounds, in all

ASSUME ObservationAssumption ==
  /\ Streams \in BOOLEAN
  /\ Coalesce \in Nat /\ Memo \in Nat /\ Period \in Nat /\ Reconcile \in Nat
  /\ Coalesce <= Memo /\ Memo <= Period
  /\ {MaxEvents, MaxAsks, MaxChanges, MaxClears} \subseteq Nat
  /\ "none" \notin Getters /\ "stores" \notin Harnesses

VARIABLES
  dirty,          \* _dirty: the generation of each harness and of the ask lane
  collected,      \* _collected
  stores,         \* changes made to the watched stores
  moved,          \* the next probe stamp would differ from the last
  asking,         \* AskRegistry.count is not zero
  urgent,         \* _urgent
  coalesce,       \* ticks left to _coalesce_until, Off when there is none
  sinceCollect,   \* ticks since _last_collect_at
  sinceReconcile, \* ticks since _last_reconcile_at
  reason,         \* why the worker collects
  observed,       \* the generations it captured
  got, own,       \* the body it was answered; whether it collected that itself
  at,             \* where the worker and each request thread are
  read,           \* what each one's collection read, and the generation it noted
  holder,         \* who holds collect_memo_lock
  body,           \* the kept body: whose it is and its age in ticks
  generation,     \* Snapshot._generation
  shown           \* history: the newest of each thing a kept body has carried

timers == <<coalesce, sinceCollect, sinceReconcile>>
memory == <<dirty, collected, moved, urgent, reason, observed, got, own>>
snapshot == <<holder, body, generation, shown>>
vars == <<timers, memory, snapshot, stores, asking, at, read>>

None == "none"
Off == Memo + 1
Worker == "worker"
Ask == "ask"
Store == "stores"
Lanes == Harnesses \cup {Ask}
Things == Lanes \cup {Store}
Collectors == Getters \cup {Worker}
Happened(x) == IF x = Store THEN stores ELSE dirty[x]
Nothing == [x \in Things |-> 0]
Unread == [seen |-> Nothing, gen |-> 0]
\* A revision is compared with one other only, _last_revision: a body is the one of
\* the worker's "last" collection, the one it has "now" been answered, or neither.
NoBody == [is |-> None, age |-> Memo]
Bodies == {None, "last", "now", "other"}
Later(a, b) == IF a >= b THEN a ELSE b
Least(a, b) == IF a <= b THEN a ELSE b

\* Every variable has its type; a request holds the collect lock only to read.
TypeOK ==
  /\ dirty \in [Lanes -> Nat] /\ collected \in [Lanes -> Nat] /\ stores \in Nat
  /\ moved \in BOOLEAN /\ asking \in BOOLEAN /\ urgent \in BOOLEAN
  /\ coalesce \in 0 .. Off
  /\ sinceCollect \in 0 .. Period /\ sinceReconcile \in 0 .. Reconcile
  /\ got \in {None, "last", "now"} /\ own \in BOOLEAN
  /\ generation \in Nat
  /\ reason \in {None, "event", "ask", "tick"}
  /\ observed \in [Lanes -> Nat]
  /\ at \in [Collectors -> {"idle", "capture", "probe", "want", "read", "publish", "mark"}]
  /\ read \in [Collectors -> [seen: [Things -> Nat], gen: Nat]]
  /\ holder \in Collectors \cup {None}
  /\ body \in [is: Bodies, age: 0 .. Memo]
  /\ shown \in [Things -> Nat]
  /\ \A p \in Collectors : holder = p <=> at[p] \in {"read", "publish"}

Init ==
  /\ dirty = [s \in Lanes |-> 0] /\ collected = dirty /\ observed = dirty
  /\ stores = 0 /\ moved = TRUE /\ asking = FALSE /\ urgent = FALSE
  /\ coalesce = Off /\ sinceCollect = Period /\ sinceReconcile = Reconcile
  /\ got = None /\ own = FALSE /\ reason = None
  /\ at = [p \in Collectors |-> "idle"]
  /\ read = [p \in Collectors |-> Unread]
  /\ holder = None /\ body = NoBody /\ generation = 0
  /\ shown = Nothing

-----------------------------------------------------------------------------
\* _record: the source is dirty and a fixed coalescing window begins; a permission
\* alert passes the window, an event that asks for it forces a real reconcile.
Event(h, alert, reconcile) ==
  /\ dirty[h] < MaxEvents
  /\ dirty' = [dirty EXCEPT ![h] = @ + 1]
  /\ urgent' = (urgent \/ alert)
  /\ coalesce' = IF coalesce = Off THEN Coalesce ELSE coalesce
  /\ sinceReconcile' = IF reconcile THEN Reconcile ELSE sinceReconcile
  /\ moved' = (moved \/ reconcile)
  /\ UNCHANGED <<collected, sinceCollect, reason, observed, got, own,
                 snapshot, stores, asking, at, read>>

\* The ask route: registered, the bodies dropped, then note_ask.
Asked ==
  /\ dirty[Ask] < MaxAsks
  /\ dirty' = [dirty EXCEPT ![Ask] = @ + 1]
  /\ asking' = TRUE
  /\ body' = NoBody /\ generation' = generation + 1
  /\ sinceReconcile' = Reconcile
  /\ UNCHANGED <<collected, moved, urgent, reason, observed, got, own,
                 coalesce, sinceCollect, holder, shown, stores, at, read>>

AskSettled ==
  /\ asking /\ asking' = FALSE
  /\ UNCHANGED <<timers, memory, snapshot, stores, at, read>>

\* A session writes; the probe may not see it (its false negative).
StoreChanges ==
  /\ stores < MaxChanges /\ stores' = stores + 1
  /\ moved' \in {moved, TRUE}
  /\ UNCHANGED <<timers, dirty, collected, urgent, reason, observed, got, own,
                 snapshot, asking, at, read>>

\* A save drops the kept body.
Clear ==
  /\ generation < MaxClears
  /\ body' = NoBody /\ generation' = generation + 1
  /\ UNCHANGED <<timers, memory, holder, shown, stores, asking, at, read>>

Tick ==
  /\ coalesce' = IF coalesce \in {Off, 0} THEN coalesce ELSE coalesce - 1
  /\ sinceCollect' = Least(sinceCollect + 1, Period)
  /\ sinceReconcile' = Least(sinceReconcile + 1, Reconcile)
  /\ body' = [body EXCEPT !.age = Least(@ + 1, Memo)]
  /\ UNCHANGED <<memory, holder, generation, shown, stores, asking, at, read>>

-----------------------------------------------------------------------------
Goes(p, stage) == at' = [at EXCEPT ![p] = stage]

EventDue == dirty # collected /\ (urgent \/ coalesce \in {Off, 0})
\* _due: the floor gates every reason. The worker wakes on a notify and at least
\* every period, so what is due is looked at again and again.
Why == IF EventDue THEN "event" ELSE IF asking THEN "ask"
       ELSE IF Streams /\ sinceCollect = Period THEN "tick" ELSE None

Due ==
  /\ at[Worker] = "idle" /\ sinceCollect >= Memo /\ Why # None
  /\ reason' = Why
  /\ Goes(Worker, "capture")
  /\ UNCHANGED <<timers, dirty, collected, moved, urgent, observed, got, own,
                 snapshot, stores, asking, read>>

\* What the hold that opens _collect does beside the urgent flag.
Captured ==
  /\ at[Worker] = "capture"
  /\ observed' = dirty /\ coalesce' = Off
  /\ Goes(Worker, IF reason = "tick" THEN "probe" ELSE "want")
  /\ UNCHANGED <<sinceCollect, sinceReconcile, dirty, collected, moved, reason, got, own,
                 snapshot, stores, asking, read>>

\* The hold that opens _collect: an alert that comes later forces the next one.
Capture == Captured /\ urgent' = FALSE

\* The captured generations and the reason end with the call.
Dropped == reason' = None /\ observed' = [s \in Lanes |-> 0]

\* Slip: the probe alone decides, with no reconcile to bound what it misses.
SlipProbe ==
  /\ at[Worker] = "probe"
  /\ moved' = FALSE
  /\ IF moved
     THEN Goes(Worker, "want") /\ UNCHANGED <<sinceCollect, reason, observed>>
     ELSE Goes(Worker, "idle") /\ sinceCollect' = 0 /\ Dropped
  /\ UNCHANGED <<sinceReconcile, coalesce, dirty, collected, urgent, got, own,
                 snapshot, stores, asking, read>>

\* _worth_collecting: a tick reads when a reconcile is due or the stamp moved, and
\* is skipped otherwise; either way the stamp is taken anew.
Probe ==
  /\ at[Worker] = "probe"
  /\ moved' = FALSE
  /\ sinceReconcile' = IF sinceReconcile = Reconcile THEN 0 ELSE sinceReconcile
  /\ IF sinceReconcile = Reconcile \/ moved
     THEN Goes(Worker, "want") /\ UNCHANGED <<sinceCollect, reason, observed>>
     ELSE Goes(Worker, "idle") /\ sinceCollect' = 0 /\ Dropped
  /\ UNCHANGED <<coalesce, dirty, collected, urgent, got, own, snapshot,
                 stores, asking, read>>

Get(p) ==
  /\ p # Worker /\ at[p] = "idle"
  /\ Goes(p, "want")
  /\ UNCHANGED <<timers, memory, snapshot, stores, asking, read>>

After(p) == IF p = Worker THEN "mark" ELSE "idle"

\* collect_json: a body inside the floor is handed out as it is ...
Reuse(p) ==
  /\ at[p] = "want" /\ body.is # None /\ body.age < Memo
  /\ IF p = Worker
     THEN LET it == IF body.is = "last" THEN "last" ELSE "now"
          IN got' = it /\ body' = [body EXCEPT !.is = it]
     ELSE UNCHANGED <<got, body>>
  /\ Goes(p, After(p))
  /\ UNCHANGED <<timers, dirty, collected, moved, urgent, reason, observed, own, holder,
                 generation, shown, stores, asking, read>>

\* Slip: no turn of the lock.
SlipLock(p) ==
  /\ at[p] = "want" /\ (body.is = None \/ body.age = Memo)
  /\ holder' = p /\ Goes(p, "read")
  /\ read' = [read EXCEPT ![p].gen = generation]
  /\ UNCHANGED <<timers, memory, body, generation, shown, stores, asking>>

\* ... any other is collected, one collection at a time.
Lock(p) ==
  /\ at[p] = "want" /\ (body.is = None \/ body.age = Memo) /\ holder = None
  /\ holder' = p /\ Goes(p, "read")
  /\ read' = [read EXCEPT ![p].gen = generation]
  /\ UNCHANGED <<timers, memory, body, generation, shown, stores, asking>>

\* The read of the stores and of the overlays, as of one instant.
Read(p) ==
  /\ at[p] = "read"
  /\ read' = [read EXCEPT ![p].seen = [x \in Things |-> Happened(x)]]
  /\ Goes(p, "publish")
  /\ UNCHANGED <<timers, memory, snapshot, stores, asking>>

\* What a collection that raises leaves behind beside the lock.
Raised(p) ==
  /\ at[p] = "read" /\ Goes(p, "idle")
  /\ read' = [read EXCEPT ![p] = Unread]
  /\ IF p = Worker THEN sinceCollect' = 0 /\ Dropped
     ELSE UNCHANGED <<sinceCollect, reason, observed>>
  /\ UNCHANGED <<coalesce, sinceReconcile, dirty, collected, moved, urgent, got, own, body,
                 generation, shown, stores, asking>>

\* Slip: the lock is released on the normal return alone.
SlipReadFails(p) == Raised(p) /\ UNCHANGED holder

\* A collection raises: the worker's floor starts over and its generations stay.
ReadFails(p) == Raised(p) /\ holder' = None

\* Kept unless a clear crossed it; answered with its revision either way.
Publish(p) ==
  /\ at[p] = "publish"
  /\ IF read[p].gen = generation
     THEN /\ body' = [is |-> IF p = Worker THEN "now" ELSE "other", age |-> 0]
          /\ shown' = [x \in Things |-> Later(shown[x], read[p].seen[x])]
     ELSE UNCHANGED <<body, shown>>
  /\ IF p = Worker
     THEN got' = "now" /\ own' = TRUE /\ UNCHANGED read
     ELSE read' = [read EXCEPT ![p] = Unread] /\ UNCHANGED <<got, own>>
  /\ holder' = None /\ Goes(p, After(p))
  /\ UNCHANGED <<timers, dirty, collected, moved, urgent, reason, observed,
                 generation, stores, asking>>

\* The floor starts over, the answer becomes the last one, and the locals end. An
\* answer that is the last one's own again means a retry, one floor away.
Leaves ==
  /\ at[Worker] = "mark" /\ Goes(Worker, "idle")
  /\ sinceCollect' = 0
  /\ coalesce' = IF got = "last" THEN Memo ELSE coalesce
  /\ body' = [body EXCEPT !.is = IF @ = got /\ @ # None THEN "last"
                                 ELSE IF @ = "last" THEN "other" ELSE @]
  /\ Dropped /\ got' = None /\ own' = FALSE
  /\ read' = [read EXCEPT ![Worker] = Unread]
  /\ UNCHANGED <<sinceReconcile, dirty, moved, urgent, holder, generation, shown, stores,
                 asking>>

\* Slip: done is done, whatever arrived while the stores were read.
SlipMark ==
  /\ Leaves
  /\ collected' = IF got = "last" THEN collected ELSE dirty

\* The end of _collect: the captured generations are retired, unless the answer is
\* the one of the worker's own last collection.
Mark ==
  /\ Leaves
  /\ collected' = IF got = "last" THEN collected ELSE observed

Collection(p) == Reuse(p) \/ Lock(p) \/ Read(p) \/ Publish(p)

Next ==
  \/ \E h \in Harnesses, alert, reconcile \in BOOLEAN : Event(h, alert, reconcile)
  \/ Asked \/ AskSettled \/ StoreChanges \/ Clear \/ Tick
  \/ Due \/ Capture \/ Probe \/ Mark
  \/ \E p \in Collectors : Get(p) \/ Collection(p) \/ ReadFails(p)

\* The clock runs, the worker's thread runs, and a request that began returns. The
\* worker is not overtaken at the lock for ever, nor does every read of it raise.
\* Nothing makes a request arrive.
Fairness ==
  /\ WF_vars(Tick)
  /\ WF_vars(Due \/ Capture \/ Probe \/ Mark)
  /\ \A p \in Collectors : WF_vars(Collection(p))
  /\ SF_vars(Reuse(Worker) \/ Lock(Worker)) /\ SF_vars(Read(Worker))
Spec == Init /\ [][Next]_vars
FairSpec == Spec /\ Fairness
-----------------------------------------------------------------------------
\* A collection the worker itself made retires only generations its read took in:
\* what arrived during it stays dirty (_collect, note_ask).
RetiredWhenRead ==
  [][\A s \in Lanes : collected'[s] # collected[s] /\ own
       => collected'[s] <= read[Worker].seen[s]]_collected

\* Every generation is retired in the end: the floor, a failed read or a body
\* served twice may delay the worker, and none of them strands it.
EventRetired ==
  \A s \in Lanes, n \in 1 .. Later(MaxEvents, MaxAsks) : dirty[s] >= n ~> collected[s] >= n

\* With a page on the stream, every event, question and change of the stores is
\* on a kept body in the end: the reconcile bounds whatever the probe, a failed
\* read, a crossed clear or another's body made the worker miss.
AllShown ==
  \A x \in Things, n \in 1 .. Later(MaxChanges, Later(MaxEvents, MaxAsks)) :
    Happened(x) >= n ~> shown[x] >= n

\* "Marking the generation done here would retire the event against a read that
\* predates it, and nothing would republish" (_collect): no generation is retired
\* that no kept body has carried.
NotRetiredEarly == \A s \in Lanes : collected[s] <= shown[s]
=============================================================================
