------------------------------ MODULE EndStore ------------------------------
(***************************************************************************)
(* The write-through of observed session ends: the end mark the event      *)
(* coordinator keeps in memory (observation.py), the queue of store writes *)
(* it decides under its lock, the handler threads that drain that queue    *)
(* outside the lock, and compass-ends.json (ends.py) across restarts.      *)
(* A stamp of 0 is the code's own NOT OBSERVED. Names begin with End where *)
(* Observation has the same one: Coordinator_proofs extends both.          *)
(***************************************************************************)
EXTENDS Naturals, Sequences, FiniteSets

CONSTANTS Threads,      \* HTTP handler threads that submit events
          Keys,         \* (harness, sid) pairs
          Stamps,       \* event timestamps, positive
          MemCap,       \* event_overlay_max_sessions
          DiskCap,      \* end_max_entries
          Faults,       \* "save": a write fails; "raise": a store call raises
          MaxSubmits,    \* bound: events submitted in all
          MaxRestarts   \* bound: process restarts

ASSUME EndStoreAssumption ==
  /\ Stamps \subseteq Nat \ {0}
  /\ MemCap \in Nat \ {0} /\ DiskCap \in Nat \ {0}
  /\ Faults \subseteq {"save", "raise"}
  /\ MaxSubmits \in Nat /\ MaxRestarts \in Nat
  /\ IsFiniteSet(Keys)

VARIABLES ended,     \* _ended: the end mark held in memory, 0 when none
          endOps,    \* _end_ops: store writes decided and not yet made
          flushing,  \* _end_flushing
          pc,        \* where each thread is in _record / _flush_end_ops
          held,      \* the op a draining thread popped
          disk,      \* compass-ends.json
          decided,   \* history: the last op queued for a key in this run
          raised,    \* history: a drain died with the queue not yet empty
          events, restarts

endVars == <<ended, endOps, flushing, pc, held, disk, decided, raised, events, restarts>>

Op == [op: {"record", "lift"}, key: Keys, at: Stamps \cup {0}]
NoOp == [op |-> "none"]
Idle == [k \in Keys |-> 0]
Larger(a, b) == IF a >= b THEN a ELSE b
Stored(f) == {k \in Keys : f[k] > 0}

\* Every variable has its type, and neither store outgrows its cap: a refused end
\* is not kept, a full file drops its oldest (_mark_ended, ends._bounded).
EndTypeOK ==
  /\ ended \in [Keys -> Stamps \cup {0}]
  /\ endOps \in Seq(Op)
  /\ flushing \in BOOLEAN
  /\ pc \in [Threads -> {"idle", "flush", "pop", "write", "finally"}]
  /\ held \in [Threads -> Op \cup {NoOp}]
  /\ disk \in [Keys -> Stamps \cup {0}]
  /\ decided \in [Keys -> {"none", "record", "lift"}]
  /\ raised \in BOOLEAN
  /\ events \in Nat /\ restarts \in Nat
  /\ Cardinality(Stored(ended)) <= MemCap
  /\ Cardinality(Stored(disk)) <= DiskCap

EndInit ==
  /\ ended = Idle
  /\ endOps = <<>>
  /\ flushing = FALSE
  /\ pc = [t \in Threads |-> "idle"]
  /\ held = [t \in Threads |-> NoOp]
  /\ disk = Idle
  /\ decided = [k \in Keys |-> "none"]
  /\ raised = FALSE
  /\ events = 0 /\ restarts = 0

-----------------------------------------------------------------------------
\* _record, one hold of _lock: what the event decides, then off to the flush.
Submit(t) ==
  /\ pc[t] = "idle" /\ events < MaxSubmits
  /\ events' = events + 1
  /\ pc' = [pc EXCEPT ![t] = "flush"]
  /\ UNCHANGED <<flushing, held, disk, raised, restarts>>

\* Slip: the cap refuses nothing.
SessionEndedUncapped(t, k, at) ==
  /\ Submit(t)
  /\ LET stamp == Larger(ended[k], at) IN
     /\ ended' = [ended EXCEPT ![k] = stamp]
     /\ endOps' = Append(endOps, [op |-> "record", key |-> k, at |-> stamp])
     /\ decided' = [decided EXCEPT ![k] = "record"]

\* session_ended: _retire and _mark_ended. Refused at the cap, max otherwise.
SessionEnded(t, k, at) ==
  /\ Submit(t)
  /\ IF ended[k] = 0 /\ Cardinality(Stored(ended)) >= MemCap
     THEN UNCHANGED <<ended, endOps, decided>>
     ELSE LET stamp == Larger(ended[k], at) IN
          /\ ended' = [ended EXCEPT ![k] = stamp]
          /\ endOps' = Append(endOps, [op |-> "record", key |-> k, at |-> stamp])
          /\ decided' = [decided EXCEPT ![k] = "record"]

\* Whether an event stamped `at` lifts the mark in memory (_lift_ended).
Lifts(k, at) == ended[k] > 0 /\ at >= ended[k]

\* session_started, a working or a needs-input overlay. Only the first queues a
\* lift of the stored end whether or not memory held one.
SessionInUse(t, k, at, started) ==
  /\ Submit(t)
  /\ ended' = [ended EXCEPT ![k] = IF Lifts(k, at) THEN 0 ELSE @]
  /\ IF Lifts(k, at) \/ started
     THEN /\ endOps' = Append(endOps, [op |-> "lift", key |-> k, at |-> 0])
          /\ decided' = [decided EXCEPT ![k] = "lift"]
     ELSE UNCHANGED <<endOps, decided>>

\* The first hold of _flush_end_ops: another drainer means nothing to do.
EnterFlush(t) ==
  /\ pc[t] = "flush"
  /\ IF flushing
     THEN pc' = [pc EXCEPT ![t] = "idle"] /\ UNCHANGED flushing
     ELSE pc' = [pc EXCEPT ![t] = "pop"] /\ flushing' = TRUE
  /\ UNCHANGED <<ended, endOps, held, disk, decided, raised, events, restarts>>

\* Slip: the empty check leaves the flag to the `finally`, two holds apart.
PopOpInTwoHolds(t) ==
  /\ pc[t] = "pop"
  /\ IF endOps = <<>>
     THEN /\ pc' = [pc EXCEPT ![t] = "finally"]
          /\ raised' = FALSE
          /\ UNCHANGED <<endOps, held>>
     ELSE /\ held' = [held EXCEPT ![t] = Head(endOps)]
          /\ endOps' = Tail(endOps)
          /\ pc' = [pc EXCEPT ![t] = "write"]
          /\ UNCHANGED raised
  /\ UNCHANGED <<ended, flushing, disk, decided, events, restarts>>

\* The loop's hold: the empty check clears the flag in the same step.
PopOp(t) ==
  /\ pc[t] = "pop"
  /\ IF endOps = <<>>
     THEN /\ flushing' = FALSE
          /\ raised' = FALSE
          /\ pc' = [pc EXCEPT ![t] = "finally"]
          /\ UNCHANGED <<endOps, held>>
     ELSE /\ held' = [held EXCEPT ![t] = Head(endOps)]
          /\ endOps' = Tail(endOps)
          /\ pc' = [pc EXCEPT ![t] = "write"]
          /\ UNCHANGED <<flushing, raised>>
  /\ UNCHANGED <<ended, disk, decided, events, restarts>>

\* ends._bounded: the newest DiskCap records, ties either way.
Bounded(f) ==
  {g \in [Keys -> Stamps \cup {0}] :
     /\ \A k \in Keys : g[k] \in {0, f[k]}
     /\ Cardinality(Stored(g)) = IF Cardinality(Stored(f)) <= DiskCap
                                 THEN Cardinality(Stored(f)) ELSE DiskCap
     /\ \A k \in Stored(g), d \in Stored(f) \ Stored(g) : f[d] <= f[k]}

\* Slip: the last writer wins, so a redelivered older end pulls the stamp back.
WrittenLast(o) == {[disk EXCEPT ![o.key] = o.at]}

\* What ends.record and ends.lift leave on disk. Both are one read-modify-write
\* under ends._WRITE_LOCK, and a save that fails leaves the file as it was.
Written(o) ==
  IF o.op = "record"
  THEN Bounded([disk EXCEPT ![o.key] = Larger(@, o.at)])
  ELSE {[disk EXCEPT ![o.key] = 0]}

\* Slip: one op per flush, as if each thread only ever wrote its own.
WriteOneOp(t) ==
  /\ pc[t] = "write"
  /\ disk' \in Written(held[t])
  /\ held' = [held EXCEPT ![t] = NoOp]
  /\ pc' = [pc EXCEPT ![t] = "finally"]
  /\ UNCHANGED <<ended, endOps, flushing, decided, raised, events, restarts>>

WriteOp(t) ==
  /\ pc[t] = "write"
  /\ \/ disk' \in Written(held[t])
     \/ "save" \in Faults /\ UNCHANGED disk
  /\ held' = [held EXCEPT ![t] = NoOp]
  /\ pc' = [pc EXCEPT ![t] = "pop"]
  /\ UNCHANGED <<ended, endOps, flushing, decided, raised, events, restarts>>

\* A store call raises: the popped op is lost and `finally` releases the flag.
WriteRaises(t) ==
  /\ pc[t] = "write" /\ "raise" \in Faults
  /\ held' = [held EXCEPT ![t] = NoOp]
  /\ raised' = TRUE
  /\ pc' = [pc EXCEPT ![t] = "finally"]
  /\ UNCHANGED <<ended, endOps, flushing, disk, decided, events, restarts>>

\* Slip: no `finally`, so a raise leaves the flag set.
FinallyForgotten(t) ==
  /\ pc[t] = "finally"
  /\ pc' = [pc EXCEPT ![t] = "idle"]
  /\ UNCHANGED <<ended, endOps, flushing, held, disk, decided, raised, events, restarts>>

\* The `finally`, in a hold of its own, on the normal return as on the raise.
Finally(t) ==
  /\ pc[t] = "finally"
  /\ flushing' = FALSE
  /\ pc' = [pc EXCEPT ![t] = "idle"]
  /\ UNCHANGED <<ended, endOps, held, disk, decided, raised, events, restarts>>

\* note_rows: a mark past its window whose row is gone leaves memory, not the disk.
ForgetMark(k) ==
  /\ ended[k] > 0
  /\ ended' = [ended EXCEPT ![k] = 0]
  /\ UNCHANGED <<endOps, flushing, pc, held, disk, decided, raised, events, restarts>>

\* The process dies or stops with no drain, and a new one starts from disk.
Restart ==
  /\ restarts < MaxRestarts
  /\ restarts' = restarts + 1
  /\ ended' = Idle /\ endOps' = <<>> /\ flushing' = FALSE
  /\ pc' = [t \in Threads |-> "idle"]
  /\ held' = [t \in Threads |-> NoOp]
  /\ decided' = [k \in Keys |-> "none"]
  /\ raised' = FALSE
  /\ UNCHANGED <<disk, events>>

Drain(t) == EnterFlush(t) \/ PopOp(t) \/ WriteOp(t) \/ WriteRaises(t) \/ Finally(t)

EndNext ==
  \/ \E t \in Threads, k \in Keys, at \in Stamps :
       \/ SessionEnded(t, k, at)
       \/ \E started \in BOOLEAN : SessionInUse(t, k, at, started)
  \/ \E t \in Threads : Drain(t)
  \/ \E k \in Keys : ForgetMark(k)
  \/ Restart

\* A handler thread that has begun _record runs on to its return.
EndFairness == \A t \in Threads : WF_endVars(Drain(t))
EndSpec == EndInit /\ [][EndNext]_endVars /\ EndFairness
-----------------------------------------------------------------------------
Quiet == endOps = <<>> /\ ~raised /\ \A t \in Threads : pc[t] = "idle"

\* A queued store write always has a thread that will reach it: no op is left
\* behind by the hand-over between two drainers (_flush_end_ops' own argument).
NoStrandedOp ==
  endOps # <<>> /\ ~raised => \E t \in Threads : pc[t] \in {"flush", "pop", "write"}

\* The drain flag is never left set with nobody draining, even when a store call
\* raised: later threads would all return at once and nothing would be written.
FlagOwned == flushing => \E t \in Threads : pc[t] \in {"pop", "write", "finally"}

\* On disk a session's end stamp only moves forward or is removed, whatever the
\* order in which ends are redelivered and drained (ends._bounded).
EndNeverGoesBack == [][\A k \in Keys : disk'[k] < disk[k] => disk'[k] = 0]_disk

\* Every queued write is eventually made, unless a store call raised.
QueueDrains == endOps # <<>> ~> (endOps = <<>> \/ raised)

\* Once every handler is back, the file says what was decided last: an end, or
\* its lift (_flush_end_ops: "in the order they were decided").
DiskFollowsDecisions ==
  Quiet => \A k \in Keys :
    /\ decided[k] = "lift" => disk[k] = 0
    /\ decided[k] = "record" => disk[k] > 0 \/ Cardinality(Stored(disk)) = DiskCap

\* Once every handler is back, an end still held in memory is also on disk: a
\* restart forgets none of them (ends.py: "kept so a restart does not forget").
MemoryEndsStored ==
  Quiet => \A k \in Keys :
    ended[k] > 0 => disk[k] >= ended[k] \/ Cardinality(Stored(disk)) = DiskCap
=============================================================================
