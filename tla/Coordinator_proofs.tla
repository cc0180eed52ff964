------------------------- MODULE Coordinator_proofs -------------------------
(***************************************************************************)
(* The two halves of observation.py's coordinator, which share no state.   *)
(*                                                                         *)
(* EndStore, for every number of threads, keys and stamps: the types and   *)
(* both caps, that a queued write always has a thread to reach it, that    *)
(* the drain flag always has an owner, and that a stored stamp never moves *)
(* back. The first three are one inductive invariant, EndIInv.             *)
(*                                                                         *)
(* Observation, for every number of sources and request threads and any    *)
(* windows in their order: the types with the collect lock's discipline,   *)
(* and that a generation is retired by a collection of the worker's own    *)
(* only if that collection's read took it in.                              *)
(***************************************************************************)
EXTENDS EndStore, Observation, FiniteSetTheorems, TLAPS

\* A thread about to write holds an op it popped.
HeldOp == \A t \in Threads : pc[t] = "write" => held[t] \in Op

\* While the flag is up and no drain has died, a thread is still in the loop: the
\* fact that lets a thread finding the flag up leave its op to somebody else.
LoopManned == flushing /\ ~raised => \E t \in Threads : pc[t] \in {"pop", "write"}

EndIInv == EndTypeOK /\ HeldOp /\ LoopManned /\ NoStrandedOp /\ FlagOwned

\* EndTypeOK less its two caps.
Types ==
  /\ ended \in [Keys -> Stamps \cup {0}]
  /\ endOps \in Seq(Op)
  /\ flushing \in BOOLEAN
  /\ pc \in [Threads -> {"idle", "flush", "pop", "write", "finally"}]
  /\ held \in [Threads -> Op \cup {NoOp}]
  /\ disk \in [Keys -> Stamps \cup {0}]
  /\ decided \in [Keys -> {"none", "record", "lift"}]
  /\ raised \in BOOLEAN
  /\ events \in Nat /\ restarts \in Nat
-----------------------------------------------------------------------------
\* The keys a map stores are finitely many, so their number is a natural.
LEMMA StoredFinite ==
  ASSUME NEW f PROVE IsFiniteSet(Stored(f)) /\ Cardinality(Stored(f)) \in Nat
<1>1. Stored(f) \subseteq Keys  BY DEF Stored
<1>2. IsFiniteSet(Stored(f))  BY <1>1, EndStoreAssumption, FS_Subset DEF EndStoreAssumption
<1> QED  BY <1>2, FS_CardinalityType

\* Dropping one key's mark stores no more than before.
LEMMA StoredDropped ==
  ASSUME NEW f \in [Keys -> Stamps \cup {0}], NEW k \in Keys
  PROVE  Cardinality(Stored([f EXCEPT ![k] = 0])) <= Cardinality(Stored(f))
<1>1. Stored([f EXCEPT ![k] = 0]) \subseteq Stored(f)  BY DEF Stored
<1> QED  BY <1>1, StoredFinite, FS_Subset

\* Setting one key's mark stores one more at most, and none when it had one.
LEMMA StoredSet ==
  ASSUME NEW f \in [Keys -> Stamps \cup {0}], NEW k \in Keys, NEW time
  PROVE  LET g == [f EXCEPT ![k] = time] IN
         /\ Cardinality(Stored(g)) <= Cardinality(Stored(f)) + 1
         /\ f[k] > 0 => Cardinality(Stored(g)) <= Cardinality(Stored(f))
<1> DEFINE g == [f EXCEPT ![k] = time]
<1>1. Stored(g) \subseteq Stored(f) \cup {k}  BY DEF Stored
<1>2. IsFiniteSet(Stored(f) \cup {k})
      /\ Cardinality(Stored(f) \cup {k}) <= Cardinality(Stored(f)) + 1
  BY StoredFinite, FS_AddElement
<1>3. Cardinality(Stored(g)) <= Cardinality(Stored(f) \cup {k})  BY <1>1, <1>2, FS_Subset
<1>4. f[k] > 0 => Stored(f) \cup {k} = Stored(f)  BY DEF Stored
<1>5. Cardinality(Stored(f) \cup {k}) \in Nat  BY <1>2, FS_CardinalityType
<1>6. Cardinality(Stored(f)) \in Nat /\ Cardinality(Stored(g)) \in Nat  BY StoredFinite
<1>7. Cardinality(Stored(g)) <= Cardinality(Stored(f)) + 1  BY <1>2, <1>3, <1>5, <1>6
<1>8. f[k] > 0 => Cardinality(Stored(g)) <= Cardinality(Stored(f))  BY <1>3, <1>4
<1> QED  BY <1>7, <1>8

\* What an op may leave on disk: a typed file inside its cap, each stamp kept,
\* moved forward or removed.
LEMMA WrittenSafe ==
  ASSUME Types, Cardinality(Stored(disk)) <= DiskCap, NEW o \in Op, NEW d \in Written(o)
  PROVE  /\ d \in [Keys -> Stamps \cup {0}]
         /\ Cardinality(Stored(d)) <= DiskCap
         /\ \A k \in Keys : d[k] < disk[k] => d[k] = 0
<1>a. Stamps \cup {0} \subseteq Nat /\ DiskCap \in Nat
  BY EndStoreAssumption DEF EndStoreAssumption
<1>b. o.key \in Keys /\ o.at \in Stamps \cup {0}  BY DEF Op
<1>c. disk \in [Keys -> Stamps \cup {0}]  BY DEF Types
<1>1. CASE o.op = "record"
  <2> DEFINE f == [disk EXCEPT ![o.key] = Larger(@, o.at)]
  <2>1. d \in Bounded(f)  BY <1>1 DEF Written
  <2>2. \A k \in Keys : f[k] >= disk[k] /\ f[k] \in Nat  BY <1>a, <1>b, <1>c DEF Larger
  <2>3. d \in [Keys -> Stamps \cup {0}] /\ \A k \in Keys : d[k] \in {0, f[k]}
    BY <2>1 DEF Bounded
  <2>4. Cardinality(Stored(d)) <= DiskCap  BY <2>1, StoredFinite, <1>a DEF Bounded
  <2>5. \A k \in Keys : disk[k] \in Nat  BY <1>a, <1>c
  <2> QED  BY <2>2, <2>3, <2>4, <2>5
<1>2. CASE o.op # "record"
  <2>1. d = [disk EXCEPT ![o.key] = 0]  BY <1>2 DEF Written
  <2>2. Cardinality(Stored(d)) <= Cardinality(Stored(disk))
    BY <2>1, <1>b, <1>c, StoredDropped
  <2>3. Cardinality(Stored(d)) \in Nat /\ Cardinality(Stored(disk)) \in Nat
    BY StoredFinite
  <2>4. Cardinality(Stored(d)) <= DiskCap  BY <2>2, <2>3, <1>a
  <2>5. d \in [Keys -> Stamps \cup {0}] /\ \A k \in Keys : d[k] = disk[k] \/ d[k] = 0
    BY <2>1, <1>c
  <2>6. \A k \in Keys : disk[k] \in Nat  BY <1>a, <1>c
  <2> QED  BY <2>4, <2>5, <2>6
<1> QED  BY <1>1, <1>2

-----------------------------------------------------------------------------
\* The start satisfies the invariant.
LEMMA EndInitIInv == EndInit => EndIInv
<1> SUFFICES ASSUME EndInit PROVE EndIInv  OBVIOUS
<1>1. Types
  <2>1. <<>> \in Seq(Op)  OBVIOUS
  <2> QED  BY <2>1 DEF EndInit, Types, Idle
<1>2. Stored(ended) = {} /\ Stored(disk) = {}  BY DEF EndInit, Idle, Stored
<1>3. EndTypeOK
  BY <1>1, <1>2, FS_EmptySet, EndStoreAssumption DEF EndTypeOK, Types, EndStoreAssumption
<1>4. HeldOp /\ LoopManned /\ NoStrandedOp /\ FlagOwned
  BY DEF EndInit, HeldOp, LoopManned, NoStrandedOp, FlagOwned
<1> QED  BY <1>3, <1>4 DEF EndIInv

\* What an event leaves of the drain: its thread goes to the flush, no other moves.
LEMMA SubmitStep ==
  ASSUME EndIInv, NEW t \in Threads, Submit(t)
  PROVE  /\ pc' = [pc EXCEPT ![t] = "flush"] /\ pc[t] = "idle"
         /\ UNCHANGED <<flushing, held, disk, raised, restarts>>
         /\ HeldOp' /\ LoopManned' /\ NoStrandedOp' /\ FlagOwned'
         /\ pc' \in [Threads -> {"idle", "flush", "pop", "write", "finally"}]
         /\ events' \in Nat
<1>1. pc \in [Threads -> {"idle", "flush", "pop", "write", "finally"}] /\ events \in Nat
  BY DEF EndIInv, EndTypeOK
<1>2. /\ pc' = [pc EXCEPT ![t] = "flush"] /\ pc[t] = "idle" /\ events' = events + 1
      /\ UNCHANGED <<flushing, held, disk, raised, restarts>>
  BY DEF Submit
<1>3. HeldOp'  BY <1>1, <1>2 DEF EndIInv, HeldOp
<1>4. LoopManned'  BY <1>1, <1>2 DEF EndIInv, LoopManned
<1>5. NoStrandedOp'  BY <1>1, <1>2 DEF NoStrandedOp
<1>6. FlagOwned'  BY <1>1, <1>2 DEF EndIInv, FlagOwned
<1> QED  BY <1>1, <1>2, <1>3, <1>4, <1>5, <1>6

\* An end decided in memory stays typed and inside the cap.
LEMMA EndedStep ==
  ASSUME EndIInv, NEW t \in Threads, NEW k \in Keys, NEW time \in Stamps, SessionEnded(t, k, time)
  PROVE  EndIInv'
<1> DEFINE stamp == Larger(ended[k], time)
<1>a. Stamps \subseteq Nat \ {0} /\ MemCap \in Nat  BY EndStoreAssumption DEF EndStoreAssumption
<1>b. Types /\ Cardinality(Stored(ended)) <= MemCap /\ Cardinality(Stored(disk)) <= DiskCap
  BY DEF EndIInv, EndTypeOK, Types
<1>1. Submit(t)  BY DEF SessionEnded
<1>2. HeldOp' /\ LoopManned' /\ NoStrandedOp' /\ FlagOwned'  BY <1>1, SubmitStep
<1>3. ended' \in [Keys -> Stamps \cup {0}] /\ Cardinality(Stored(ended')) <= MemCap
      /\ endOps' \in Seq(Op) /\ decided' \in [Keys -> {"none", "record", "lift"}]
  <2>1. CASE ended[k] = 0 /\ Cardinality(Stored(ended)) >= MemCap
    BY <2>1, <1>b DEF SessionEnded, Types
  <2>2. CASE ~(ended[k] = 0 /\ Cardinality(Stored(ended)) >= MemCap)
    <3>1. /\ ended' = [ended EXCEPT ![k] = stamp]
          /\ endOps' = Append(endOps, [op |-> "record", key |-> k, at |-> stamp])
          /\ decided' = [decided EXCEPT ![k] = "record"]
      BY <2>2 DEF SessionEnded
    <3>2. ended[k] \in Nat /\ stamp \in Stamps
      <4>1. ended[k] \in Stamps \cup {0} /\ time \in Nat \ {0}  BY <1>a, <1>b DEF Types
      <4>2. CASE ended[k] = 0  BY <4>1, <4>2 DEF Larger
      <4>3. CASE ended[k] # 0  BY <4>1, <4>3, <1>a DEF Larger
      <4> QED  BY <4>2, <4>3
    <3>3. Cardinality(Stored(ended)) \in Nat /\ Cardinality(Stored(ended')) \in Nat
      BY StoredFinite
    <3>4. /\ Cardinality(Stored(ended')) <= Cardinality(Stored(ended)) + 1
          /\ ended[k] > 0 => Cardinality(Stored(ended')) <= Cardinality(Stored(ended))
      BY <1>b, <3>1, StoredSet DEF Types
    <3>5. Cardinality(Stored(ended')) <= MemCap  BY <1>a, <1>b, <2>2, <3>2, <3>3, <3>4
    <3>6. [op |-> "record", key |-> k, at |-> stamp] \in Op  BY <3>2 DEF Op
    <3> QED  BY <1>b, <3>1, <3>2, <3>5, <3>6 DEF Types
  <2> QED  BY <2>1, <2>2
<1>4. EndTypeOK'  BY <1>b, <1>1, <1>3, SubmitStep DEF EndTypeOK, Types
<1> QED  BY <1>2, <1>4 DEF EndIInv

\* A session in use lifts its mark or leaves it.
LEMMA InUseStep ==
  ASSUME EndIInv, NEW t \in Threads, NEW k \in Keys, NEW time \in Stamps, NEW started \in BOOLEAN,
         SessionInUse(t, k, time, started)
  PROVE  EndIInv'
<1>b. Types /\ Cardinality(Stored(ended)) <= MemCap /\ Cardinality(Stored(disk)) <= DiskCap
  BY DEF EndIInv, EndTypeOK, Types
<1>1. Submit(t)  BY DEF SessionInUse
<1>2. HeldOp' /\ LoopManned' /\ NoStrandedOp' /\ FlagOwned'  BY <1>1, SubmitStep
<1>3. ended' \in [Keys -> Stamps \cup {0}] /\ Cardinality(Stored(ended')) <= MemCap
  <2>1. CASE Lifts(k, time)
    <3>1. ended' = [ended EXCEPT ![k] = 0]  BY <2>1 DEF SessionInUse
    <3>2. Cardinality(Stored(ended')) <= Cardinality(Stored(ended))
      BY <1>b, <3>1, StoredDropped DEF Types
    <3>3. Cardinality(Stored(ended)) \in Nat /\ Cardinality(Stored(ended')) \in Nat
          /\ MemCap \in Nat
      BY StoredFinite, EndStoreAssumption DEF EndStoreAssumption
    <3> QED  BY <1>b, <3>1, <3>2, <3>3 DEF Types
  <2>2. CASE ~Lifts(k, time)
    <3>1. ended' = ended  BY <2>2, <1>b DEF SessionInUse, Types
    <3> QED  BY <3>1, <1>b DEF Types
  <2> QED  BY <2>1, <2>2
<1>4. endOps' \in Seq(Op) /\ decided' \in [Keys -> {"none", "record", "lift"}]
  <2>1. [op |-> "lift", key |-> k, at |-> 0] \in Op  BY DEF Op
  <2>2. \/ UNCHANGED <<endOps, decided>>
        \/ /\ endOps' = Append(endOps, [op |-> "lift", key |-> k, at |-> 0])
           /\ decided' = [decided EXCEPT ![k] = "lift"]
    BY DEF SessionInUse
  <2>3. endOps \in Seq(Op) /\ decided \in [Keys -> {"none", "record", "lift"}]
    BY <1>b DEF Types
  <2>4. CASE UNCHANGED <<endOps, decided>>  BY <2>3, <2>4
  <2>5. CASE endOps' = Append(endOps, [op |-> "lift", key |-> k, at |-> 0])
             /\ decided' = [decided EXCEPT ![k] = "lift"]
    <3>1. endOps' \in Seq(Op)  BY <2>1, <2>3, <2>5
    <3>2. decided' \in [Keys -> {"none", "record", "lift"}]  BY <2>3, <2>5
    <3> QED  BY <3>1, <3>2
  <2> QED  BY <2>2, <2>4, <2>5
<1>5. EndTypeOK'  BY <1>b, <1>1, <1>3, <1>4, SubmitStep DEF EndTypeOK, Types
<1> QED  BY <1>2, <1>5 DEF EndIInv

-----------------------------------------------------------------------------
\* A step of the drain. None of them touches the marks in memory.
LEMMA DrainStep ==
  ASSUME EndIInv, NEW t \in Threads, Drain(t)
  PROVE  EndIInv'
<1>a. Types /\ Cardinality(Stored(ended)) <= MemCap /\ Cardinality(Stored(disk)) <= DiskCap
  BY DEF EndIInv, EndTypeOK, Types
<1>b. pc \in [Threads -> {"idle", "flush", "pop", "write", "finally"}]  BY <1>a DEF Types
<1>c. HeldOp /\ LoopManned /\ NoStrandedOp /\ FlagOwned  BY DEF EndIInv
<1> USE <1>b
<1>1. CASE EnterFlush(t)
  <2> USE <1>1 DEF EnterFlush
  <2>1. EndTypeOK'  BY <1>a DEF EndTypeOK, Types
  <2>2. HeldOp'  BY <1>c DEF HeldOp
  <2>3. LoopManned'  BY <1>c DEF LoopManned
  <2>4. NoStrandedOp'
    <3>1. CASE flushing  BY <3>1, <1>c DEF LoopManned, NoStrandedOp
    <3>2. CASE ~flushing  BY <3>2 DEF NoStrandedOp
    <3> QED  BY <3>1, <3>2
  <2>5. FlagOwned'  BY <1>c DEF FlagOwned
  <2> QED  BY <2>1, <2>2, <2>3, <2>4, <2>5 DEF EndIInv
<1>2. CASE PopOp(t)
  <2> USE <1>2 DEF PopOp
  <2>1. CASE endOps = <<>>
    <3>1. EndTypeOK'  BY <2>1, <1>a DEF EndTypeOK, Types
    <3>2. HeldOp'  BY <2>1, <1>c DEF HeldOp
    <3>3. LoopManned' /\ NoStrandedOp' /\ FlagOwned'
      BY <2>1 DEF LoopManned, NoStrandedOp, FlagOwned
    <3> QED  BY <3>1, <3>2, <3>3 DEF EndIInv
  <2>2. CASE endOps # <<>>
    <3>1. Head(endOps) \in Op /\ Tail(endOps) \in Seq(Op)  BY <2>2, <1>a DEF Types
    <3>2. EndTypeOK'  BY <2>2, <3>1, <1>a DEF EndTypeOK, Types
    <3>3. HeldOp'  BY <2>2, <3>1, <1>a, <1>c DEF HeldOp, Types
    <3>4. LoopManned' /\ NoStrandedOp' /\ FlagOwned'
      BY <2>2, <1>c DEF LoopManned, NoStrandedOp, FlagOwned
    <3> QED  BY <3>2, <3>3, <3>4 DEF EndIInv
  <2> QED  BY <2>1, <2>2
<1>3. CASE WriteOp(t)
  <2> USE <1>3 DEF WriteOp
  <2>1. held[t] \in Op  BY <1>c DEF HeldOp
  <2>2. disk' \in [Keys -> Stamps \cup {0}] /\ Cardinality(Stored(disk')) <= DiskCap
    <3>1. CASE disk' \in Written(held[t])  BY <3>1, <2>1, <1>a, WrittenSafe
    <3>2. CASE disk' = disk  BY <3>2, <1>a DEF Types
    <3> QED  BY <3>1, <3>2
  <2>3. EndTypeOK'  BY <2>2, <1>a DEF EndTypeOK, Types
  <2>4. HeldOp'  BY <1>a, <1>c DEF HeldOp, Types
  <2>5. LoopManned' /\ NoStrandedOp' /\ FlagOwned'
    BY <1>c DEF LoopManned, NoStrandedOp, FlagOwned
  <2> QED  BY <2>3, <2>4, <2>5 DEF EndIInv
<1>4. CASE WriteRaises(t)
  <2> USE <1>4 DEF WriteRaises
  <2>1. EndTypeOK'  BY <1>a DEF EndTypeOK, Types
  <2>2. HeldOp'  BY <1>a, <1>c DEF HeldOp, Types
  <2>3. LoopManned' /\ NoStrandedOp' /\ FlagOwned'
    BY DEF LoopManned, NoStrandedOp, FlagOwned
  <2> QED  BY <2>1, <2>2, <2>3 DEF EndIInv
<1>5. CASE Finally(t)
  <2> USE <1>5 DEF Finally
  <2>1. EndTypeOK'  BY <1>a DEF EndTypeOK, Types
  <2>2. HeldOp'  BY <1>c DEF HeldOp
  <2>3. LoopManned' /\ NoStrandedOp' /\ FlagOwned'
    BY <1>c DEF LoopManned, NoStrandedOp, FlagOwned
  <2> QED  BY <2>1, <2>2, <2>3 DEF EndIInv
<1> QED  BY <1>1, <1>2, <1>3, <1>4, <1>5 DEF Drain

\* A restart comes back with the file alone.
LEMMA RestartStep ==
  ASSUME EndIInv, Restart PROVE EndIInv'
<1>1. Types /\ Cardinality(Stored(disk)) <= DiskCap  BY DEF EndIInv, EndTypeOK, Types
<1>2. Stored(ended') = {}  BY DEF Restart, Idle, Stored
<1>3. Cardinality(Stored(ended')) <= MemCap
  BY <1>2, FS_EmptySet, EndStoreAssumption DEF EndStoreAssumption
<1>4. <<>> \in Seq(Op)  OBVIOUS
<1>5. EndTypeOK'
  <2>1. Types'
    <3>1. ended' \in [Keys -> Stamps \cup {0}]  BY DEF Restart, Idle
    <3>2. /\ pc' \in [Threads -> {"idle", "flush", "pop", "write", "finally"}]
          /\ held' \in [Threads -> Op \cup {NoOp}]
          /\ decided' \in [Keys -> {"none", "record", "lift"}]
      BY DEF Restart
    <3>3. endOps' \in Seq(Op) /\ flushing' \in BOOLEAN /\ raised' \in BOOLEAN
      BY <1>4 DEF Restart
    <3>4. events' \in Nat /\ restarts' \in Nat /\ disk' \in [Keys -> Stamps \cup {0}]
      BY <1>1 DEF Restart, Types
    <3> QED  BY <3>1, <3>2, <3>3, <3>4 DEF Types
  <2>2. Cardinality(Stored(disk')) <= DiskCap  BY <1>1 DEF Restart
  <2> QED  BY <1>3, <2>1, <2>2 DEF EndTypeOK, Types
<1>6. HeldOp' /\ LoopManned' /\ NoStrandedOp' /\ FlagOwned'
  BY DEF Restart, HeldOp, LoopManned, NoStrandedOp, FlagOwned
<1> QED  BY <1>5, <1>6 DEF EndIInv

\* A mark dropped from memory frees room there and leaves the drain alone.
LEMMA ForgetStep ==
  ASSUME EndIInv, NEW k \in Keys, ForgetMark(k) PROVE EndIInv'
<1>1. Types /\ ended \in [Keys -> Stamps \cup {0}]  BY DEF EndIInv, EndTypeOK, Types
<1>2. ended' = [ended EXCEPT ![k] = 0]  BY DEF ForgetMark
<1>3. Cardinality(Stored(ended')) <= Cardinality(Stored(ended))
  BY <1>1, <1>2, StoredDropped
<1>4. /\ Cardinality(Stored(ended)) \in Nat /\ Cardinality(Stored(ended')) \in Nat
      /\ MemCap \in Nat /\ Cardinality(Stored(ended)) <= MemCap
  BY StoredFinite, EndStoreAssumption DEF EndStoreAssumption, EndIInv, EndTypeOK
<1>5. Cardinality(Stored(ended')) <= MemCap  BY <1>3, <1>4
<1>6. UNCHANGED <<endOps, flushing, pc, held, disk, decided, raised, events, restarts>>
  BY DEF ForgetMark
<1>7. ended' \in [Keys -> Stamps \cup {0}]  BY <1>1, <1>2
<1>8. EndTypeOK'  BY <1>5, <1>6, <1>7 DEF EndIInv, EndTypeOK, Stored
<1>9. HeldOp' /\ LoopManned' /\ NoStrandedOp' /\ FlagOwned'
  BY <1>6 DEF EndIInv, HeldOp, LoopManned, NoStrandedOp, FlagOwned
<1> QED  BY <1>8, <1>9 DEF EndIInv

\* Every step of the system, and the stutter.
LEMMA EndNextIInv == EndIInv /\ [EndNext]_endVars => EndIInv'
<1> SUFFICES ASSUME EndIInv, [EndNext]_endVars PROVE EndIInv'  OBVIOUS
<1>1. ASSUME NEW t \in Threads, NEW k \in Keys, NEW time \in Stamps, SessionEnded(t, k, time)
      PROVE  EndIInv'
  BY <1>1, EndedStep
<1>2. ASSUME NEW t \in Threads, NEW k \in Keys, NEW time \in Stamps, NEW started \in BOOLEAN,
             SessionInUse(t, k, time, started)
      PROVE  EndIInv'
  BY <1>2, InUseStep
<1>3. ASSUME NEW t \in Threads, Drain(t) PROVE EndIInv'  BY <1>3, DrainStep
<1>4. CASE Restart \/ \E k \in Keys : ForgetMark(k)  BY <1>4, RestartStep, ForgetStep
<1>5. CASE UNCHANGED endVars
  BY <1>5 DEF endVars, EndIInv, EndTypeOK, HeldOp, LoopManned, NoStrandedOp, FlagOwned, Stored
<1> QED  BY <1>1, <1>2, <1>3, <1>4, <1>5 DEF EndNext
-----------------------------------------------------------------------------
\* The types and both caps hold, a queued write has a thread to reach it, and the
\* drain flag an owner, in every reachable state (_record, _flush_end_ops, ends.py).
THEOREM EndStoreSafe == EndSpec => [](EndTypeOK /\ NoStrandedOp /\ FlagOwned)
<1>1. EndIInv => EndTypeOK /\ NoStrandedOp /\ FlagOwned  BY DEF EndIInv
<1> QED  BY EndInitIInv, EndNextIInv, <1>1, PTL DEF EndSpec

\* In particular neither the memory nor the file outgrows its cap, whatever is refused,
\* dropped or redelivered (_mark_ended, ends._bounded).
THEOREM EndStoreTyped == EndSpec => []EndTypeOK
BY EndStoreSafe, PTL

\* Whatever is redelivered and in whatever order it is drained, a stamp on disk
\* only moves forward or is removed (ends.record, ends._bounded, ends.lift).
THEOREM StampsOnlyAdvance == EndSpec => EndNeverGoesBack
<1> DEFINE Ahead == \A k \in Keys : disk'[k] < disk[k] => disk'[k] = 0
<1>1. ASSUME EndIInv, EndNext PROVE Ahead \/ UNCHANGED disk
  <2>1. ASSUME NEW t \in Threads, WriteOp(t) PROVE Ahead \/ UNCHANGED disk
    <3>1. held[t] \in Op  BY <1>1, <2>1 DEF EndIInv, HeldOp, WriteOp
    <3>2. Types /\ Cardinality(Stored(disk)) <= DiskCap  BY <1>1 DEF EndIInv, EndTypeOK, Types
    <3> QED  BY <2>1, <3>1, <3>2, WrittenSafe DEF WriteOp
  <2>2. CASE \A t \in Threads : ~WriteOp(t)
    BY <2>2, <1>1 DEF EndNext, SessionEnded, SessionInUse, Submit, Drain, EnterFlush, PopOp,
                      WriteRaises, Finally, ForgetMark, Restart
  <2> QED  BY <2>1, <2>2
<1>2. EndIInv /\ [EndNext]_endVars => [Ahead]_disk  BY <1>1 DEF endVars
<1> QED  BY EndInitIInv, EndNextIInv, <1>2, PTL DEF EndSpec, EndNeverGoesBack
-----------------------------------------------------------------------------
Stages == {"idle", "capture", "probe", "want", "read", "publish", "mark"}
Holding == {"read", "publish"}

\* What the worker captured has happened, and once its own read is done the read
\* has taken it in.
Taken ==
  /\ \A s \in Lanes : observed[s] <= dirty[s]
  /\ at[Worker] = "publish" => \A s \in Lanes : observed[s] <= read[Worker].seen[s]
  /\ own => /\ at[Worker] = "mark"
            /\ \A s \in Lanes : observed[s] <= read[Worker].seen[s]

IInv == TypeOK /\ Taken
-----------------------------------------------------------------------------
\* The windows are naturals in their order, and no collector or lane has the name of
\* what is not one.
LEMMA Constants ==
  /\ Coalesce \in Nat /\ Memo \in Nat /\ Period \in Nat /\ Reconcile \in Nat
  /\ Coalesce <= Memo /\ Memo <= Period
  /\ None \notin Collectors /\ Worker \in Collectors /\ Store \notin Lanes
BY ObservationAssumption
DEF ObservationAssumption, None, Collectors, Worker, Store, Lanes, Ask

LEMMA InitIInv == Init => IInv
<1> SUFFICES ASSUME Init PROVE IInv  OBVIOUS
<1>1. TypeOK
  <2>1. /\ dirty \in [Lanes -> Nat] /\ collected \in [Lanes -> Nat]
        /\ observed \in [Lanes -> Nat] /\ stores \in Nat
    BY DEF Init
  <2>2. coalesce \in 0 .. Off /\ sinceCollect \in 0 .. Period /\ sinceReconcile \in 0 .. Reconcile
    BY Constants DEF Init, Off
  <2>3. /\ read \in [Collectors -> [seen: [Things -> Nat], gen: Nat]]
        /\ shown \in [Things -> Nat]
    BY DEF Init, Unread, Nothing
  <2>4. body \in [is: Bodies, age: 0 .. Memo]  BY Constants DEF Init, NoBody, Bodies
  <2>5. /\ at \in [Collectors -> Stages] /\ holder \in Collectors \cup {None}
        /\ \A p \in Collectors : holder = p <=> at[p] \in Holding
    BY Constants DEF Init, Stages, Holding
  <2> QED  BY <2>1, <2>2, <2>3, <2>4, <2>5 DEF Init, TypeOK, Stages, Holding
<1>2. Taken  BY <1>1, Constants DEF Init, Taken, TypeOK
<1> QED  BY <1>1, <1>2 DEF IInv

\* A collector that moves on outside the lock leaves the lock with its holder.
LEMMA Outside ==
  ASSUME TypeOK, NEW p \in Collectors, NEW stage \in Stages, Goes(p, stage),
         at[p] \notin Holding, stage \notin Holding, holder' = holder
  PROVE  /\ at' \in [Collectors -> Stages]
         /\ \A q \in Collectors : holder' = q <=> at'[q] \in Holding
BY DEF TypeOK, Goes, Stages, Holding

\* What one thread does to the lock: it takes it free, or lets its own go.
LEMMA Inside ==
  ASSUME TypeOK, NEW p \in Collectors, NEW stage \in Stages, Goes(p, stage),
         \/ holder = None /\ holder' = p /\ stage \in Holding
         \/ at[p] \in Holding /\ holder' = None /\ stage \notin Holding
         \/ at[p] \in Holding /\ holder' = holder /\ stage \in Holding
  PROVE  /\ at' \in [Collectors -> Stages] /\ holder' \in Collectors \cup {None}
         /\ \A q \in Collectors : holder' = q <=> at'[q] \in Holding
BY Constants DEF TypeOK, Goes, Stages, Holding

\* A step that moves nobody and only lets more happen.
LEMMA StillTaken ==
  ASSUME TypeOK, Taken, UNCHANGED <<at, read, own, observed>>, dirty' \in [Lanes -> Nat],
         \A s \in Lanes : dirty[s] <= dirty'[s]
  PROVE  Taken'
BY DEF TypeOK, Taken

\* A request thread's step is not the worker's.
LEMMA OtherTaken ==
  ASSUME TypeOK, Taken, UNCHANGED <<dirty, own, observed>>,
         at'[Worker] = at[Worker], read'[Worker] = read[Worker]
  PROVE  Taken'
BY DEF Taken

LEMMA EventKept ==
  ASSUME IInv, NEW h \in Harnesses, NEW alert \in BOOLEAN, NEW reconcile \in BOOLEAN,
         Event(h, alert, reconcile)
  PROVE  IInv'
<1>1. /\ dirty' = [dirty EXCEPT ![h] = @ + 1] /\ h \in Lanes
      /\ UNCHANGED <<collected, sinceCollect, reason, observed, got, own, stores, asking,
                     at, read, holder, body, generation, shown>>
  BY DEF Event, snapshot, Lanes
<1>2. /\ urgent' \in BOOLEAN /\ moved' \in BOOLEAN
      /\ coalesce' \in 0 .. Off /\ sinceReconcile' \in 0 .. Reconcile
  BY Constants DEF Event, IInv, TypeOK, Off
<1>3. dirty' \in [Lanes -> Nat] /\ \A s \in Lanes : dirty[s] <= dirty'[s]
  BY <1>1 DEF IInv, TypeOK
<1>4. TypeOK'  BY <1>1, <1>2, <1>3 DEF IInv, TypeOK
<1> QED  BY <1>1, <1>3, <1>4, StillTaken DEF IInv

\* The steps of the outside: a question, its end, a change, a clear and the clock.
LEMMA OutsideKept ==
  ASSUME IInv, Asked \/ AskSettled \/ StoreChanges \/ Clear \/ Tick
  PROVE  IInv'
<1>1. UNCHANGED <<collected, urgent, reason, observed, got, own, at, read, holder, shown>>
  BY DEF Asked, AskSettled, StoreChanges, Clear, Tick, memory, snapshot
<1>2. dirty' \in [Lanes -> Nat] /\ \A s \in Lanes : dirty[s] <= dirty'[s]
  <2>1. CASE Asked
    <3>1. dirty' = [dirty EXCEPT ![Ask] = @ + 1] /\ Ask \in Lanes  BY <2>1 DEF Asked, Lanes
    <3> QED  BY <3>1 DEF IInv, TypeOK
  <2>2. CASE dirty' = dirty  BY <2>2 DEF IInv, TypeOK
  <2> QED  BY <2>1, <2>2 DEF AskSettled, StoreChanges, Clear, Tick, memory
<1>3. body' \in [is: Bodies, age: 0 .. Memo] /\ generation' \in Nat
  <2>1. CASE body' = NoBody /\ generation' = generation + 1
    BY <2>1, Constants DEF NoBody, Bodies, IInv, TypeOK
  <2>2. CASE UNCHANGED <<body, generation>>  BY <2>2 DEF IInv, TypeOK
  <2>3. CASE Tick
    <3>1. body' = [body EXCEPT !.age = Least(@ + 1, Memo)] /\ generation' = generation
      BY <2>3 DEF Tick
    <3> QED  BY <3>1, Constants DEF Least, IInv, TypeOK
  <2> QED  BY <2>1, <2>2, <2>3 DEF Asked, AskSettled, StoreChanges, Clear, snapshot
<1>4. /\ coalesce' \in 0 .. Off /\ sinceCollect' \in 0 .. Period
      /\ sinceReconcile' \in 0 .. Reconcile
  <2>1. CASE Tick
    BY <2>1, Constants DEF Tick, Least, Off, IInv, TypeOK
  <2>2. CASE UNCHANGED <<coalesce, sinceCollect>> /\ sinceReconcile' \in {sinceReconcile, Reconcile}
    BY <2>2, Constants DEF IInv, TypeOK
  <2> QED  BY <2>1, <2>2 DEF Asked, AskSettled, StoreChanges, Clear, timers
<1>5. stores' \in Nat /\ moved' \in BOOLEAN /\ asking' \in BOOLEAN
  <2>1. stores' \in {stores, stores + 1}
    BY DEF Asked, AskSettled, StoreChanges, Clear, Tick
  <2>2. moved' \in {moved, TRUE} /\ asking' \in {asking, TRUE, FALSE}
    BY DEF Asked, AskSettled, StoreChanges, Clear, Tick, memory
  <2>3. stores' \in Nat  BY <2>1 DEF IInv, TypeOK
  <2>4. moved' \in BOOLEAN  BY <2>2 DEF IInv, TypeOK
  <2>5. asking' \in BOOLEAN  BY <2>2 DEF IInv, TypeOK
  <2> QED  BY <2>3, <2>4, <2>5
<1>6. TypeOK'
  BY <1>1, <1>2, <1>3, <1>4, <1>5 DEF IInv, TypeOK
<1> QED  BY <1>1, <1>2, <1>6, StillTaken DEF IInv

\* The worker up to its collection.
LEMMA DueKept == ASSUME IInv, Due PROVE IInv'
<1>1. /\ at[Worker] = "idle" /\ Goes(Worker, "capture") /\ reason' = Why
      /\ UNCHANGED <<timers, dirty, collected, moved, urgent, observed, got, own,
                     snapshot, stores, asking, read>>
  BY DEF Due
<1>2. reason' \in {None, "event", "ask", "tick"}  BY <1>1 DEF Why
<1>3. at' \in [Collectors -> Stages] /\ \A q \in Collectors : holder' = q <=> at'[q] \in Holding
  BY <1>1, Constants, Outside DEF IInv, Stages, Holding, snapshot
<1>4. TypeOK'  BY <1>1, <1>2, <1>3 DEF IInv, TypeOK, Stages, Holding, timers, snapshot
<1>5. at'[Worker] = "capture"  BY <1>1, Constants DEF Goes, IInv, TypeOK
<1>6. Taken'  BY <1>1, <1>5 DEF IInv, Taken
<1> QED  BY <1>4, <1>6 DEF IInv

LEMMA CaptureKept == ASSUME IInv, Capture PROVE IInv'
<1>0. PICK stage \in {"probe", "want"} : Goes(Worker, stage)
  BY DEF Capture, Captured
<1>1. /\ at[Worker] = "capture" /\ observed' = dirty /\ coalesce' = Off /\ urgent' = FALSE
      /\ UNCHANGED <<sinceCollect, sinceReconcile, dirty, collected, moved, reason, got, own,
                     snapshot, stores, asking, read>>
  BY DEF Capture, Captured
<1>2. at' \in [Collectors -> Stages] /\ \A q \in Collectors : holder' = q <=> at'[q] \in Holding
  BY <1>0, <1>1, Constants, Outside DEF IInv, Stages, Holding, snapshot
<1>3. coalesce' \in 0 .. Off  BY <1>1, Constants DEF Off
<1>4. TypeOK'  BY <1>1, <1>2, <1>3 DEF IInv, TypeOK, Stages, Holding, snapshot
<1>5. at'[Worker] = stage  BY <1>0, Constants DEF Goes, IInv, TypeOK
<1>6. Taken'  BY <1>1, <1>5 DEF IInv, Taken, TypeOK
<1> QED  BY <1>4, <1>6 DEF IInv

LEMMA ProbeKept == ASSUME IInv, Probe PROVE IInv'
<1>0. PICK stage \in {"idle", "want"} : Goes(Worker, stage)
  BY DEF Probe
<1>1. /\ at[Worker] = "probe" /\ moved' = FALSE
      /\ sinceReconcile' \in {sinceReconcile, 0}
      /\ \/ UNCHANGED <<sinceCollect, reason, observed>>
         \/ sinceCollect' = 0 /\ reason' = None /\ observed' = [s \in Lanes |-> 0]
      /\ UNCHANGED <<coalesce, dirty, collected, urgent, got, own, snapshot,
                     stores, asking, read>>
  BY DEF Probe, Dropped
<1>2. at' \in [Collectors -> Stages] /\ \A q \in Collectors : holder' = q <=> at'[q] \in Holding
  BY <1>0, <1>1, Constants, Outside DEF IInv, Stages, Holding, snapshot
<1>3. /\ sinceCollect' \in 0 .. Period /\ sinceReconcile' \in 0 .. Reconcile
      /\ reason' \in {None, "event", "ask", "tick"} /\ observed' \in [Lanes -> Nat]
  BY <1>1, Constants DEF IInv, TypeOK
<1>4. TypeOK'  BY <1>1, <1>2, <1>3 DEF IInv, TypeOK, Stages, Holding, snapshot
<1>5. at'[Worker] = stage  BY <1>0, Constants DEF Goes, IInv, TypeOK
<1>6. Taken'  BY <1>1, <1>5 DEF IInv, Taken, TypeOK
<1> QED  BY <1>4, <1>6 DEF IInv

\* A collection: the worker's or a request's, in the same steps.
LEMMA GetKept == ASSUME IInv, NEW p \in Collectors, Get(p) PROVE IInv'
<1>1. /\ p # Worker /\ at[p] = "idle" /\ Goes(p, "want")
      /\ UNCHANGED <<timers, memory, snapshot, stores, asking, read>>
  BY DEF Get
<1>2. at' \in [Collectors -> Stages] /\ \A q \in Collectors : holder' = q <=> at'[q] \in Holding
  BY <1>1, Outside DEF IInv, Stages, Holding, snapshot
<1>3. TypeOK'  BY <1>1, <1>2 DEF IInv, TypeOK, Stages, Holding, snapshot, memory, timers
<1>4. at'[Worker] = at[Worker]  BY <1>1, Constants DEF Goes, IInv, TypeOK
<1> QED  BY <1>1, <1>3, <1>4, OtherTaken DEF IInv, memory

LEMMA ReuseKept == ASSUME IInv, NEW p \in Collectors, Reuse(p) PROVE IInv'
<1>1. /\ at[p] = "want" /\ Goes(p, After(p)) /\ After(p) \in {"mark", "idle"}
      /\ UNCHANGED <<timers, dirty, collected, moved, urgent, reason, observed, own, holder,
                     generation, shown, stores, asking, read>>
  BY DEF Reuse, After
<1>2. at' \in [Collectors -> Stages] /\ \A q \in Collectors : holder' = q <=> at'[q] \in Holding
  BY <1>1, Outside DEF IInv, Stages, Holding
<1>3. got' \in {None, "last", "now"} /\ body' \in [is: Bodies, age: 0 .. Memo]
  BY DEF Reuse, Bodies, IInv, TypeOK
<1>4. TypeOK'  BY <1>1, <1>2, <1>3 DEF IInv, TypeOK, Stages, Holding, timers
<1>5. at'[Worker] = at[Worker] \/ (at[Worker] = "want" /\ at'[Worker] \notin Holding)
  BY <1>1, Constants DEF Goes, IInv, TypeOK, Holding
<1>6. Taken'  BY <1>1, <1>5 DEF IInv, Taken, Holding
<1> QED  BY <1>4, <1>6 DEF IInv

LEMMA LockKept == ASSUME IInv, NEW p \in Collectors, Lock(p) PROVE IInv'
<1>1. /\ at[p] = "want" /\ Goes(p, "read") /\ holder = None /\ holder' = p
      /\ read' = [read EXCEPT ![p].gen = generation]
      /\ UNCHANGED <<timers, memory, body, generation, shown, stores, asking>>
  BY DEF Lock
<1>2. /\ at' \in [Collectors -> Stages] /\ holder' \in Collectors \cup {None}
      /\ \A q \in Collectors : holder' = q <=> at'[q] \in Holding
  BY <1>1, Inside DEF IInv, Stages, Holding
<1>3. /\ read' \in [Collectors -> [seen: [Things -> Nat], gen: Nat]]
      /\ read'[Worker].seen = read[Worker].seen
  BY <1>1, Constants DEF IInv, TypeOK
<1>4. TypeOK'  BY <1>1, <1>2, <1>3 DEF IInv, TypeOK, Stages, Holding, timers, memory
<1>5. at'[Worker] = at[Worker] \/ (at[Worker] = "want" /\ at'[Worker] = "read")
  BY <1>1, Constants DEF Goes, IInv, TypeOK
<1>6. Taken'  BY <1>1, <1>3, <1>5 DEF IInv, Taken, memory
<1> QED  BY <1>4, <1>6 DEF IInv

\* The read takes in whatever has happened, and so whatever was captured.
LEMMA ReadKept == ASSUME IInv, NEW p \in Collectors, Read(p) PROVE IInv'
<1>1. /\ at[p] = "read" /\ Goes(p, "publish")
      /\ read' = [read EXCEPT ![p].seen = [x \in Things |-> Happened(x)]]
      /\ UNCHANGED <<timers, memory, snapshot, stores, asking>>
  BY DEF Read
<1>2. /\ at' \in [Collectors -> Stages] /\ holder' \in Collectors \cup {None}
      /\ \A q \in Collectors : holder' = q <=> at'[q] \in Holding
  BY <1>1, Inside DEF IInv, Stages, Holding, snapshot
<1>3. [x \in Things |-> Happened(x)] \in [Things -> Nat]
  BY DEF Happened, Things, IInv, TypeOK
<1>4. read' \in [Collectors -> [seen: [Things -> Nat], gen: Nat]]
  BY <1>1, <1>3 DEF IInv, TypeOK
<1>5. TypeOK'  BY <1>1, <1>2, <1>4 DEF IInv, TypeOK, Stages, Holding, timers, memory, snapshot
<1>6. CASE p = Worker
  <2>1. own = FALSE  BY <1>1, <1>6 DEF IInv, Taken, TypeOK
  <2>2. read'[Worker].seen = [x \in Things |-> Happened(x)]
    BY <1>1, <1>3, <1>6, Constants DEF IInv, TypeOK
  <2>3. \A s \in Lanes : read'[Worker].seen[s] = dirty[s]
    BY <2>2, Constants DEF Happened, Things
  <2>4. at'[Worker] = "publish"  BY <1>1, <1>6, Constants DEF Goes, IInv, TypeOK
  <2> QED  BY <1>1, <1>5, <2>1, <2>3, <2>4 DEF IInv, Taken, memory
<1>7. CASE p # Worker
  <2>1. at'[Worker] = at[Worker] /\ read'[Worker] = read[Worker]
    BY <1>1, <1>7, Constants DEF Goes, IInv, TypeOK
  <2> QED  BY <1>1, <1>5, <2>1, OtherTaken DEF IInv, memory
<1> QED  BY <1>6, <1>7

LEMMA ReadFailsKept == ASSUME IInv, NEW p \in Collectors, ReadFails(p) PROVE IInv'
<1>1. /\ at[p] = "read" /\ Goes(p, "idle") /\ holder' = None
      /\ read' = [read EXCEPT ![p] = Unread]
      /\ \/ UNCHANGED <<sinceCollect, reason, observed>>
         \/ /\ p = Worker /\ sinceCollect' = 0 /\ reason' = None
            /\ observed' = [s \in Lanes |-> 0]
      /\ UNCHANGED <<coalesce, sinceReconcile, dirty, collected, moved, urgent, got, own, body,
                     generation, shown, stores, asking>>
  BY DEF ReadFails, Raised, Dropped
<1>2. /\ at' \in [Collectors -> Stages] /\ holder' \in Collectors \cup {None}
      /\ \A q \in Collectors : holder' = q <=> at'[q] \in Holding
  BY <1>1, Inside DEF IInv, Stages, Holding
<1>3. /\ read' \in [Collectors -> [seen: [Things -> Nat], gen: Nat]]
      /\ sinceCollect' \in 0 .. Period /\ reason' \in {None, "event", "ask", "tick"}
      /\ observed' \in [Lanes -> Nat]
  BY <1>1, Constants DEF Unread, Nothing, IInv, TypeOK
<1>4. TypeOK'  BY <1>1, <1>2, <1>3 DEF IInv, TypeOK, Stages, Holding
<1>5. CASE p = Worker
  <2>1. own = FALSE  BY <1>1, <1>5 DEF IInv, Taken, TypeOK
  <2>2. at'[Worker] = "idle"  BY <1>1, <1>5, Constants DEF Goes, IInv, TypeOK
  <2>3. \A s \in Lanes : observed'[s] <= dirty[s]  BY <1>1 DEF IInv, Taken, TypeOK
  <2> QED  BY <1>1, <1>4, <2>1, <2>2, <2>3 DEF IInv, Taken
<1>6. CASE p # Worker
  <2>1. at'[Worker] = at[Worker] /\ read'[Worker] = read[Worker]
    BY <1>1, <1>6, Constants DEF Goes, IInv, TypeOK
  <2> QED  BY <1>1, <1>4, <1>6, <2>1, OtherTaken DEF IInv
<1> QED  BY <1>5, <1>6

LEMMA PublishKept == ASSUME IInv, NEW p \in Collectors, Publish(p) PROVE IInv'
<1>1. /\ at[p] = "publish" /\ Goes(p, After(p)) /\ holder' = None
      /\ After(p) \in {"mark", "idle"}
      /\ UNCHANGED <<timers, dirty, collected, moved, urgent, reason, observed,
                     generation, stores, asking>>
  BY DEF Publish, After
<1>2. /\ at' \in [Collectors -> Stages] /\ holder' \in Collectors \cup {None}
      /\ \A q \in Collectors : holder' = q <=> at'[q] \in Holding
  BY <1>1, Inside DEF IInv, Stages, Holding
<1>3. body' \in [is: Bodies, age: 0 .. Memo] /\ shown' \in [Things -> Nat]
  <2>1. CASE UNCHANGED <<body, shown>>  BY <2>1 DEF IInv, TypeOK
  <2>2. CASE /\ body' = [is |-> IF p = Worker THEN "now" ELSE "other", age |-> 0]
             /\ shown' = [x \in Things |-> Later(shown[x], read[p].seen[x])]
    <3>1. body' \in [is: Bodies, age: 0 .. Memo]  BY <2>2, Constants DEF Bodies
    <3>2. \A x \in Things : Later(shown[x], read[p].seen[x]) \in Nat
      BY DEF Later, IInv, TypeOK
    <3> QED  BY <2>2, <3>1, <3>2
  <2> QED  BY <2>1, <2>2 DEF Publish
<1>4. CASE p = Worker
  <2>1. got' = "now" /\ own' = TRUE /\ read' = read  BY <1>4 DEF Publish
  <2>2. TypeOK'  BY <1>1, <1>2, <1>3, <2>1 DEF IInv, TypeOK, Stages, Holding, timers
  <2>3. at'[Worker] = "mark"  BY <1>1, <1>4, Constants DEF Goes, After, IInv, TypeOK
  <2>4. Taken'  BY <1>1, <1>4, <2>1, <2>3 DEF IInv, Taken
  <2> QED  BY <2>2, <2>4 DEF IInv
<1>5. CASE p # Worker
  <2>1. got' = got /\ own' = own /\ read' = [read EXCEPT ![p] = Unread]  BY <1>5 DEF Publish
  <2>2. read' \in [Collectors -> [seen: [Things -> Nat], gen: Nat]]
    BY <2>1 DEF Unread, Nothing, IInv, TypeOK
  <2>3. TypeOK'  BY <1>1, <1>2, <1>3, <2>1, <2>2 DEF IInv, TypeOK, Stages, Holding, timers
  <2>4. at'[Worker] = at[Worker] /\ read'[Worker] = read[Worker]
    BY <1>1, <1>5, <2>1, Constants DEF Goes, IInv, TypeOK
  <2> QED  BY <1>1, <2>1, <2>3, <2>4, OtherTaken DEF IInv
<1> QED  BY <1>4, <1>5

LEMMA MarkKept == ASSUME IInv, Mark PROVE IInv'
<1>1. /\ at[Worker] = "mark" /\ Goes(Worker, "idle") /\ own' = FALSE /\ got' = None
      /\ reason' = None /\ observed' = [s \in Lanes |-> 0]
      /\ read' = [read EXCEPT ![Worker] = Unread]
      /\ collected' \in {collected, observed}
      /\ sinceCollect' = 0 /\ coalesce' \in {coalesce, Memo}
      /\ body' = [body EXCEPT !.is = IF @ = got /\ @ # None THEN "last"
                                     ELSE IF @ = "last" THEN "other" ELSE @]
      /\ UNCHANGED <<sinceReconcile, dirty, moved, urgent, holder, generation, shown, stores,
                     asking>>
  BY DEF Mark, Leaves, Dropped
<1>2. at' \in [Collectors -> Stages] /\ \A q \in Collectors : holder' = q <=> at'[q] \in Holding
  BY <1>1, Constants, Outside DEF IInv, Stages, Holding
<1>3. /\ read' \in [Collectors -> [seen: [Things -> Nat], gen: Nat]]
      /\ collected' \in [Lanes -> Nat] /\ observed' \in [Lanes -> Nat]
      /\ sinceCollect' \in 0 .. Period /\ coalesce' \in 0 .. Off
  BY <1>1, Constants DEF Unread, Nothing, Off, IInv, TypeOK
<1>4. body' \in [is: Bodies, age: 0 .. Memo]  BY <1>1 DEF Bodies, IInv, TypeOK
<1>5. TypeOK'  BY <1>1, <1>2, <1>3, <1>4 DEF IInv, TypeOK, Stages, Holding
<1>6. at'[Worker] = "idle"  BY <1>1, Constants DEF Goes, IInv, TypeOK
<1>7. Taken'  BY <1>1, <1>6 DEF IInv, Taken, TypeOK
<1> QED  BY <1>5, <1>7 DEF IInv

LEMMA NextIInv == IInv /\ [Next]_vars => IInv'
<1> SUFFICES ASSUME IInv, [Next]_vars PROVE IInv'  OBVIOUS
<1>1. CASE UNCHANGED vars
  BY <1>1 DEF vars, timers, memory, snapshot, IInv, TypeOK, Taken
<1> QED
  BY <1>1, EventKept, OutsideKept, DueKept, CaptureKept, ProbeKept, GetKept, ReuseKept, LockKept,
     ReadKept, ReadFailsKept, PublishKept, MarkKept
  DEF Next, Collection
-----------------------------------------------------------------------------
\* The types, the timers within their windows, and one holder of the collect lock
\* however a collection ends (collect_json's with).
THEOREM CoordinatorTyped == Spec => []TypeOK
<1> QED  BY InitIInv, NextIInv, PTL DEF Spec, IInv

\* What retires a generation is the end of _collect, and after a collection of the
\* worker's own its read took that generation in: what arrived since stays dirty.
THEOREM RetiredOnlyRead == Spec => RetiredWhenRead
<1>1. IInv /\ [Next]_vars =>
        [\A s \in Lanes : collected'[s] # collected[s] /\ own
            => collected'[s] <= read[Worker].seen[s]]_collected
  <2> SUFFICES ASSUME IInv, [Next]_vars, collected' # collected, own, NEW s \in Lanes
               PROVE  collected'[s] # collected[s] => collected'[s] <= read[Worker].seen[s]
    OBVIOUS
  <2>1. Mark
    BY DEF Next, Collection, vars, Event, Asked, AskSettled, StoreChanges, Clear, Tick, Due,
           Capture, Captured, Probe, Get, Reuse, Lock, Read, ReadFails, Raised, Publish, memory
  <2> QED  BY <2>1 DEF Mark, IInv, Taken
<1> QED  BY <1>1, InitIInv, NextIInv, PTL DEF Spec, RetiredWhenRead
=============================================================================
