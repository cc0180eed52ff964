---------------------------- MODULE Unasked_proofs ----------------------------
(***************************************************************************)
(* The unasked lane for every number of sessions, jobs, readings, restarts *)
(* and either cap: the types, one unasked reading on the board, one reading *)
(* of a session while no slot was given back under its holder, and the     *)
(* spend the caps bound. Three parts of one inductive invariant, each with *)
(* its own lemma: who holds the lane, who holds a session's slot, and how  *)
(* old the counts of a claim may be.                                       *)
(***************************************************************************)
EXTENDS Unasked, TLAPS

\* The lane's slot is one session's, and whoever reads or claims is it.
Lane ==
  /\ \A s, t \in inflight : s = t
  /\ \A s \in Sessions : worker[s] # "idle" => s \in inflight
  /\ coll.at \in {"slot", "spawn", "lane_back"}
       => coll.s \in inflight /\ worker[coll.s] = "idle"
  /\ coll.at = "spawn" => coll.started

\* Where nobody gave back another's slot, it has at most one holder, and is taken
\* while it has one.
Slots ==
  \A s \in Sessions \ stolen : /\ \A a, b \in Holders(s) : a = b
                               /\ Holders(s) # {} => s \in slot

SomeoneReads == \E s \in Sessions : worker[s] = "reading"

\* A claim counts from a copy that at most one reading is missing from: the one that
\* was under way.
Counted ==
  /\ \A s \in Sessions : /\ landed[s] <= checks[s] /\ landed[s] <= SessionCap + 1
                         /\ worker[s] = "reading" => landed[s] <= SessionCap
  /\ spent <= today /\ spent <= DailyCap + 1
  /\ SomeoneReads => spent <= DailyCap
Copied ==
  /\ coll.at \in {"gate", "slot"} => coll.stored.loaded /\ ~coll.started
  /\ coll.stored.loaded /\ ~coll.started =>
       /\ \A s \in Sessions : /\ landed[s] <= coll.stored.mine[s] + 1
                              /\ worker[s] = "reading" => landed[s] <= coll.stored.mine[s]
       /\ spent <= coll.stored.today + 1
       /\ SomeoneReads => spent <= coll.stored.today
  /\ coll.at \in {"slot", "spawn"} => landed[coll.s] <= SessionCap /\ spent <= DailyCap

IInv == TypeOK /\ Lane /\ Slots /\ Counted /\ Copied
-----------------------------------------------------------------------------
\* Nothing is read, claimed or counted at the start.
LEMMA InitIInv == Init => IInv
<1> SUFFICES ASSUME Init PROVE IInv  OBVIOUS
<1> USE UnaskedAssumption DEF UnaskedAssumption, Init, NoColl, NotLoaded
<1>1. TypeOK  BY DEF TypeOK, Colls, CollAt
<1>2. Lane  BY DEF Lane
<1>3. Slots  BY DEF Slots, Holders, Reading
<1>4. Counted /\ Copied  BY DEF Counted, Copied, SomeoneReads
<1> QED  BY <1>1, <1>2, <1>3, <1>4 DEF IInv

\* No collection: nothing is claimed and nothing was counted.
LEMMA NoCollTyped == /\ NoColl \in Colls /\ NoColl.s = None /\ NoColl.at = "idle"
                     /\ ~NoColl.stored.loaded
BY DEF NoColl, NotLoaded, Colls, CollAt

\* A claim of a session's slot starts the reading or is refused it.
LEMMA TakeSlotMoves ==
  ASSUME coll \in Colls, TakeSlot
  PROVE  /\ coll'.stored = coll.stored /\ coll'.s = coll.s
         /\ \/ coll'.at = "lane_back" /\ coll'.started = coll.started
            \/ coll'.at = "spawn" /\ coll'.started
<1>1. CASE coll' = [coll EXCEPT !.at = "lane_back"]  BY <1>1 DEF Colls
<1>2. CASE coll' = [coll EXCEPT !.at = "spawn", !.started = TRUE]  BY <1>2 DEF Colls
<1> QED  BY <1>1, <1>2 DEF TakeSlot

LEMMA CollTyped ==
  ASSUME TypeOK, [Next]_vars
  PROVE  coll' \in Colls /\ (coll'.s = None <=> coll'.at \in {"idle", "rows"})
<1>0. /\ coll \in Colls /\ (coll.s = None <=> coll.at \in {"idle", "rows"})
      /\ worded \subseteq Sessions /\ checks \in [Sessions -> Nat] /\ today \in Nat
  BY DEF TypeOK
<1>0a. None \notin Sessions  BY UnaskedAssumption DEF UnaskedAssumption
<1>1. CASE UNCHANGED coll  BY <1>0, <1>1
<1>2. ASSUME NEW s \in Sessions, Row(s)
      PROVE  coll' \in Colls /\ (coll'.s = None <=> coll'.at \in {"idle", "rows"})
  <2>1. CASE coll' = [Considered EXCEPT !.left = @ \ {s}]
    BY <1>0, <2>1 DEF Considered, Colls, CollAt
  <2>2. CASE coll' = [coll EXCEPT !.left = @ \ {s}, !.at = "gate", !.s = s,
                                  !.stored = IF @.loaded THEN @ ELSE Counts]
    <3>1. Counts \in [loaded: BOOLEAN, mine: [Sessions -> Nat], today: Nat]
      BY <1>0 DEF Counts
    <3> QED  BY <1>0, <1>0a, <2>2, <3>1 DEF Colls, CollAt
  <2> QED  BY <1>2, <2>1, <2>2 DEF Row
<1>3. CASE Begin
  BY <1>0, <1>3 DEF Begin, NoColl, NotLoaded, Colls, CollAt
<1>4. CASE coll' = NoColl  BY <1>4 DEF NoColl, NotLoaded, Colls, CollAt
<1>5. CASE Gate  BY <1>0, <1>5 DEF Gate, Considered, Colls, CollAt
<1>6. CASE TakeSlot  BY <1>0, <1>6 DEF TakeSlot, Colls, CollAt
<1>7. CASE coll' = Considered  BY <1>0, <1>7 DEF Considered, Colls, CollAt
<1>8. CASE SpawnFails \/ CollLaneBack  BY <1>0, <1>8 DEF SpawnFails, CollLaneBack, Colls, CollAt
<1> QED  BY <1>1, <1>2, <1>3, <1>4, <1>5, <1>6, <1>7, <1>8
         DEF Next, vars, Edit, Check, Withheld, LaneBack, SlotBack, Press, End, Publish, Spawn,
             CollSlotBack, DayPasses, Drops, Restart

LEMMA Typed == ASSUME TypeOK, [Next]_vars PROVE TypeOK'
<1>0. coll' \in Colls /\ (coll'.s = None <=> coll'.at \in {"idle", "rows"})  BY CollTyped
<1>a. coll.s \in Sessions \cup {None}  BY DEF TypeOK, Colls
<1> USE DEF TypeOK, slots, store, threads, history
<1>1. ASSUME NEW s \in Sessions, Edit(s) \/ Row(s) PROVE TypeOK'  BY <1>0, <1>1 DEF Edit, Row
<1>2. ASSUME NEW s \in Sessions, Check(s) PROVE TypeOK'
  <2>1. \A found \in BOOLEAN : Rows(found) \subseteq Nat
    BY UnaskedAssumption DEF UnaskedAssumption, Rows
  <2> QED  BY <1>0, <1>2, <2>1 DEF Check
<1>3. ASSUME NEW s \in Sessions, Withheld(s) \/ LaneBack(s) PROVE TypeOK'
  BY <1>0, <1>3 DEF Withheld, LaneBack
<1>4. ASSUME NEW s \in Sessions, SlotBack(s) PROVE TypeOK'  BY <1>0, <1>4 DEF SlotBack, Release
<1>5. ASSUME NEW j \in Jobs, Press(j) \/ End(j) PROVE TypeOK'
  <2>1. SessionOf[j] \in Sessions  BY UnaskedAssumption DEF UnaskedAssumption
  <2> QED  BY <1>0, <1>5, <2>1 DEF Press, End
<1>6. CASE Begin \/ Publish \/ Gate  BY <1>0, <1>a, <1>6 DEF Begin, Publish, Gate
<1>7. CASE TakeSlot \/ Spawn  BY <1>0, <1>a, <1>7 DEF TakeSlot, Spawn
<1>8. CASE SpawnFails \/ CollLaneBack  BY <1>0, <1>8 DEF SpawnFails, CollLaneBack
<1>9. CASE CollSlotBack  BY <1>0, <1>a, <1>9 DEF CollSlotBack, Release
<1>10. CASE DayPasses
  <2>1. spent' \in Nat /\ today' \in Nat  BY <1>10 DEF DayPasses
  <2> QED  BY <1>0, <1>10, <2>1 DEF DayPasses
<1>13. ASSUME NEW s \in Sessions, Drops(s) PROVE TypeOK'
  <2>1. landed' \in [Sessions -> Nat] /\ landed'[s] \in Nat  BY <1>13 DEF Drops
  <2>2. \A n \in landed'[s] .. checks[s] - 1 : n \in Nat  BY <2>1
  <2>3. checks' \in [Sessions -> Nat]  BY <1>13, <2>2 DEF Drops
  <2> QED  BY <1>0, <1>13, <2>1, <2>3 DEF Drops
<1>11. CASE Restart  BY <1>0, <1>11 DEF Restart, Reading
<1>12. CASE UNCHANGED vars  BY <1>12 DEF vars
<1> QED  BY <1>1, <1>2, <1>3, <1>4, <1>5, <1>6, <1>7, <1>8, <1>9, <1>10, <1>11, <1>12,
         <1>13 DEF Next

-----------------------------------------------------------------------------
\* The lane's slot is taken only when nobody has it, and given back by the one that
\* has it.
LEMMA LaneKept == ASSUME TypeOK, Lane, [Next]_vars PROVE Lane'
<1>0. /\ coll \in Colls /\ (coll.s = None <=> coll.at \in {"idle", "rows"})
      /\ inflight \subseteq Sessions
      /\ worker \in [Sessions -> {"idle", "reading", "lane_back"}]
  BY DEF TypeOK
<1>a. coll.at \in {"gate", "slot", "spawn", "lane_back"} => coll.s \in Sessions
  BY <1>0 DEF Colls
<1> USE DEF Lane
<1>1. CASE UNCHANGED <<inflight, worker, coll>>  BY <1>1
<1>2. ASSUME UNCHANGED <<inflight, worker>>, coll'.at \in {"idle", "rows", "gate"} PROVE Lane'
  BY <1>2
<1>3. CASE Gate  BY <1>0, <1>a, <1>3 DEF Gate, MayClaim, Considered, Colls, threads
<1>4. CASE TakeSlot
  <2>1. /\ coll.at = "slot" /\ coll'.s = coll.s /\ coll'.at \in {"lane_back", "spawn"}
        /\ coll'.at = "spawn" => coll'.started
    BY <1>0, <1>4, TakeSlotMoves DEF TakeSlot
  <2>2. UNCHANGED <<inflight, worker>>  BY <1>4 DEF TakeSlot, threads
  <2> QED  BY <2>1, <2>2
<1>5. CASE Spawn
  <2>1. coll'.at = "rows" /\ inflight' = inflight /\ coll.at = "spawn"
    BY <1>0, <1>5 DEF Spawn, Considered, Colls
  <2>2. worker' = [worker EXCEPT ![coll.s] = "reading"] /\ coll.s \in inflight
    BY <1>5, <2>1 DEF Spawn
  <2> QED  BY <1>0, <2>1, <2>2
<1>6. CASE SpawnFails  BY <1>0, <1>6 DEF SpawnFails, Colls, threads
<1>7. CASE CollLaneBack  BY <1>0, <1>a, <1>7 DEF CollLaneBack, Colls, threads
<1>8. ASSUME NEW s \in Sessions, Check(s) \/ Withheld(s) PROVE Lane'
  BY <1>0, <1>8 DEF Check, Withheld, threads
<1>9. ASSUME NEW s \in Sessions, LaneBack(s) PROVE Lane'  BY <1>0, <1>a, <1>9 DEF LaneBack
<1>10. CASE Restart  BY <1>10 DEF Restart, NoColl
<1>11. ASSUME NEW s \in Sessions, Row(s) PROVE Lane'
  <2>1. coll'.at \in {"rows", "gate"}  BY <1>0, <1>11 DEF Row, Considered, Colls
  <2> QED  BY <1>2, <1>11, <2>1 DEF Row, threads
<1>12. CASE Begin \/ Publish \/ CollSlotBack
  <2>1. coll'.at \in {"idle", "rows"}
    BY <1>0, <1>12, NoCollTyped DEF Begin, Publish, CollSlotBack, Considered, Colls
  <2> QED  BY <1>2, <1>12, <2>1 DEF Begin, Publish, CollSlotBack, threads
<1> QED  BY <1>1, <1>3, <1>4, <1>5, <1>6, <1>7, <1>8, <1>9, <1>10, <1>11, <1>12
         DEF Next, vars, Edit, SlotBack, Press, End, DayPasses, Drops, threads

-----------------------------------------------------------------------------
\* A slot is taken only while nobody holds it; one given back by its holder has no
\* other holder, and one given back under its holder is stolen.
LEMMA SlotsKept == ASSUME TypeOK, Lane, Slots, [Next]_vars PROVE Slots'
<1>0. /\ coll \in Colls /\ (coll.s = None <=> coll.at \in {"idle", "rows"})
      /\ worker \in [Sessions -> {"idle", "reading", "lane_back"}]
      /\ job \in [Jobs -> {"new", "reading", "done"}]
      /\ slot \subseteq Sessions /\ stolen \subseteq Sessions
  BY DEF TypeOK
<1>a. SessionOf \in [Jobs -> Sessions] /\ None \notin Sessions
      /\ "worker" \notin Jobs /\ "collection" \notin Jobs
  BY UnaskedAssumption DEF UnaskedAssumption
<1> SUFFICES ASSUME NEW s \in Sessions, s \notin stolen'
             PROVE  /\ \A a, b \in Holders(s)' : a = b
                    /\ Holders(s)' # {} => s \in slot'
  BY DEF Slots
<1>b. \A x : x \in Holders(s) <=> \/ x \in Jobs /\ SessionOf[x] = s /\ job[x] = "reading"
                                  \/ x = "worker" /\ worker[s] # "idle"
                                  \/ x = "collection" /\ coll.s = s /\ coll.started
  BY DEF Holders, Reading
<1>c. \A x : x \in Holders(s)' <=> \/ x \in Jobs /\ SessionOf[x] = s /\ job'[x] = "reading"
                                   \/ x = "worker" /\ worker'[s] # "idle"
                                   \/ x = "collection" /\ coll'.s = s /\ coll'.started
  BY DEF Holders, Reading
<1> DEFINE Goal == /\ \A a, b \in Holders(s)' : a = b
                   /\ Holders(s)' # {} => s \in slot'
<1>d. s \notin stolen /\ Holders(s)' \subseteq Holders(s) /\ (s \in slot => s \in slot') => Goal
  BY DEF Slots
<1> SUFFICES Goal  BY DEF Goal
<1> HIDE DEF Goal
<1>1. CASE UNCHANGED <<slot, stolen, worker, job, coll>>
  <2>1. Holders(s)' \subseteq Holders(s)  BY <1>1, <1>b, <1>c
  <2> QED  BY <1>1, <1>d, <2>1 DEF Goal
<1>2. ASSUME UNCHANGED <<slot, stolen, worker, job>>,
             coll'.s = s /\ coll'.started => coll.s = s /\ coll.started
      PROVE  Goal
  <2>1. Holders(s)' \subseteq Holders(s)  BY <1>2, <1>b, <1>c
  <2> QED  BY <1>2, <1>d, <2>1
<1>3. CASE Begin \/ Publish
  <2>1. coll'.s = None  BY <1>3, NoCollTyped DEF Begin, Publish, Colls
  <2> QED  BY <1>2, <1>3, <1>a, <2>1 DEF Begin, Publish, threads, slots
<1>4. ASSUME NEW r \in Sessions, Row(r) PROVE Goal
  <2>1. coll'.s = None \/ ~coll'.started  BY <1>0, <1>4 DEF Row, Considered, Colls
  <2> QED  BY <1>2, <1>4, <1>a, <2>1 DEF Row, threads, slots
<1>5. CASE Gate
  <2>1. coll'.s = None \/ (coll'.s = coll.s /\ coll'.started = coll.started)
    BY <1>0, <1>5 DEF Gate, Considered, Colls
  <2> QED  BY <1>2, <1>5, <1>a, <2>1 DEF Gate, threads, slots
<1>6. CASE SpawnFails \/ CollLaneBack
  <2>1. coll'.s = coll.s /\ coll'.started = coll.started
    BY <1>0, <1>6 DEF SpawnFails, CollLaneBack, Colls
  <2> QED  BY <1>2, <1>6, <2>1 DEF SpawnFails, CollLaneBack, threads, slots
<1>7. CASE TakeSlot
  <2>1. CASE coll.s \in slot
    <3>1. coll'.s = coll.s /\ coll'.started = coll.started
      BY <1>0, <1>7, <2>1 DEF TakeSlot, Colls
    <3> QED  BY <1>2, <1>7, <2>1, <3>1 DEF TakeSlot, threads
  <2>2. CASE coll.s \notin slot
    <3> /\ coll' = [coll EXCEPT !.at = "spawn", !.started = TRUE] /\ slot' = slot \cup {coll.s}
        /\ UNCHANGED <<stolen, worker, job>>
      BY <1>7, <2>2 DEF TakeSlot, threads
    <3>1. CASE s = coll.s
      <4>1. Holders(s) = {}  BY <2>2, <3>1 DEF Slots
      <4>2. \A x : x \in Holders(s)' => x = "collection"  BY <4>1, <1>b, <1>c
      <4> QED  BY <3>1, <4>2 DEF Goal
    <3>2. CASE s # coll.s
      <4>1. coll'.s # s  BY <1>0, <3>2 DEF Colls
      <4>2. Holders(s)' \subseteq Holders(s)  BY <4>1, <1>b, <1>c
      <4> QED  BY <4>2, <1>d
    <3> QED  BY <3>1, <3>2
  <2> QED  BY <2>1, <2>2
<1>8. CASE Spawn
  <2>1. /\ coll'.s = None /\ UNCHANGED <<slot, stolen, job>>
        /\ worker' = [worker EXCEPT ![coll.s] = "reading"] /\ coll.at = "spawn"
    BY <1>0, <1>8 DEF Spawn, Considered, Colls, slots
  <2>2. CASE s = coll.s
    <3>0. coll.started  BY <2>1 DEF Lane
    <3>1. "collection" \in Holders(s)  BY <1>b, <2>2, <3>0
    <3>2. s \notin stolen  BY <2>1
    <3>3. \A x \in Holders(s) : x = "collection"  BY <3>1, <3>2 DEF Slots
    <3>4. \A x \in Jobs : ~(SessionOf[x] = s /\ job[x] = "reading")  BY <3>3, <1>b, <1>a
    <3>5. \A x : x \in Holders(s)' => x = "worker"  BY <3>4, <1>c, <1>a, <2>1
    <3>6. s \in slot  BY <3>1, <3>2 DEF Slots
    <3> QED  BY <3>5, <3>6, <2>1 DEF Goal
  <2>3. CASE s # coll.s
    <3>1. worker'[s] = worker[s]  BY <1>0, <2>1, <2>3
    <3>2. Holders(s)' \subseteq Holders(s)  BY <3>1, <2>1, <1>b, <1>c, <1>a
    <3> QED  BY <3>2, <2>1, <1>d
  <2> QED  BY <2>2, <2>3
<1>9. CASE CollSlotBack
  <2>1. /\ coll'.s = None /\ UNCHANGED <<worker, job>> /\ slot' = slot \ {coll.s}
        /\ stolen' = IF Holders(coll.s) \ {"collection"} # {} THEN stolen \cup {coll.s} ELSE stolen
    BY <1>0, <1>9 DEF CollSlotBack, Considered, Colls, Release, threads
  <2>2. Holders(s)' \subseteq Holders(s) \ {"collection"}  BY <2>1, <1>b, <1>c, <1>a
  <2>3. CASE s = coll.s
    <3>1. Holders(s) \ {"collection"} = {}  BY <2>1, <2>3
    <3> QED  BY <2>2, <3>1 DEF Goal
  <2>4. CASE s # coll.s
    <3>1. s \notin stolen  BY <2>1
    <3> QED  BY <2>1, <2>2, <2>4, <3>1, <1>d
  <2> QED  BY <2>3, <2>4
<1>10. ASSUME NEW r \in Sessions, Check(r) \/ Withheld(r) \/ LaneBack(r) PROVE Goal
  <2>1. /\ UNCHANGED <<slot, stolen, job, coll>> /\ worker[r] # "idle"
        /\ \E to \in {"lane_back", "idle"} : worker' = [worker EXCEPT ![r] = to]
    BY <1>10 DEF Check, Withheld, LaneBack, slots
  <2>2. worker'[s] # "idle" => worker[s] # "idle"  BY <1>0, <2>1
  <2>3. Holders(s)' \subseteq Holders(s)  BY <2>1, <2>2, <1>b, <1>c
  <2> QED  BY <2>1, <2>3, <1>d
<1>11. ASSUME NEW r \in Sessions, SlotBack(r) PROVE Goal
  <2>1. /\ UNCHANGED <<worker, job, coll>> /\ slot' = slot \ {r}
        /\ stolen' = IF Holders(r) \ {} # {} THEN stolen \cup {r} ELSE stolen
    BY <1>11 DEF SlotBack, Release
  <2>2. Holders(s)' = Holders(s)  BY <2>1 DEF Holders, Reading
  <2>3. CASE s = r  BY <2>1, <2>2, <2>3 DEF Goal
  <2>4. CASE s # r
    <3>1. s \notin stolen  BY <2>1
    <3> QED  BY <2>1, <2>2, <2>4, <3>1, <1>d
  <2> QED  BY <2>3, <2>4
<1>12. ASSUME NEW j \in Jobs, Press(j) PROVE Goal
  <2>1. /\ UNCHANGED <<worker, coll, stolen>> /\ job' = [job EXCEPT ![j] = "reading"]
        /\ slot' = slot \cup {SessionOf[j]} /\ SessionOf[j] \notin slot
    BY <1>12 DEF Press, Free, threads
  <2>2. CASE SessionOf[j] = s
    <3>1. Holders(s) = {}  BY <2>1, <2>2 DEF Slots
    <3>2. \A x : x \in Holders(s)' => x = j  BY <3>1, <2>1, <1>0, <1>b, <1>c
    <3> QED  BY <2>1, <2>2, <3>2 DEF Goal
  <2>3. CASE SessionOf[j] # s
    <3>1. Holders(s)' \subseteq Holders(s)  BY <2>1, <2>3, <1>0, <1>b, <1>c
    <3> QED  BY <2>1, <3>1, <1>d
  <2> QED  BY <2>2, <2>3
<1>13. ASSUME NEW j \in Jobs, End(j) PROVE Goal
  <2>1. /\ UNCHANGED <<worker, coll, stolen>> /\ job' = [job EXCEPT ![j] = "done"]
        /\ slot' = slot \ {SessionOf[j]} /\ job[j] = "reading"
    BY <1>13 DEF End, Reading, threads
  <2>2. Holders(s)' \subseteq Holders(s)  BY <2>1, <1>0, <1>b, <1>c
  <2>3. CASE SessionOf[j] = s
    <3>1. j \in Holders(s) /\ j \notin Holders(s)'  BY <2>1, <2>3, <1>0, <1>a, <1>b, <1>c
    <3>2. Holders(s)' = {}  BY <2>1, <2>2, <3>1 DEF Slots
    <3> QED  BY <3>2 DEF Goal
  <2>4. CASE SessionOf[j] # s  BY <2>1, <2>2, <2>4, <1>d
  <2> QED  BY <2>3, <2>4
<1>14. CASE Restart
  <2>1. Holders(s)' = {}
    BY <1>0, <1>14, <1>a, <1>c DEF Restart, NoColl, Reading
  <2> QED  BY <2>1 DEF Goal
<1> QED
  BY <1>1, <1>3, <1>4, <1>5, <1>6, <1>7, <1>8, <1>9, <1>10, <1>11, <1>12, <1>13, <1>14
     DEF Next, vars, Edit, DayPasses, Drops, slots, threads

-----------------------------------------------------------------------------
\* A reading under way is the lane's only one, so at most one row is missing from any
\* copy, and the copy a claim counts is that one short at most.
LEMMA CountedKept ==
  ASSUME TypeOK, Lane, Counted, Copied, [Next]_vars, TypeOK', Lane'
  PROVE  Counted' /\ Copied'
<1>0. /\ coll \in Colls /\ (coll.s = None <=> coll.at \in {"idle", "rows"})
      /\ checks \in [Sessions -> Nat] /\ today \in Nat /\ landed \in [Sessions -> Nat]
      /\ worker \in [Sessions -> {"idle", "reading", "lane_back"}]
      /\ spent \in Nat /\ SessionCap \in Nat /\ DailyCap \in Nat /\ Criteria \in Nat \ {0}
  BY UnaskedAssumption DEF TypeOK, UnaskedAssumption
<1>a. \A s \in Sessions : coll.stored.mine[s] \in Nat
  BY <1>0 DEF Colls
<1>b. coll.stored.today \in Nat  BY <1>0 DEF Colls
<1>c. \A s \in Sessions : checks[s] \in Nat  BY <1>0
<1> DEFINE Fewer == \A s \in Sessions : worker'[s] = "reading" => worker[s] = "reading"
<1>d. SomeoneReads' /\ Fewer => SomeoneReads  BY DEF SomeoneReads
<1>1. CASE UNCHANGED <<checks, today, landed, spent, worker, coll>>
  BY <1>1 DEF Counted, Copied, SomeoneReads
<1>2. ASSUME UNCHANGED <<checks, today, landed, spent>>, Fewer PROVE Counted'
  BY <1>2, <1>d DEF Counted
\* A step of the collection that reads, claims and starts nothing.
<1>3. ASSUME UNCHANGED <<checks, today, landed, spent, worker>>,
             coll'.stored = coll.stored, coll'.started = coll.started,
             coll'.at \notin {"gate", "slot", "spawn"}
      PROVE  Counted' /\ Copied'
  BY <1>2, <1>3 DEF Copied, SomeoneReads
<1>4. CASE Begin \/ Publish
  <2>1. ~coll'.stored.loaded /\ coll'.at \in {"idle", "rows"}
    BY <1>4, NoCollTyped DEF Begin, Publish, Colls
  <2>2. UNCHANGED <<checks, today, landed, spent, worker>>
    BY <1>4 DEF Begin, Publish, threads, store, history
  <2> QED  BY <1>2, <2>1, <2>2 DEF Copied
<1>5. ASSUME NEW s \in Sessions, Row(s) PROVE Counted' /\ Copied'
  <2>1. UNCHANGED <<checks, today, landed, spent, worker>>  BY <1>5 DEF Row, threads, store, history
  <2>2. CASE coll' = [Considered EXCEPT !.left = @ \ {s}]
    <3>1. coll'.stored = coll.stored /\ coll'.started = coll.started /\ coll'.at = "rows"
      BY <1>0, <2>2 DEF Considered, Colls
    <3> QED  BY <1>3, <2>1, <3>1
  <2>3. CASE /\ ~coll.started
             /\ coll' = [coll EXCEPT !.left = @ \ {s}, !.at = "gate", !.s = s,
                                     !.stored = IF @.loaded THEN @ ELSE Counts]
    <3>1. /\ coll'.stored = (IF coll.stored.loaded THEN coll.stored ELSE Counts)
          /\ coll'.started = coll.started /\ coll'.at = "gate"
      BY <1>0, <2>3 DEF Colls
    <3>2. CASE coll.stored.loaded
      <4>1. coll'.stored = coll.stored  BY <3>1, <3>2
      <4> QED  BY <1>2, <2>1, <2>3, <3>1, <3>2, <4>1 DEF Copied, SomeoneReads
    <3>3. CASE ~coll.stored.loaded
      <4>1. /\ coll'.stored.loaded /\ coll'.stored.mine = checks /\ coll'.stored.today = today
        BY <3>1, <3>3 DEF Counts
      <4>2. \A t \in Sessions : landed[t] \in Nat /\ landed[t] <= checks[t]
        BY <1>0 DEF Counted
      <4>3. Copied'
        BY <1>0, <1>c, <2>1, <2>3, <3>1, <4>1, <4>2 DEF Copied, Counted, SomeoneReads
      <4> QED  BY <1>2, <2>1, <4>3
    <3> QED  BY <3>2, <3>3
  <2> QED  BY <1>5, <2>2, <2>3 DEF Row
<1>6. CASE Gate
  <2>1. UNCHANGED <<checks, today, landed, spent, worker>> /\ coll.at = "gate"
    BY <1>6 DEF Gate, threads, store, history
  <2>2. CASE coll' = Considered
    <3>1. coll'.stored = coll.stored /\ coll'.started = coll.started /\ coll'.at = "rows"
      BY <1>0, <2>2 DEF Considered, Colls
    <3> QED  BY <1>3, <2>1, <3>1
  <2>3. CASE MayClaim(coll.s) /\ coll' = [coll EXCEPT !.at = "slot"]
    <3>1. coll'.stored = coll.stored /\ coll'.started = coll.started /\ coll'.s = coll.s
      BY <1>0, <2>3 DEF Colls
    <3>2. coll.s \in Sessions  BY <1>0, <2>1 DEF Colls
    <3>3. landed[coll.s] <= SessionCap /\ spent <= DailyCap
      BY <1>0, <1>a, <1>b, <1>c, <2>1, <2>3, <3>2 DEF MayClaim, Copied
    <3>4. coll'.at = "slot"  BY <1>0, <2>3 DEF Colls
    <3>5. Copied'  BY <2>1, <3>1, <3>3, <3>4 DEF Copied, SomeoneReads
    <3> QED  BY <1>2, <2>1, <3>5
  <2> QED  BY <1>6, <2>2, <2>3 DEF Gate
<1>7. CASE TakeSlot
  <2>1. UNCHANGED <<checks, today, landed, spent, worker>> /\ coll.at = "slot"
    BY <1>7 DEF TakeSlot, threads, store, history
  <2>2. /\ coll'.stored = coll.stored /\ coll'.s = coll.s
        /\ \/ coll'.at = "lane_back" /\ coll'.started = coll.started
           \/ coll'.at = "spawn" /\ coll'.started
    BY <1>0, <1>7, TakeSlotMoves
  <2>3. Copied'  BY <2>1, <2>2 DEF Copied, SomeoneReads
  <2> QED  BY <1>2, <2>1, <2>3
<1>8. CASE Spawn
  <2>1. /\ UNCHANGED <<checks, today, landed, spent>> /\ coll.at = "spawn"
        /\ worker' = [worker EXCEPT ![coll.s] = "reading"]
    BY <1>8 DEF Spawn, store, history
  <2>2. /\ coll'.at = "rows" /\ coll'.started = coll.started
    BY <1>0, <1>8 DEF Spawn, Considered, Colls
  <2>3. coll.started  BY <2>1 DEF Lane
  <2>4. Copied'  BY <2>2, <2>3 DEF Copied
  <2>5. landed[coll.s] <= SessionCap /\ spent <= DailyCap  BY <2>1 DEF Copied
  <2>6. \A s \in Sessions : worker'[s] = "reading" => worker[s] = "reading" \/ s = coll.s
    BY <1>0, <2>1
  <2>7. Counted'  BY <2>1, <2>5, <2>6 DEF Counted, SomeoneReads
  <2> QED  BY <2>4, <2>7
<1>9. CASE SpawnFails \/ CollLaneBack
  <2>1. /\ UNCHANGED <<checks, today, landed, spent, worker>>
        /\ coll'.stored = coll.stored /\ coll'.started = coll.started
        /\ coll'.at \in {"lane_back", "slot_back"}
    BY <1>0, <1>9 DEF SpawnFails, CollLaneBack, Colls, threads, store, history
  <2> QED  BY <1>3, <2>1
<1>10. CASE CollSlotBack
  <2>1. /\ UNCHANGED <<checks, today, landed, spent, worker>>
        /\ coll'.stored = coll.stored /\ coll'.started = coll.started /\ coll'.at = "rows"
    BY <1>0, <1>10 DEF CollSlotBack, Considered, Colls, threads, store, history
  <2> QED  BY <1>3, <2>1
<1>11. ASSUME NEW s \in Sessions, Check(s) PROVE Counted' /\ Copied'
  <2>1. /\ UNCHANGED coll /\ worker[s] = "reading"
        /\ worker' = [worker EXCEPT ![s] = "lane_back"]
    BY <1>11 DEF Check
  <2>2. \A t \in Sessions : worker[t] # "idle" => t = s  BY <2>1 DEF Lane
  <2>3. \A t \in Sessions : worker'[t] # "reading"  BY <1>0, <2>1, <2>2
  <2>4. ~(coll.at \in {"slot", "spawn"})  BY <2>1, <2>2, <1>0 DEF Lane, Colls
  <2>5. CASE UNCHANGED <<checks, today, landed, spent>>
    BY <1>d, <2>1, <2>3, <2>4, <2>5 DEF Counted, Copied
  <2>6. ASSUME NEW n \in Nat \ {0}, checks' = [checks EXCEPT ![s] = @ + n], today' = today + n,
               landed' = [landed EXCEPT ![s] = @ + 1], spent' = spent + 1
        PROVE  Counted' /\ Copied'
    <3>1. SomeoneReads  BY <2>1 DEF SomeoneReads
    <3>2. \A t \in Sessions : /\ checks'[t] = IF t = s THEN checks[t] + n ELSE checks[t]
                              /\ landed'[t] = IF t = s THEN landed[t] + 1 ELSE landed[t]
      BY <1>0, <2>6
    <3>3. Counted'  BY <1>0, <1>c, <2>1, <2>3, <2>6, <3>1, <3>2 DEF Counted, SomeoneReads
    <3>4. Copied'
      BY <1>0, <1>a, <1>b, <1>c, <2>1, <2>3, <2>4, <2>6, <3>1, <3>2 DEF Copied, SomeoneReads
    <3> QED  BY <3>3, <3>4
  <2>7. \A found \in BOOLEAN : Rows(found) \subseteq Nat \ {0}  BY <1>0 DEF Rows
  <2> QED  BY <1>11, <2>5, <2>6, <2>7 DEF Check, history
<1>12. ASSUME NEW s \in Sessions, Withheld(s) \/ LaneBack(s) PROVE Counted' /\ Copied'
  <2>1. /\ UNCHANGED <<checks, today, landed, spent, coll>>
        /\ \E to \in {"lane_back", "idle"} : worker' = [worker EXCEPT ![s] = to]
    BY <1>12 DEF Withheld, LaneBack, store, history
  <2>2. Fewer  BY <1>0, <2>1
  <2> QED  BY <1>2, <1>d, <2>1, <2>2 DEF Copied
<1>13. CASE DayPasses
  <2>1. UNCHANGED <<checks, landed, worker, coll>> /\ spent' = spent - 1 /\ spent' <= today'
    BY <1>0, <1>13 DEF DayPasses, threads
  <2> QED  BY <1>0, <1>b, <2>1 DEF Counted, Copied, SomeoneReads
<1>15. ASSUME NEW s \in Sessions, Drops(s) PROVE Counted' /\ Copied'
  <2>1. /\ UNCHANGED <<today, spent, worker, coll>> /\ landed' = [landed EXCEPT ![s] = @ - 1]
        /\ \E n \in landed'[s] .. checks[s] - 1 : checks' = [checks EXCEPT ![s] = n]
    BY <1>15 DEF Drops, threads
  <2>2. \A t \in Sessions : landed'[t] <= landed[t] /\ landed'[t] <= checks'[t]
    BY <1>0, <2>1 DEF Counted
  <2>3. \A t \in Sessions : landed'[t] \in Int
    BY <1>0, <2>1
  <2> QED  BY <1>0, <1>a, <1>b, <2>1, <2>2, <2>3 DEF Counted, Copied, SomeoneReads, Colls
<1>14. CASE Restart
  <2>1. /\ UNCHANGED <<checks, today, landed, spent>> /\ coll' = NoColl
        /\ \A s \in Sessions : worker'[s] = "idle"
    BY <1>14 DEF Restart, store, history
  <2>2. ~coll'.stored.loaded /\ coll'.at = "idle"  BY <2>1, NoCollTyped
  <2> QED  BY <1>2, <2>1, <2>2 DEF Copied
<1> QED
  BY <1>1, <1>4, <1>5, <1>6, <1>7, <1>8, <1>9, <1>10, <1>11, <1>12, <1>13, <1>14, <1>15
     DEF Next, vars, Edit, SlotBack, Press, End, slots, threads, store, history

LEMMA NextIInv == IInv /\ [Next]_vars => IInv'
BY Typed, LaneKept, SlotsKept, CountedKept DEF IInv
-----------------------------------------------------------------------------
\* Every variable has its type, whatever fails and however often the dashboard restarts.
THEOREM UnaskedTyped == Spec => []TypeOK
<1>1. IInv => TypeOK  BY DEF IInv
<1> QED  BY InitIInv, NextIInv, <1>1, PTL DEF Spec

\* The board runs one unasked reading at a time (unasked.py, _claim and _release).
THEOREM OneUnaskedReading == Spec => []OneUnasked
<1>1. IInv => OneUnasked  BY DEF IInv, Lane, OneUnasked
<1> QED  BY InitIInv, NextIInv, <1>1, PTL DEF Spec

\* A session has one reading at a time, a reader's or the lane's, for as long as nobody
\* gave back a slot that was another's (reading.claim, release, start_job, end_job).
THEOREM OneReading == Spec => []SlotShared
<1>1. IInv => SlotShared
  <2>1. \A s \in Sessions : ReadingsOf(s) \subseteq Holders(s)  BY DEF ReadingsOf, Holders
  <2> QED  BY <2>1 DEF IInv, Slots, SlotShared
<1> QED  BY InitIInv, NextIInv, <1>1, PTL DEF Spec

\* The caps are passed by one reading at most: each session's, and the board's day.
THEOREM Bounded == Spec => []SpendBounded
<1>1. IInv => SpendBounded  BY DEF IInv, Counted, SpendBounded
<1> QED  BY InitIInv, NextIInv, <1>1, PTL DEF Spec
=============================================================================
