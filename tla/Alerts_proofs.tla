---------------------------- MODULE Alerts_proofs ----------------------------
(***************************************************************************)
(* For any sessions, request threads and floors: the types of Alerts, and  *)
(* that nothing learnt before a SessionEnd outlives it in either lane.     *)
(***************************************************************************)
EXTENDS Alerts, TLAPS

USE DismissalsAssumption, AlertsAssumption
    DEF DismissalsAssumption, AlertsAssumption, dismissals, session, hooks, floors

\* A notification under way samples its generation before its user record, so the two
\* are one; what a collection read is no older than the generations it sampled first.
Sampled ==
  /\ \A n \in Notices : notice[n].at = "apply" => notice[n].s \in Hooked
                                                  /\ notice[n].of = notice[n].gen
  /\ coll.at \in {"read", "retire", "judge"} => \A s \in Sessions : coll.gens[s] <= gen[s]
  /\ coll.at \in {"retire", "judge"} =>
       \A s \in Sessions : coll.gens[s] <= coll.rows[s].of /\ coll.rows[s].of <= gen[s]

IInv == TypeOK /\ Sampled /\ EndedStaysSilent

LEMMA InitIInv == Init => IInv
<1> SUFFICES ASSUME Init PROVE IInv  OBVIOUS
<1> USE DEF Init, DismissalsInit, NoMarks, Idle, NoColl, NoRow, NoNotice, Kinds
<1>1. DismissalsTyped  BY DEF DismissalsTyped, Marks
<1>2. coll \in [at: {"idle", "assign", "read", "retire", "judge"}, marks: Marks,
                gens: [Sessions -> Nat], rows: [Sessions -> Rows],
                left: SUBSET Sessions, clicked: BOOLEAN]
  BY DEF Marks, Rows
<1>3. TypeOK
  <2>1. since \in [Sessions -> 0..Cooldown] /\ floor \in 0..Floor
        /\ quietFor \in [Hooked -> 0..Working]
    OBVIOUS
  <2>2. notice \in [Notices -> [at: {"idle", "apply"}, s: Sessions \cup {None}, kind: Kinds,
                                user: Nat, gen: Nat, of: Nat]]
    OBVIOUS
  <2> QED  BY <1>1, <1>2, <2>1, <2>2 DEF TypeOK
<1>4. Sampled /\ EndedStaysSilent  BY DEF Sampled, EndedStaysSilent
<1> QED  BY <1>3, <1>4 DEF IInv
-----------------------------------------------------------------------------
\* A step that leaves generations, requests and the collection alone, and forgets at most.
LEMMA Aside ==
  ASSUME IInv, TypeOK', UNCHANGED <<gen, notice, coll>>,
         \A s \in Hooked : hook'[s] = hook[s] \/ hook'[s] = None,
         \A s \in Sessions : last'[s] = last[s] \/ last'[s] = None,
         "ended" \in raised' => "ended" \in raised
  PROVE  IInv'
BY DEF IInv, Sampled, EndedStaysSilent

\* The sessions, the hour and the clock.
LEMMA AskStep == ASSUME IInv, NEW s \in Sessions, Ask(s) PROVE IInv'
<1>1. DismissalsTyped'
  BY DEF IInv, TypeOK, DismissalsTyped, Ask, Writes
<1>2. post' \in [Hooked -> Kinds \cup {None}] /\ quietFor' \in [Hooked -> 0..Working]
  BY DEF IInv, TypeOK, Ask, Writes, Kinds
<1>3. TypeOK'  BY <1>1, <1>2 DEF IInv, TypeOK, Ask, Happens
<1> QED  BY <1>3, Aside DEF Ask

LEMMA AnswerStep == ASSUME IInv, NEW s \in Sessions, Answer(s) PROVE IInv'
<1>1. DismissalsTyped'
  BY DEF IInv, TypeOK, DismissalsTyped, Answer, Writes
<1>2. typed' \in [Hooked -> Nat] /\ quietFor' \in [Hooked -> 0..Working]
  BY DEF IInv, TypeOK, DismissalsTyped, Answer, Writes
<1>3. TypeOK'  BY <1>1, <1>2 DEF IInv, TypeOK, Answer, Happens
<1> QED  BY <1>3, Aside DEF Answer

LEMMA RepeatStep == ASSUME IInv, NEW s \in Sessions, Repeat(s) PROVE IInv'
<1>1. DismissalsTyped'  BY DEF IInv, TypeOK, DismissalsTyped, Repeat
<1>2. TypeOK'  BY <1>1 DEF IInv, TypeOK, Repeat, Happens, Kinds
<1> QED  BY <1>2, Aside DEF Repeat

LEMMA TickStep == ASSUME IInv, Tick PROVE IInv'
<1>1. DismissalsTyped'  BY DEF IInv, TypeOK, DismissalsTyped, Tick
<1>2. TypeOK'  BY <1>1 DEF IInv, TypeOK, Tick, Older
<1> QED  BY <1>2, Aside DEF Tick

LEMMA QuietStep == ASSUME IInv, QuietHours PROVE IInv'
<1>1. DismissalsTyped'  BY DEF IInv, TypeOK, DismissalsTyped, QuietHours
<1>2. TypeOK'  BY <1>1 DEF IInv, TypeOK, QuietHours, Happens
<1> QED  BY <1>2, Aside DEF QuietHours

\* A SessionEnd moves the generation on and forgets what was learnt under the old one.
LEMMA EndStep == ASSUME IInv, NEW s \in Sessions, End(s) PROVE IInv'
<1>1. DismissalsTyped'  BY DEF IInv, TypeOK, DismissalsTyped, End
<1>2. TypeOK'  BY <1>1 DEF IInv, TypeOK, End, Happens
<1>3. \A x \in Sessions : gen[x] <= gen'[x] /\ (x # s => gen'[x] = gen[x])
  BY DEF IInv, TypeOK, End
<1>4. Sampled'
  <2>1. UNCHANGED <<coll, notice>>  BY DEF End
  <2>2. coll.at \in {"read", "retire", "judge"} => \A x \in Sessions : coll.gens[x] <= gen'[x]
    BY <1>3 DEF End, IInv, Sampled, TypeOK
  <2>3. coll.at \in {"retire", "judge"} =>
          \A x \in Sessions : coll.gens[x] <= coll.rows[x].of /\ coll.rows[x].of <= gen'[x]
    BY <1>3 DEF End, IInv, Sampled, TypeOK, Rows
  <2> QED  BY <2>1, <2>2, <2>3 DEF IInv, Sampled
<1>5. EndedStaysSilent'
  <2>1. hook' = [hook EXCEPT ![s] = None] /\ last' = [last EXCEPT ![s] = None]
        /\ raised' = raised
    BY DEF End
  <2>2. \A x \in Hooked : hook'[x] # None => hook'[x].of = gen'[x]
    BY <1>3, <2>1 DEF IInv, TypeOK, EndedStaysSilent
  <2>3. \A x \in Sessions : last'[x] # None => last'[x].of = gen'[x]
    BY <1>3, <2>1 DEF IInv, TypeOK, EndedStaysSilent
  <2> QED  BY <2>1, <2>2, <2>3 DEF IInv, EndedStaysSilent
<1> QED  BY <1>2, <1>4, <1>5 DEF IInv
-----------------------------------------------------------------------------
\* The dismiss route touches marks, and of the collection only that a click landed.
LEMMA ClickStep ==
  ASSUME IInv, NEW s \in Sessions, NEW c \in Clicks, Click(c, s) PROVE IInv'
<1>1. DismissalsTyped'
  <2>1. CASE \E mark \in {0, writes[s]} : Hold(c, s, mark)
    <3>1. PICK mark \in {0, writes[s]} : Hold(c, s, mark)  BY <2>1
    <3>2. PICK marks \in Loads :
            LET kept == [marks EXCEPT ![s] = mark] IN
            /\ click' = [click EXCEPT ![c] = [at |-> "save", for |-> {s}, kept |-> kept]]
            /\ copy' = IF c \in Here THEN kept ELSE copy
      BY <3>1 DEF Hold
    <3>3. mark \in Nat /\ marks \in Marks
      BY <3>1, <3>2 DEF Loads, NoMarks, Marks, IInv, TypeOK, DismissalsTyped
    <3>4. [marks EXCEPT ![s] = mark] \in Marks  BY <3>3 DEF Marks
    <3>5. copy' \in Marks /\ click' \in [Clicks -> [at: {"idle", "save"}, for: SUBSET Sessions,
                                                    kept: Marks]]
      BY <3>2, <3>4 DEF IInv, TypeOK, DismissalsTyped
    <3>6. unsaved' \in Marks  BY <3>1 DEF Hold, IInv, TypeOK, DismissalsTyped, Marks
    <3> QED  BY <3>1, <3>5, <3>6 DEF Hold, IInv, TypeOK, DismissalsTyped
  <2>2. CASE Save(c, s)
    <3>1. click[c].kept \in Marks  BY DEF IInv, TypeOK, DismissalsTyped
    <3>2. file' \in Marks  BY <2>2, <3>1 DEF Save, IInv, TypeOK, DismissalsTyped
    <3>3. unsaved' \in Marks
      <4>1. click[c].kept[s] \in Nat  BY <3>1 DEF Marks
      <4> QED  BY <2>2, <4>1 DEF Save, IInv, TypeOK, DismissalsTyped, Marks
    <3>4. click' \in [Clicks -> [at: {"idle", "save"}, for: SUBSET Sessions, kept: Marks]]
      <4>1. Idle \in [at: {"idle", "save"}, for: SUBSET Sessions, kept: Marks]
        BY DEF Idle, NoMarks, Marks
      <4> QED  BY <2>2, <4>1 DEF Save, IInv, TypeOK, DismissalsTyped
    <3> QED  BY <2>2, <3>2, <3>3, <3>4 DEF Save, IInv, TypeOK, DismissalsTyped
  <2> QED  BY <2>1, <2>2 DEF Click
<1>2. events' \in Nat  BY DEF Click, Happens, IInv, TypeOK
<1>3. /\ coll' = [coll EXCEPT !.clicked = coll'.clicked]
      /\ coll'.clicked \in BOOLEAN
  BY DEF Click, IInv, TypeOK
<1>4. TypeOK'  BY <1>1, <1>2, <1>3 DEF Click, IInv, TypeOK
<1>5. coll'.at = coll.at /\ coll'.gens = coll.gens /\ coll'.rows = coll.rows
  BY <1>3 DEF IInv, TypeOK
<1>6. UNCHANGED <<gen, notice, hook, last, raised>>  BY DEF Click
<1>7. Sampled' /\ EndedStaysSilent'  BY <1>5, <1>6 DEF IInv, Sampled, EndedStaysSilent
<1> QED  BY <1>4, <1>7 DEF IInv
-----------------------------------------------------------------------------
\* The hook lane.
LEMMA ArriveStep ==
  ASSUME IInv, NEW s \in Sessions, NEW n \in Notices, Arrive(n, s) PROVE IInv'
<1> DEFINE r == [at |-> "apply", s |-> s, kind |-> post[s], user |-> typed[s],
                 gen |-> gen[s], of |-> gen[s]]
<1>1. s \in Hooked /\ notice' = [notice EXCEPT ![n] = r]  BY DEF Arrive
<1>2. r \in [at: {"idle", "apply"}, s: Sessions \cup {None}, kind: Kinds,
             user: Nat, gen: Nat, of: Nat]
  BY <1>1 DEF Arrive, IInv, TypeOK
<1>3. DismissalsTyped'  BY DEF IInv, TypeOK, DismissalsTyped, Arrive
<1>4. TypeOK'  BY <1>1, <1>2, <1>3 DEF Arrive, IInv, TypeOK
<1>5. \A m \in Notices : notice'[m].at = "apply" => notice'[m].s \in Hooked
                                                    /\ notice'[m].of = notice'[m].gen
  BY <1>1 DEF IInv, TypeOK, Sampled
<1>6. UNCHANGED <<gen, coll, hook, last, raised>>  BY DEF Arrive
<1>7. Sampled' /\ EndedStaysSilent'  BY <1>5, <1>6 DEF IInv, Sampled, EndedStaysSilent
<1> QED  BY <1>4, <1>7 DEF IInv

\* What a raise leaves, whoever makes it.
LEMMA RaiseTyped ==
  ASSUME IInv, NEW s \in Sessions, NEW wrong \in SUBSET {"ended", "hidden", "twice"},
         UNCHANGED asking, Raise(s, wrong) \/ Hush
  PROVE  /\ since' \in [Sessions -> 0..Cooldown] /\ floor' \in 0..Floor
         /\ rung' \subseteq Sessions /\ raised' \subseteq {"ended", "hidden", "twice"}
BY DEF IInv, TypeOK, Raise, Hush

LEMMA ApplyStep == ASSUME IInv, NEW n \in Notices, Apply(n) PROVE IInv'
<1> DEFINE r == notice[n]
           Free == /\ hook' = hook \/ hook' = [hook EXCEPT ![r.s] = None]
                      \/ /\ hook' = [hook EXCEPT ![r.s] = [user |-> r.user, of |-> r.of]]
                         /\ r.of = gen[r.s]
                   /\ last' = last \/ last' = [last EXCEPT ![r.s] = None]
<1>1. r.s \in Hooked /\ r.of = r.gen /\ r.s \in Sessions /\ r.user \in Nat /\ r.of \in Nat
  BY DEF IInv, TypeOK, Sampled, Apply
<1>2. /\ since' \in [Sessions -> 0..Cooldown] /\ floor' \in 0..Floor
      /\ rung' \subseteq Sessions /\ raised' \subseteq {"ended", "hidden", "twice"}
      /\ "ended" \in raised' => "ended" \in raised
      /\ said' \subseteq Sessions
  <2>1. CASE Superseded(r)  BY <2>1 DEF Apply, IInv, TypeOK
  <2>2. CASE ~Superseded(r) /\ Raise(r.s, Late(r.s, r.of)) /\ said' = said \cup {r.s}
    <3>1. Late(r.s, r.of) = {}  BY <1>1, <2>2 DEF Superseded, Late
    <3>2. asking' = asking  BY DEF Apply
    <3> QED  BY <1>1, <2>2, <3>1, <3>2, RaiseTyped DEF Raise, IInv, TypeOK
  <2>3. CASE ~Superseded(r) /\ Hush /\ UNCHANGED said  BY <2>3 DEF Hush, IInv, TypeOK
  <2> QED  BY <2>1, <2>2, <2>3 DEF Apply
<1>3. Free
  <2>1. CASE Superseded(r)  BY <2>1 DEF Apply
  <2>2. CASE ~Superseded(r)
    <3>1. r.of = gen[r.s]  BY <1>1, <2>2 DEF Superseded
    <3>2. Stored(r)  BY <2>2 DEF Apply
    <3> QED  BY <3>1, <3>2 DEF Stored
  <2> QED  BY <2>1, <2>2
<1>4. /\ hook' \in [Hooked -> [user: Nat, of: Nat] \cup {None}]
      /\ last' \in [Sessions -> [waits: BOOLEAN, of: Nat, told: BOOLEAN] \cup {None}]
  BY <1>1, <1>3 DEF IInv, TypeOK
<1>5. notice' = [notice EXCEPT ![n] = NoNotice]  BY DEF Apply
<1>6. notice' \in [Notices -> [at: {"idle", "apply"}, s: Sessions \cup {None}, kind: Kinds,
                               user: Nat, gen: Nat, of: Nat]]
  BY <1>5 DEF IInv, TypeOK, NoNotice, Kinds
<1>7. DismissalsTyped'  BY DEF IInv, TypeOK, DismissalsTyped, Apply
<1>8. TypeOK'  BY <1>2, <1>4, <1>6, <1>7 DEF Apply, IInv, TypeOK
<1>9. UNCHANGED <<gen, coll>>  BY DEF Apply
<1>10. Sampled'  BY <1>5, <1>9 DEF IInv, TypeOK, Sampled, NoNotice
<1>11. \A s \in Hooked : hook'[s] # None => hook'[s].of = gen'[s]
  BY <1>1, <1>3, <1>9 DEF IInv, TypeOK, EndedStaysSilent
<1>12. \A s \in Sessions : last'[s] # None => last'[s].of = gen'[s]
  BY <1>1, <1>3, <1>9 DEF IInv, TypeOK, EndedStaysSilent
<1>13. EndedStaysSilent'  BY <1>2, <1>11, <1>12 DEF IInv, EndedStaysSilent
<1> QED  BY <1>8, <1>10, <1>13 DEF IInv
-----------------------------------------------------------------------------
\* The collection, step by step.
CollType == [at: {"idle", "assign", "read", "retire", "judge"}, marks: Marks,
             gens: [Sessions -> Nat], rows: [Sessions -> Rows],
             left: SUBSET Sessions, clicked: BOOLEAN]

\* One that only moves the collection on and forgets at most.
LEMMA Collects ==
  ASSUME IInv, DismissalsTyped', coll' \in CollType, Sampled',
         hook' \in [Hooked -> [user: Nat, of: Nat] \cup {None}],
         \A s \in Hooked : hook'[s] = hook[s] \/ hook'[s] = None,
         UNCHANGED <<asking, typed, quietFor, post, gen, last, floors, quiet, notice, events>>
  PROVE  IInv'
<1>1. TypeOK'  BY DEF IInv, TypeOK, CollType
<1>2. EndedStaysSilent'  BY DEF IInv, EndedStaysSilent
<1> QED  BY <1>1, <1>2 DEF IInv

LEMMA LoadStep == ASSUME IInv, Load PROVE IInv'
<1>1. PICK marks \in Loads : coll' = [coll EXCEPT !.at = "assign", !.marks = marks]  BY DEF Load
<1>2. marks \in Marks  BY <1>1 DEF Loads, NoMarks, Marks, IInv, TypeOK, DismissalsTyped
<1>3. coll' \in CollType /\ coll'.at = "assign"  BY <1>1, <1>2 DEF IInv, TypeOK, CollType
<1>4. Sampled'  BY <1>3 DEF Load, IInv, Sampled
<1>5. DismissalsTyped'  BY DEF Load, IInv, TypeOK, DismissalsTyped
<1> QED  BY <1>3, <1>4, <1>5, Collects DEF Load, IInv, TypeOK

LEMMA AssignStep == ASSUME IInv, Assign PROVE IInv'
<1>1. coll' = [coll EXCEPT !.at = "read", !.gens = gen, !.clicked = FALSE]  BY DEF Assign
<1>2. coll' \in CollType /\ coll'.at = "read" /\ coll'.gens = gen
  BY <1>1 DEF IInv, TypeOK, CollType
<1>3. Sampled'  BY <1>2 DEF Assign, IInv, TypeOK, Sampled
<1>4. DismissalsTyped'  BY DEF Assign, IInv, TypeOK, DismissalsTyped
<1> QED  BY <1>2, <1>3, <1>4, Collects DEF Assign, IInv, TypeOK

LEMMA ReadStep == ASSUME IInv, Read PROVE IInv'
<1> DEFINE rows == [s \in Sessions |->
                     [act |-> writes[s], of |-> gen[s], waits |-> s \in Shown \cap asking,
                      user |-> IF s \in Hooked THEN typed[s] ELSE 0,
                      fresh |-> s \in Hooked /\ quietFor[s] < Working]]
<1>1. coll' = [coll EXCEPT !.at = "retire", !.rows = rows]  BY DEF Read
<1>2. rows \in [Sessions -> Rows]  BY DEF IInv, TypeOK, DismissalsTyped, Rows
<1>3. coll' \in CollType /\ coll'.at = "retire" /\ coll'.gens = coll.gens /\ coll'.rows = rows
  BY <1>1, <1>2 DEF IInv, TypeOK, CollType
<1>4. UNCHANGED <<gen, notice>> /\ coll.at = "read"  BY DEF Read
<1>5. Sampled'  BY <1>3, <1>4 DEF IInv, TypeOK, Sampled
<1>6. DismissalsTyped'  BY DEF Read, IInv, TypeOK, DismissalsTyped
<1> QED  BY <1>3, <1>5, <1>6, Collects DEF Read, IInv, TypeOK

LEMMA RetireStep == ASSUME IInv, Retire PROVE IInv'
<1> DEFINE rows == [s \in Sessions |->
                     [coll.rows[s] EXCEPT !.user = 0, !.fresh = FALSE,
                        !.waits = /\ gen[s] = coll.rows[s].of
                                  /\ @ \/ (s \in Hooked /\ Standing(s) /\ ~coll.rows[s].fresh)]]
<1>1. coll' = [coll EXCEPT !.at = "judge", !.left = Sessions, !.rows = rows]  BY DEF Retire
<1>2. ASSUME NEW s \in Sessions PROVE rows[s] \in Rows /\ rows[s].of = coll.rows[s].of
  <2>1. coll.rows[s] \in Rows  BY DEF IInv, TypeOK
  <2> DEFINE w == /\ gen[s] = coll.rows[s].of
                  /\ coll.rows[s].waits
                     \/ (s \in Hooked /\ Standing(s) /\ ~coll.rows[s].fresh)
  <2>2. rows[s] = [coll.rows[s] EXCEPT !.user = 0, !.fresh = FALSE, !.waits = w]  OBVIOUS
  <2>3. w \in BOOLEAN  OBVIOUS
  <2> HIDE DEF w
  <2> QED  BY <2>1, <2>2, <2>3 DEF Rows
<1>3. rows \in [Sessions -> Rows]  BY <1>2
<1>4. coll' \in CollType /\ coll'.at = "judge" /\ coll'.gens = coll.gens /\ coll'.rows = rows
  BY <1>1, <1>3 DEF IInv, TypeOK, CollType
<1>5. UNCHANGED <<gen, notice>> /\ coll.at = "retire"  BY DEF Retire
<1>6. Sampled'  BY <1>2, <1>4, <1>5 DEF IInv, Sampled
<1>7. DismissalsTyped'  BY DEF Retire, IInv, TypeOK, DismissalsTyped
<1>8. /\ hook' \in [Hooked -> [user: Nat, of: Nat] \cup {None}]
      /\ \A s \in Hooked : hook'[s] = hook[s] \/ hook'[s] = None
  BY DEF Retire, IInv, TypeOK
<1> QED  BY <1>4, <1>6, <1>7, <1>8, Collects DEF Retire

\* A row judged in its own generation: what it records and raises is of that one.
LEMMA JudgeStep == ASSUME IInv, NEW s \in Sessions, Judge(s) PROVE IInv'
<1>1. coll.at = "judge" /\ coll.rows[s] \in Rows /\ UNCHANGED <<gen, notice, hook, asking>>
  BY DEF Judge, IInv, TypeOK
<1>2. coll' \in CollType
  <2>1. NoColl \in CollType  BY DEF NoColl, CollType, NoMarks, NoRow, Marks, Rows
  <2>2. [coll EXCEPT !.left = @ \ {s}] \in CollType  BY DEF CollType, IInv, TypeOK
  <2> QED  BY <2>1, <2>2 DEF Judge, Judged
<1>3. Sampled'
  <2>1. coll'.at = "idle" \/ (coll'.at = coll.at /\ coll'.gens = coll.gens /\ coll'.rows = coll.rows)
    BY DEF Judge, Judged, NoColl, IInv, TypeOK
  <2> QED  BY <1>1, <2>1 DEF IInv, Sampled
<1>4. DismissalsTyped'  BY DEF Judge, IInv, TypeOK, DismissalsTyped
<1>5. CASE UNCHANGED last /\ Hush
  <2>1. TypeOK'  BY <1>1, <1>2, <1>4, <1>5 DEF Judge, Hush, IInv, TypeOK, CollType
  <2>2. EndedStaysSilent'  BY <1>1, <1>5 DEF Hush, IInv, EndedStaysSilent
  <2> QED  BY <1>3, <2>1, <2>2 DEF IInv
<1>6. CASE ~Over(s) /\ last' = [last EXCEPT ![s] = Recorded(s)]
           /\ IF Raises(s) THEN Raise(s, Wrong(s)) ELSE Hush
  <2>1. coll.rows[s].of = gen[s]
    <3>1. coll.gens[s] <= coll.rows[s].of /\ coll.rows[s].of <= gen[s]
      BY <1>1 DEF IInv, Sampled
    <3>2. gen[s] = coll.gens[s]  BY <1>6 DEF Over
    <3>3. coll.rows[s].of \in Nat /\ gen[s] \in Nat  BY <1>1 DEF Rows, IInv, TypeOK
    <3> QED  BY <3>1, <3>2, <3>3
  <2>2. Recorded(s) \in [waits: BOOLEAN, of: Nat, told: BOOLEAN] /\ Recorded(s).of = gen[s]
    BY <1>1, <2>1 DEF Recorded, Entering, Raises, Rows, IInv, TypeOK
  <2>3. Wrong(s) \in SUBSET {"ended", "hidden", "twice"} /\ "ended" \notin Wrong(s)
    BY <2>1 DEF Wrong, Late
  <2>4. /\ since' \in [Sessions -> 0..Cooldown] /\ floor' \in 0..Floor
        /\ rung' \subseteq Sessions /\ raised' \subseteq {"ended", "hidden", "twice"}
    BY <1>1, <1>6, <2>3, RaiseTyped
  <2>5. "ended" \notin raised'  BY <1>6, <2>3 DEF Raise, Hush, IInv, EndedStaysSilent
  <2>6. last' \in [Sessions -> [waits: BOOLEAN, of: Nat, told: BOOLEAN] \cup {None}]
    BY <1>6, <2>2 DEF IInv, TypeOK
  <2>7. TypeOK'  BY <1>1, <1>2, <1>4, <2>4, <2>6 DEF Judge, IInv, TypeOK, CollType
  <2>8. \A x \in Sessions : last'[x] # None => last'[x].of = gen'[x]
    BY <1>1, <1>6, <2>2 DEF IInv, TypeOK, EndedStaysSilent
  <2>9. EndedStaysSilent'  BY <1>1, <2>5, <2>8 DEF IInv, EndedStaysSilent
  <2> QED  BY <1>3, <2>7, <2>9 DEF IInv
<1> QED  BY <1>5, <1>6 DEF Judge
-----------------------------------------------------------------------------
LEMMA NextIInv == IInv /\ [Next]_vars => IInv'
<1> SUFFICES ASSUME IInv, [Next]_vars PROVE IInv'  OBVIOUS
<1>1. ASSUME NEW s \in Sessions, Ask(s) \/ Answer(s) \/ Repeat(s) \/ End(s) PROVE IInv'
  BY <1>1, AskStep, AnswerStep, RepeatStep, EndStep
<1>2. ASSUME NEW s \in Sessions, NEW c \in Clicks, Click(c, s) PROVE IInv'  BY <1>2, ClickStep
<1>3. ASSUME NEW s \in Sessions, NEW n \in Notices, Arrive(n, s) PROVE IInv'
  BY <1>3, ArriveStep
<1>4. ASSUME NEW n \in Notices, Apply(n) PROVE IInv'  BY <1>4, ApplyStep
<1>5. CASE Collect
  BY <1>5, LoadStep, AssignStep, ReadStep, RetireStep, JudgeStep DEF Collect
<1>6. CASE Tick \/ QuietHours  BY <1>6, TickStep, QuietStep
<1>7. CASE UNCHANGED vars
  <2>1. DismissalsTyped'  BY <1>7 DEF vars, IInv, TypeOK, DismissalsTyped
  <2>2. TypeOK'  BY <1>7, <2>1 DEF vars, IInv, TypeOK
  <2> QED  BY <1>7, <2>2, Aside DEF vars
<1> QED  BY <1>1, <1>2, <1>3, <1>4, <1>5, <1>6, <1>7 DEF Next
-----------------------------------------------------------------------------
\* The copy is what the collection assigned, for as long as no click of this dashboard
\* lands in it; so what the gate lets through the collection does not subtract.
Agreed ==
  /\ coll.at \in {"read", "retire", "judge"} /\ ~coll.clicked => copy = coll.marks
  /\ BoardAgrees

\* A step that raises nothing "hidden", and leaves the copy and the collection alone.
LEMMA AgreedKept ==
  ASSUME Agreed, UNCHANGED <<copy, coll>>, "hidden" \in raised' => "hidden" \in raised
  PROVE  Agreed'
BY DEF Agreed, BoardAgrees

\* Each step of a collection.
LEMMA AgreedCollect == ASSUME IInv, Agreed, Collect PROVE Agreed'
<1> USE DEF IInv, TypeOK
<1>1. CASE Load
  <2>1. PICK marks \in Loads : coll' = [coll EXCEPT !.at = "assign", !.marks = marks]
    BY <1>1 DEF Load
  <2> QED  BY <1>1, <2>1 DEF Load, Agreed, BoardAgrees
<1>2. CASE Assign  BY <1>2 DEF Assign, Agreed, BoardAgrees
<1>3. CASE Read
  <2>1. coll'.at = "retire" /\ coll'.marks = coll.marks /\ coll'.clicked = coll.clicked
        /\ coll.at = "read" /\ UNCHANGED <<copy, raised>>
    BY <1>3 DEF Read
  <2> QED  BY <2>1 DEF Agreed, BoardAgrees
<1>4. CASE Retire
  <2>1. coll'.at = "judge" /\ coll'.marks = coll.marks /\ coll'.clicked = coll.clicked
        /\ coll.at = "retire" /\ UNCHANGED <<copy, raised>>
    BY <1>4 DEF Retire
  <2> QED  BY <2>1 DEF Agreed, BoardAgrees
<1>5. ASSUME NEW s \in Sessions, Judge(s) PROVE Agreed'
  <2>1. coll.at = "judge" /\ UNCHANGED copy  BY <1>5 DEF Judge
  <2>2. coll'.at = "idle" \/ (coll'.marks = coll.marks /\ coll'.clicked = coll.clicked)
    BY <1>5 DEF Judge, Judged, NoColl
  <2>3. "hidden" \notin raised'
    <3>1. CASE Hush  BY <3>1 DEF Hush, Agreed, BoardAgrees
    <3>2. CASE Raise(s, Wrong(s)) /\ ~Holds(copy, s, coll.rows[s].act)
      <4>1. ~(Holds(coll.marks, s, coll.rows[s].act) /\ ~coll.clicked)
        BY <2>1, <3>2 DEF Agreed
      <4>2. "hidden" \notin Wrong(s)  BY <4>1 DEF Wrong, Late
      <4> QED  BY <3>2, <4>2 DEF Raise, Agreed, BoardAgrees
    <3> QED  BY <1>5, <3>1, <3>2 DEF Judge
  <2> QED  BY <2>1, <2>2, <2>3 DEF Agreed, BoardAgrees
<1> QED  BY <1>1, <1>2, <1>3, <1>4, <1>5 DEF Collect

\* Every step together: a hook's banner is never "hidden".
LEMMA NextAgreed == IInv /\ Agreed /\ [Next]_vars => Agreed'
<1> SUFFICES ASSUME IInv, Agreed, [Next]_vars PROVE Agreed'  OBVIOUS
<1>1. ASSUME NEW s \in Sessions, Ask(s) \/ Answer(s) \/ Repeat(s) \/ End(s) PROVE Agreed'
  BY <1>1, AgreedKept DEF Ask, Answer, Repeat, End
<1>2. ASSUME NEW s \in Sessions, NEW c \in Clicks, Click(c, s) PROVE Agreed'
  <2>1. coll'.at = coll.at /\ coll'.marks = coll.marks
        /\ coll'.clicked = (coll.clicked \/ (c \in Here /\ coll.at # "idle"))
        /\ raised' = raised
    BY <1>2 DEF Click, IInv, TypeOK
  <2>2. copy' = copy \/ c \in Here  BY <1>2 DEF Click, Hold, Save
  <2> QED  BY <2>1, <2>2 DEF Agreed, BoardAgrees
<1>3. ASSUME NEW s \in Sessions, NEW n \in Notices, Arrive(n, s) PROVE Agreed'
  BY <1>3, AgreedKept DEF Arrive
<1>4. ASSUME NEW n \in Notices, Apply(n) PROVE Agreed'
  <2>1. "hidden" \in raised' => "hidden" \in raised
    BY <1>4 DEF Apply, Raise, Hush, Late
  <2> QED  BY <1>4, <2>1, AgreedKept DEF Apply
<1>5. CASE Collect  BY <1>5, AgreedCollect
<1>6. CASE Tick \/ QuietHours  BY <1>6, AgreedKept DEF Tick, QuietHours
<1>7. CASE UNCHANGED vars  BY <1>7, AgreedKept DEF vars
<1> QED  BY <1>1, <1>2, <1>3, <1>4, <1>5, <1>6, <1>7 DEF Next
-----------------------------------------------------------------------------
\* Every variable keeps its type, whatever the sessions, the clicks and the hour do.
THEOREM AlertsTyped == Spec => []TypeOK
<1>1. IInv => TypeOK  BY DEF IInv
<1> QED  BY InitIInv, NextIInv, <1>1, PTL DEF Spec

\* Nothing learnt before a SessionEnd outlives it, in the hook lane or the collection:
\* each samples the generation before what it learns and compares it in the hold in
\* which it decides (handle_payload, hook_generations, maybe_popup).
THEOREM EndedSilent == Spec => []EndedStaysSilent
<1>1. IInv => EndedStaysSilent  BY DEF IInv
<1> QED  BY InitIInv, NextIInv, <1>1, PTL DEF Spec

\* A collection raises nothing for a row it takes off the board, unless a click landed
\* in between: the gate and the subtraction read one set of marks (collect, refresh).
THEOREM BoardAndBannerAgree == Spec => []BoardAgrees
<1>1. Init => Agreed  BY DEF Init, NoColl, Agreed, BoardAgrees
<1>2. Agreed => BoardAgrees  BY DEF Agreed
<1> QED  BY InitIInv, NextIInv, <1>1, NextAgreed, <1>2, PTL DEF Spec
=============================================================================
