----------------------------- MODULE Asks_proofs -----------------------------
(***************************************************************************)
(* The ask lane for every number of questions, clickers and options and    *)
(* any budget, deadline and retention: the types and the budget, no        *)
(* orphaned question, an outcome kept for its retention, and every step of *)
(* the lane a step of AskOutcome or a stutter.                             *)
(***************************************************************************)
EXTENDS Asks, FiniteSetTheorems, TLAPS

Stored == {a \in Asks : reg[a] = "stored"}

\* Whatever a thread has in hand is a question the lane has taken in, and a parked
\* poll has been told nothing yet.
InHand ==
  /\ table \subseteq Stored /\ condemned \subseteq Stored
  /\ \A s \in Sweepers : stale[s] \subseteq Stored
  /\ \A c \in Clickers : click[c] # NoClick => click[c].ask \in Stored
  /\ \A a \in Asks : poll[a] = "parked" => a \in Stored /\ delivered[a] = Nothing

\* A sweep stamps only what has come to an outcome.
Stamped == \A a \in Asks : settledSeen[a] # Never => outcome[a] # Open

IInv == TypeOK /\ InHand /\ Stamped /\ NoOrphan /\ SettledKept
-----------------------------------------------------------------------------
\* The outcomes are neither open nor what a poll hears besides.
LEMMA OutcomesApart ==
  /\ Open \notin Outcomes /\ Nothing \notin Outcomes /\ UnknownId # Nothing
  /\ Declined \in Outcomes /\ Expired \in Outcomes
  /\ \A i \in Options : Answered(i) \in Outcomes
BY DEF Outcomes, Open, Nothing, UnknownId, Declined, Expired, Answered

\* An outcome that lands takes an open slot, and no other.
LEMMA SettledIs ==
  ASSUME outcome \in [Asks -> Outcomes \cup {Open}], NEW a \in Asks, NEW o \in Outcomes
  PROVE  /\ Settled(a, o) \in [Asks -> Outcomes \cup {Open}]
         /\ Settled(a, o)[a] # Open
         /\ outcome[a] # Open => Settled(a, o) = outcome
         /\ outcome[a] = Open => Settled(a, o) = [outcome EXCEPT ![a] = o]
         /\ \A b \in Asks : outcome[b] # Open => Settled(a, o)[b] = outcome[b]
         /\ \A b \in Asks : b # a => Settled(a, o)[b] = outcome[b]
BY OutcomesApart DEF Settled

\* What the budget counts is finite, and fewer questions are no more than it allows.
LEMMA BudgetKept ==
  ASSUME TypeOK, Unresolved' \subseteq Unresolved
  PROVE  Cardinality(Unresolved') <= Limit
<1>1. IsFiniteSet(Unresolved)
  BY AsksAssumption, FS_Subset DEF AsksAssumption, TypeOK, Unresolved
<1>2. /\ IsFiniteSet(Unresolved') /\ Cardinality(Unresolved') <= Cardinality(Unresolved)
  BY <1>1, FS_Subset
<1>3. Cardinality(Unresolved) \in Nat /\ Cardinality(Unresolved') \in Nat
  BY <1>1, <1>2, FS_CardinalityType
<1> QED  BY <1>2, <1>3, AsksAssumption DEF AsksAssumption, TypeOK

\* One more question, where there was room for it.
LEMMA BudgetAdd ==
  ASSUME TypeOK, NEW a \in Asks, Cardinality(Unresolved) < Limit,
         Unresolved' \subseteq Unresolved \cup {a}
  PROVE  Cardinality(Unresolved') <= Limit
<1>1. IsFiniteSet(Unresolved)
  BY AsksAssumption, FS_Subset DEF AsksAssumption, TypeOK, Unresolved
<1>2. /\ IsFiniteSet(Unresolved \cup {a})
      /\ Cardinality(Unresolved \cup {a}) <= Cardinality(Unresolved) + 1
  <2>1. Cardinality(Unresolved) \in Nat  BY <1>1, FS_CardinalityType
  <2>2. /\ IsFiniteSet(Unresolved \cup {a})
        /\ Cardinality(Unresolved \cup {a}) \in {Cardinality(Unresolved), Cardinality(Unresolved) + 1}
    BY <1>1, FS_AddElement, Zenon
  <2> QED  BY <2>1, <2>2
<1>3. IsFiniteSet(Unresolved') /\ Cardinality(Unresolved') <= Cardinality(Unresolved \cup {a})
  BY <1>2, FS_Subset
<1>4. /\ Cardinality(Unresolved) \in Nat /\ Cardinality(Unresolved') \in Nat
      /\ Cardinality(Unresolved \cup {a}) \in Nat
  BY <1>1, <1>2, <1>3, FS_CardinalityType
<1> QED  BY <1>2, <1>3, <1>4, AsksAssumption DEF AsksAssumption, TypeOK
-----------------------------------------------------------------------------
\* Nothing was asked at the start.
LEMMA InitIInv == Init => IInv
<1> SUFFICES ASSUME Init PROVE IInv  OBVIOUS
<1> USE AsksAssumption DEF AsksAssumption, Init
<1>1. Cardinality(Unresolved) <= Limit
  <2>1. Unresolved = {}  BY DEF Unresolved
  <2> QED  BY <2>1, FS_EmptySet
<1>2. TypeOK  BY <1>1 DEF TypeOK, Times, Clicks, Never
<1>3. InHand /\ Stamped  BY DEF InHand, Stamped, Stored
<1>4. NoOrphan /\ SettledKept  BY DEF NoOrphan, SettledKept
<1> QED  BY <1>2, <1>3, <1>4 DEF IInv

\* A sweep takes out open questions, which it then holds, and outcomes past their
\* retention; what it stamps has an outcome.
LEMMA SweepKept ==
  ASSUME IInv, NEW s \in Sweepers, Sweep(s, now),
         UNCHANGED <<now, outcome, condemned, click, poll, delivered, told, taken>>,
         created' \in [Asks -> Times \cup {Never}],
         reg' \in [Asks -> {"new", "swept", "stored", "refused"}], Stored' = Stored
  PROVE  IInv'
<1> DEFINE late == {a \in Unresolved : now - created[a] > Deadline}
           kept == {a \in table \ Unresolved :
                      settledSeen[a] # Never /\ now - settledSeen[a] > Retention}
<1>1. /\ table' = table \ (late \cup kept)
      /\ stale' = [stale EXCEPT ![s] = @ \cup late]
      /\ settledSeen' = [a \in Asks |-> IF a \in table \ Unresolved /\ settledSeen[a] = Never
                                        THEN now ELSE settledSeen[a]]
  BY DEF Sweep
<1>2. late \subseteq table /\ \A a \in late : outcome[a] = Open  BY DEF Unresolved
<1>3. \A a \in kept : /\ settledSeen[a] # Never /\ now - settledSeen[a] > Retention
                      /\ outcome[a] # Open
  BY DEF Unresolved
<1>4. \A a \in table \ Unresolved : outcome[a] # Open  BY DEF Unresolved
<1> HIDE DEF late, kept
<1>5. TypeOK'
  <2>1. Unresolved' \subseteq Unresolved  BY <1>1 DEF Unresolved
  <2>2. Cardinality(Unresolved') <= Limit  BY <2>1, BudgetKept DEF IInv
  <2>3. table' \subseteq Asks /\ stale' \in [Sweepers -> SUBSET Asks]
    BY <1>1, <1>2 DEF IInv, TypeOK
  <2>4. settledSeen' \in [Asks -> Times \cup {Never}]  BY <1>1 DEF IInv, TypeOK
  <2> QED  BY <2>2, <2>3, <2>4 DEF IInv, TypeOK
<1>6. InHand'  BY <1>1, <1>2 DEF IInv, InHand, TypeOK
<1>7. Stamped'  BY <1>1, <1>4 DEF IInv, Stamped
<1>8. NoOrphan'
  <2> SUFFICES ASSUME NEW a \in Asks, reg'[a] = "stored", a \notin table', outcome[a] = Open
               PROVE  a \in condemned \/ \E t \in Sweepers : a \in stale'[t]
    BY DEF NoOrphan
  <2>1. reg[a] = "stored"  BY DEF Stored
  <2>2. CASE a \in table  BY <2>2, <1>1, <1>3 DEF IInv, TypeOK
  <2>3. CASE a \notin table
    <3>1. a \in condemned \/ \E t \in Sweepers : a \in stale[t]
      BY <2>1, <2>3 DEF IInv, NoOrphan
    <3> QED  BY <3>1, <1>1 DEF IInv, TypeOK
  <2> QED  BY <2>2, <2>3
<1>9. SettledKept'
  <2> SUFFICES ASSUME NEW a \in Asks, settledSeen'[a] # Never, a \notin table' \cup taken
               PROVE  delivered[a] # Nothing \/ now - settledSeen'[a] > Retention
    BY DEF SettledKept
  <2>1. CASE a \in table
    <3>1. a \in late \/ a \in kept  BY <1>1, <2>1
    <3>2. a \notin late  BY <1>1, <1>2, <1>4 DEF IInv, Stamped
    <3> QED  BY <3>1, <3>2, <1>1, <1>3
  <2>2. CASE a \notin table  BY <2>2, <1>1 DEF IInv, SettledKept
  <2> QED  BY <2>1, <2>2
<1> QED  BY <1>5, <1>6, <1>7, <1>8, <1>9 DEF IInv

\* What a step leaves alone beside an outcome that lands: Expire, Decline, Resolve.
LEMMA LandKept ==
  ASSUME IInv, UNCHANGED <<now, table, created, settledSeen, reg, poll, delivered, taken>>,
         outcome' \in [Asks -> Outcomes \cup {Open}],
         \A a \in Asks : outcome[a] # Open => outcome'[a] = outcome[a],
         stale' \in [Sweepers -> SUBSET Asks], condemned' \subseteq condemned,
         click' \in [Clickers -> Clicks], told' \subseteq Asks \X Options,
         \A t \in Sweepers : stale'[t] \subseteq stale[t],
         \A c \in Clickers : click'[c] \in {click[c], NoClick},
         \A a \in Asks : outcome'[a] = Open
            => /\ a \in condemned => a \in condemned'
               /\ \A t \in Sweepers : a \in stale[t] => a \in stale'[t]
  PROVE  IInv'
<1>1. TypeOK'
  <2>1. Unresolved' \subseteq Unresolved  BY DEF Unresolved, IInv, TypeOK
  <2>2. Cardinality(Unresolved') <= Limit  BY <2>1, BudgetKept DEF IInv
  <2> QED  BY <2>2 DEF IInv, TypeOK
<1>2. InHand'  BY DEF IInv, InHand, Stored
<1>3. Stamped' /\ SettledKept'  BY DEF IInv, Stamped, SettledKept
<1>4. NoOrphan'
  <2> SUFFICES ASSUME NEW a \in Asks, reg[a] = "stored", a \notin table, outcome'[a] = Open
               PROVE  a \in condemned' \/ \E t \in Sweepers : a \in stale'[t]
    BY DEF NoOrphan
  <2>1. a \in condemned \/ \E t \in Sweepers : a \in stale[t]  BY DEF IInv, NoOrphan
  <2> QED  BY <2>1
<1> QED  BY <1>1, <1>2, <1>3, <1>4 DEF IInv

LEMMA RegisterKept == ASSUME IInv, NEW a \in Asks, Register(a) PROVE IInv'
<1>1. a \in Sweepers  BY DEF Sweepers
<1>2. /\ created' \in [Asks -> Times \cup {Never}]
      /\ reg' \in [Asks -> {"new", "swept", "stored", "refused"}] /\ Stored' = Stored
  BY DEF Register, IInv, TypeOK, Stored
<1> QED  BY <1>1, <1>2, SweepKept DEF Register

LEMMA BoardSweepKept == ASSUME IInv, BoardSweep PROVE IInv'
<1>1. Board \in Sweepers  BY DEF Sweepers
<1>2. /\ created' \in [Asks -> Times \cup {Never}]
      /\ reg' \in [Asks -> {"new", "swept", "stored", "refused"}] /\ Stored' = Stored
  BY DEF BoardSweep, IInv, TypeOK, Stored
<1> QED  BY <1>1, <1>2, SweepKept DEF BoardSweep

\* A question is stored where the budget had room, in the hold that counted it.
LEMMA DecideKept == ASSUME IInv, NEW a \in Asks, Decide(a) PROVE IInv'
<1>1. Stored \subseteq Stored' /\ reg[a] = "swept"
      /\ reg' \in [Asks -> {"new", "swept", "stored", "refused"}]
      /\ UNCHANGED <<now, outcome, created, settledSeen, stale, condemned, click, poll,
                     delivered, told, taken>>
  BY DEF Decide, IInv, TypeOK, Stored
<1>2. CASE Cardinality(Unresolved) < Limit
  <2>1. table' = table \cup {a} /\ reg' = [reg EXCEPT ![a] = "stored"]  BY <1>2 DEF Decide
  <2>2. Unresolved' \subseteq Unresolved \cup {a}  BY <1>1, <2>1 DEF Unresolved
  <2>3. Cardinality(Unresolved') <= Limit  BY <1>2, <2>2, BudgetAdd DEF IInv
  <2>4. TypeOK'  BY <1>1, <2>1, <2>3 DEF IInv, TypeOK
  <2>5. InHand'
    <3>1. a \in Stored'  BY <2>1 DEF Stored, IInv, TypeOK
    <3> QED  BY <1>1, <2>1, <3>1 DEF IInv, InHand
  <2>6. NoOrphan'  BY <1>1, <2>1 DEF IInv, NoOrphan, TypeOK
  <2>7. Stamped' /\ SettledKept'  BY <1>1, <2>1 DEF IInv, Stamped, SettledKept
  <2> QED  BY <2>4, <2>5, <2>6, <2>7 DEF IInv
<1>3. CASE ~(Cardinality(Unresolved) < Limit)
  <2>1. reg' = [reg EXCEPT ![a] = "refused"] /\ table' = table  BY <1>3 DEF Decide
  <2>2. Unresolved' = Unresolved  BY <1>1, <2>1 DEF Unresolved
  <2>3. TypeOK'  BY <1>1, <2>1, <2>2 DEF IInv, TypeOK
  <2>4. InHand'  BY <1>1, <2>1 DEF IInv, InHand
  <2>5. NoOrphan'  BY <1>1, <2>1 DEF IInv, NoOrphan, TypeOK
  <2>6. Stamped' /\ SettledKept'  BY <1>1, <2>1 DEF IInv, Stamped, SettledKept
  <2> QED  BY <2>3, <2>4, <2>5, <2>6 DEF IInv
<1> QED  BY <1>2, <1>3

LEMMA ExpireKept == ASSUME IInv, NEW s \in Sweepers, NEW a \in Asks, Expire(s, a) PROVE IInv'
<1>1. outcome \in [Asks -> Outcomes \cup {Open}] /\ stale \in [Sweepers -> SUBSET Asks]
  BY DEF IInv, TypeOK
<1>2. stale' = [stale EXCEPT ![s] = @ \ {a}] /\ outcome' = Settled(a, Expired)
      /\ UNCHANGED <<now, table, created, settledSeen, reg, condemned, click, poll,
                     delivered, told, taken>>
  BY DEF Expire
<1>3. /\ outcome' \in [Asks -> Outcomes \cup {Open}] /\ outcome'[a] # Open
      /\ \A b \in Asks : outcome[b] # Open => outcome'[b] = outcome[b]
  BY <1>1, <1>2, SettledIs, OutcomesApart
<1>4. /\ stale' \in [Sweepers -> SUBSET Asks]
      /\ \A t \in Sweepers : stale'[t] \subseteq stale[t]
      /\ \A b \in Asks, t \in Sweepers : b # a /\ b \in stale[t] => b \in stale'[t]
  BY <1>1, <1>2
<1>5. click' \in [Clickers -> Clicks] /\ told' \subseteq Asks \X Options
  BY <1>2 DEF IInv, TypeOK
<1> QED  BY <1>2, <1>3, <1>4, <1>5, LandKept

LEMMA DeclineKept == ASSUME IInv, NEW a \in Asks, Decline(a) PROVE IInv'
<1>1. outcome \in [Asks -> Outcomes \cup {Open}]  BY DEF IInv, TypeOK
<1>2. condemned' = condemned \ {a} /\ outcome' = Settled(a, Declined)
      /\ UNCHANGED <<now, table, created, settledSeen, reg, stale, click, poll,
                     delivered, told, taken>>
  BY DEF Decline
<1>3. /\ outcome' \in [Asks -> Outcomes \cup {Open}] /\ outcome'[a] # Open
      /\ \A b \in Asks : outcome[b] # Open => outcome'[b] = outcome[b]
  BY <1>1, <1>2, SettledIs, OutcomesApart
<1>4. /\ click' \in [Clickers -> Clicks] /\ told' \subseteq Asks \X Options
      /\ stale' \in [Sweepers -> SUBSET Asks]
  BY <1>2 DEF IInv, TypeOK
<1> QED  BY <1>2, <1>3, <1>4, LandKept

LEMMA ResolveKept == ASSUME IInv, NEW c \in Clickers, Resolve(c) PROVE IInv'
<1> DEFINE a == click[c].ask
           i == click[c].index
<1>1. a \in Asks  BY DEF Resolve, IInv, TypeOK, Clicks
<1>2. /\ click' = [click EXCEPT ![c] = NoClick]
      /\ \/ /\ outcome[a] = Open /\ i \in Options
            /\ outcome' = [outcome EXCEPT ![a] = Answered(i)] /\ told' = told \cup {<<a, i>>}
         \/ UNCHANGED <<outcome, told>>
      /\ UNCHANGED <<now, table, created, settledSeen, reg, stale, condemned, poll,
                     delivered, taken>>
  BY DEF Resolve
<1>3. /\ outcome' \in [Asks -> Outcomes \cup {Open}]
      /\ \A b \in Asks : outcome[b] # Open => outcome'[b] = outcome[b]
  BY <1>1, <1>2, OutcomesApart DEF IInv, TypeOK
<1>4. told' \subseteq Asks \X Options  BY <1>1, <1>2 DEF IInv, TypeOK
<1>5. click' \in [Clickers -> Clicks] /\ \A d \in Clickers : click'[d] \in {click[d], NoClick}
  BY <1>2 DEF IInv, TypeOK, Clicks
<1>6. stale' \in [Sweepers -> SUBSET Asks]  BY <1>2 DEF IInv, TypeOK
<1> HIDE DEF a, i
<1> QED  BY <1>2, <1>3, <1>4, <1>5, <1>6, LandKept

\* What is popped is owed its decline from the same hold on.
LEMMA PopKept == ASSUME IInv, NEW some \in SUBSET table, Pop(some) PROVE IInv'
<1>1. /\ table' = table \ some /\ condemned' = condemned \cup some /\ taken' = taken \cup some
      /\ UNCHANGED <<now, outcome, created, settledSeen, reg, stale, click, poll, delivered, told>>
  BY DEF Pop
<1>2. TypeOK'
  <2>1. Unresolved' \subseteq Unresolved  BY <1>1 DEF Unresolved
  <2>2. Cardinality(Unresolved') <= Limit  BY <2>1, BudgetKept DEF IInv
  <2> QED  BY <1>1, <2>2 DEF IInv, TypeOK
<1>3. InHand'  BY <1>1 DEF IInv, InHand, Stored
<1>4. NoOrphan'  BY <1>1 DEF IInv, NoOrphan
<1>5. Stamped' /\ SettledKept'  BY <1>1 DEF IInv, Stamped, SettledKept
<1> QED  BY <1>2, <1>3, <1>4, <1>5 DEF IInv

\* A poll that hears an outcome releases the row it was about.
LEMMA WakeKept == ASSUME IInv, NEW a \in Asks, Wake(a) PROVE IInv'
<1>1. /\ poll' = [poll EXCEPT ![a] = "idle"]
      /\ UNCHANGED <<now, outcome, created, settledSeen, reg, stale, condemned, click, told, taken>>
      /\ \/ UNCHANGED <<table, delivered>>
         \/ /\ outcome[a] # Open /\ table' = table \ {a}
            /\ delivered' = [delivered EXCEPT ![a] = outcome[a]]
  BY DEF Wake
<1>2. TypeOK'
  <2>1. Unresolved' \subseteq Unresolved  BY <1>1 DEF Unresolved
  <2>2. Cardinality(Unresolved') <= Limit  BY <2>1, BudgetKept DEF IInv
  <2> QED  BY <1>1, <2>2 DEF IInv, TypeOK
<1>3. InHand'  BY <1>1 DEF IInv, InHand, Stored, TypeOK
<1>4. NoOrphan'  BY <1>1 DEF IInv, NoOrphan, TypeOK
<1>5. Stamped'  BY <1>1 DEF IInv, Stamped
<1>6. SettledKept'  BY <1>1, OutcomesApart DEF IInv, SettledKept, TypeOK
<1> QED  BY <1>2, <1>3, <1>4, <1>5, <1>6 DEF IInv

\* Steps that neither take a question out nor settle one.
LEMMA OtherKept ==
  ASSUME IInv, \/ Tick
               \/ \E c \in Clickers, a \in Asks, i \in Indices : Fetch(c, a, i)
               \/ \E a \in Asks : Poll(a)
  PROVE  IInv'
<1>1. UNCHANGED <<table, outcome, created, settledSeen, reg, stale, condemned, told, taken>>
  BY DEF Tick, Fetch, Poll
<1>2. Unresolved' = Unresolved  BY <1>1 DEF Unresolved
<1>3. TypeOK'
  BY <1>1, <1>2, AsksAssumption
  DEF AsksAssumption, Tick, Fetch, Poll, IInv, TypeOK, Times, Clicks
<1>4. InHand'
  BY <1>1 DEF Tick, Fetch, Poll, IInv, InHand, Stored, TypeOK
<1>5. NoOrphan' /\ Stamped'  BY <1>1 DEF IInv, NoOrphan, Stamped
<1>6. SettledKept'
  BY <1>1, OutcomesApart, AsksAssumption
  DEF AsksAssumption, Tick, Fetch, Poll, IInv, SettledKept, TypeOK, Times, Never
<1> QED  BY <1>3, <1>4, <1>5, <1>6 DEF IInv

LEMMA NextIInv == IInv /\ [Next]_vars => IInv'
<1> SUFFICES ASSUME IInv, [Next]_vars PROVE IInv'  OBVIOUS
<1>1. ASSUME NEW a \in Asks, Withdraw(a) PROVE IInv'  BY <1>1, PopKept DEF Withdraw
<1>2. CASE DeclineAll  BY <1>2, PopKept DEF DeclineAll
<1>3. CASE UNCHANGED vars
  <2>1. Unresolved' = Unresolved  BY <1>3 DEF vars, Unresolved
  <2> QED  BY <1>3, <2>1 DEF vars, IInv, TypeOK, InHand, Stored, Stamped, NoOrphan, SettledKept
<1> QED
  BY <1>1, <1>2, <1>3, RegisterKept, DecideKept, BoardSweepKept, ExpireKept, DeclineKept,
     ResolveKept, WakeKept, OtherKept
  DEF Next
-----------------------------------------------------------------------------
\* The types, and the budget: what registrations have stored and nobody has settled
\* never outgrows ask_max_pending (AskRegistry.register).
THEOREM AsksTyped == Spec => []TypeOK
<1> QED  BY InitIInv, NextIInv, PTL DEF Spec, IInv

\* However sweeps, withdrawals, clicks and the stop interleave, a question that left
\* the table open is in the hands of a call that will settle it (withdraw, _sweep).
THEOREM NoneOrphaned == Spec => []NoOrphan
<1> QED  BY InitIInv, NextIInv, PTL DEF Spec, IInv

\* An outcome a sweep has stamped is there for its session until the retention has
\* passed, unless a withdrawal or the stop took it (_sweep).
THEOREM OutcomeRetained == Spec => []SettledKept
<1> QED  BY InitIInv, NextIInv, PTL DEF Spec, IInv
-----------------------------------------------------------------------------
\* The refinement: the questions held are the table, those asked the stored ones.
LEMMA InitRefines == Init => Outcome!Init
BY DEF Init, Outcome!Init

\* A question's end lands in an open slot or changes nothing.
LEMMA LandRefines ==
  ASSUME IInv, NEW a \in Stored, NEW o \in {Declined, Expired}, outcome' = Settled(a, o),
         UNCHANGED <<table, reg, told, delivered>>
  PROVE  Outcome!Settle(a) \/ UNCHANGED Outcome!vars
<1>0. o \in Outcomes /\ a \in Asks  BY OutcomesApart DEF Stored
<1>1. CASE outcome[a] = Open
  <2>1. outcome' = [outcome EXCEPT ![a] = o]  BY <1>0, <1>1, SettledIs DEF IInv, TypeOK
  <2> QED  BY <1>1, <2>1 DEF Outcome!Settle, Stored
<1>2. CASE outcome[a] # Open
  <2>1. outcome' = outcome  BY <1>0, <1>2, SettledIs DEF IInv, TypeOK
  <2> QED  BY <2>1 DEF Outcome!vars
<1> QED  BY <1>1, <1>2

\* A sweep lets go of what it takes out of the table.
LEMMA SweepRefines ==
  ASSUME NEW s, Sweep(s, now), Stored' = Stored, UNCHANGED <<outcome, told, delivered>>
  PROVE  Outcome!Next
<1>1. table \ table' \in SUBSET table /\ table' = table \ (table \ table')  BY DEF Sweep
<1>2. Outcome!LetGo(table \ table')  BY <1>1 DEF Outcome!LetGo, Stored
<1> QED  BY <1>1, <1>2 DEF Outcome!Next

\* Each step of the lane is a step of the promise, or none.
LEMMA NextRefines == IInv /\ [Next]_vars => [Outcome!Next]_(Outcome!vars)
<1> SUFFICES ASSUME IInv, [Next]_vars PROVE Outcome!Next \/ UNCHANGED Outcome!vars
  OBVIOUS
<1>1. ASSUME NEW a \in Asks, Register(a) PROVE Outcome!Next
  <2>1. Stored' = Stored  BY <1>1 DEF Register, Stored, IInv, TypeOK
  <2> QED  BY <1>1, <2>1, SweepRefines DEF Register
<1>2. ASSUME NEW a \in Asks, Decide(a) PROVE Outcome!Next \/ UNCHANGED Outcome!vars
  <2>1. CASE reg' = [reg EXCEPT ![a] = "stored"] /\ table' = table \cup {a}
    <3>1. Outcome!Ask(a)  BY <1>2, <2>1 DEF Decide, Outcome!Ask, IInv, TypeOK
    <3> QED  BY <3>1 DEF Outcome!Next
  <2>2. CASE reg' = [reg EXCEPT ![a] = "refused"] /\ UNCHANGED table
    BY <1>2, <2>2 DEF Decide, Outcome!vars, IInv, TypeOK
  <2> QED  BY <1>2, <2>1, <2>2 DEF Decide
<1>3. CASE BoardSweep
  <2>1. Stored' = Stored  BY <1>3 DEF BoardSweep, Stored
  <2> QED  BY <1>3, <2>1, SweepRefines DEF BoardSweep
<1>4. ASSUME NEW s \in Sweepers, NEW a \in Asks, Expire(s, a)
      PROVE  Outcome!Next \/ UNCHANGED Outcome!vars
  <2>1. a \in Stored  BY <1>4 DEF Expire, IInv, InHand
  <2> QED  BY <1>4, <2>1, LandRefines DEF Expire, Outcome!Next
<1>5. ASSUME NEW a \in Asks, Decline(a) PROVE Outcome!Next \/ UNCHANGED Outcome!vars
  <2>1. a \in Stored  BY <1>5 DEF Decline, IInv, InHand
  <2> QED  BY <1>5, <2>1, LandRefines DEF Decline, Outcome!Next
<1>6. ASSUME NEW some \in SUBSET table, Pop(some) PROVE Outcome!Next
  <2>1. Outcome!LetGo(some)  BY <1>6 DEF Pop, Outcome!LetGo
  <2> QED  BY <2>1 DEF Outcome!Next
<1>7. ASSUME NEW c \in Clickers, Resolve(c) PROVE Outcome!Next \/ UNCHANGED Outcome!vars
  <2> DEFINE a == click[c].ask
             i == click[c].index
  <2>1. a \in Asks /\ reg[a] = "stored"  BY <1>7 DEF Resolve, IInv, InHand, Stored
  <2>2. CASE outcome[a] = Open /\ i \in Options
    <3>1. outcome' = [outcome EXCEPT ![a] = Answered(i)] /\ told' = told \cup {<<a, i>>}
      BY <1>7, <2>2 DEF Resolve
    <3>2. UNCHANGED <<table, reg, delivered>>  BY <1>7 DEF Resolve
    <3> HIDE DEF a, i
    <3>3. Outcome!Settle(a)  BY <2>1, <2>2, <3>1, <3>2 DEF Outcome!Settle
    <3> QED  BY <2>1, <3>3 DEF Outcome!Next
  <2>3. CASE ~(outcome[a] = Open /\ i \in Options)
    BY <1>7, <2>3 DEF Resolve, Outcome!vars
  <2> QED  BY <2>2, <2>3
<1>8. ASSUME NEW a \in Asks, Poll(a) PROVE Outcome!Next \/ UNCHANGED Outcome!vars
  <2>1. CASE a \in table  BY <1>8, <2>1 DEF Poll, Outcome!vars
  <2>2. CASE a \notin table
    <3>1. Outcome!Refuse(a)  BY <1>8, <2>2 DEF Poll, Outcome!Refuse
    <3> QED  BY <3>1 DEF Outcome!Next
  <2> QED  BY <2>1, <2>2
<1>9. ASSUME NEW a \in Asks, Wake(a) PROVE Outcome!Next \/ UNCHANGED Outcome!vars
  <2>1. CASE outcome[a] = Open  BY <1>9, <2>1 DEF Wake, Outcome!vars
  <2>2. CASE outcome[a] # Open
    <3>1. a \in Stored /\ delivered[a] = Nothing  BY <1>9 DEF Wake, IInv, InHand
    <3>2. Outcome!Deliver(a)  BY <1>9, <2>2, <3>1 DEF Wake, Outcome!Deliver, Stored
    <3> QED  BY <3>2 DEF Outcome!Next
  <2> QED  BY <2>1, <2>2
<1>10. CASE \E c \in Clickers, a \in Asks, i \in Indices : Fetch(c, a, i)
  BY <1>10 DEF Fetch, Outcome!vars
<1>11. CASE Tick \/ UNCHANGED vars  BY <1>11 DEF Tick, vars, Outcome!vars
<1>12. CASE DeclineAll  BY <1>6, <1>12 DEF DeclineAll
<1>13. ASSUME NEW a \in Asks, Withdraw(a) PROVE Outcome!Next  BY <1>6, <1>13 DEF Withdraw
<1> QED
  BY <1>1, <1>2, <1>3, <1>4, <1>5, <1>7, <1>8, <1>9, <1>10, <1>11, <1>12, <1>13 DEF Next

\* The ask lane keeps the safety of its promise: every behaviour of its threads is,
\* question by question, one outcome first come and for good, and one thing heard
\* (PendingAsk._settle, _ask_poll, _answer). TLC checks the fairness part.
THEOREM PromiseKept == Spec => Outcome!Safe
<1>1. Init => Outcome!Init  BY InitRefines
<1>2. IInv /\ [Next]_vars => [Outcome!Next]_(Outcome!vars)  BY NextRefines
<1> QED  BY <1>1, <1>2, InitIInv, NextIInv, PTL DEF Spec, Outcome!Safe

\* What the promise holds to at every moment, from its steps alone and the types.
LEMMA OneTruthKept ==
  ASSUME TypeOK, Outcome!OneTruth, [Outcome!Next]_(Outcome!vars)
  PROVE  Outcome!OneTruth'
<1>1. \A i : Answered(i) # Open  BY DEF Answered, Open
<1>2. outcome \in [Asks -> Outcomes \cup {Open}] /\ told \subseteq Asks \X Options
      /\ delivered \in [Asks -> Outcomes \cup {Nothing, UnknownId}]
  BY DEF TypeOK
<1>3. \A t \in told : t[1] \in Asks /\ outcome[t[1]] = Answered(t[2])
  BY <1>2 DEF Outcome!OneTruth
<1>4. \A a \in Asks : delivered[a] \in {Nothing, UnknownId, outcome[a]}
  BY DEF Outcome!OneTruth
<1>5. Open \notin Outcomes /\ Open # Nothing /\ Open # UnknownId
  BY OutcomesApart DEF Open, Nothing, UnknownId
<1>6. ASSUME NEW a \in Asks, NEW o, outcome[a] = Open, outcome' = [outcome EXCEPT ![a] = o],
             UNCHANGED delivered
      PROVE  \A b \in Asks : delivered'[b] \in {Nothing, UnknownId, outcome'[b]}
  <2>1. delivered[a] # Open  BY <1>2, <1>5
  <2> QED  BY <1>2, <1>4, <1>6, <2>1
<1>7. ASSUME NEW a \in Asks, Outcome!Settle(a) PROVE Outcome!OneTruth'
  <2>1. CASE \E o \in {Declined, Expired} :
               outcome' = [outcome EXCEPT ![a] = o] /\ UNCHANGED told
    <3>1. PICK o \in {Declined, Expired} : outcome' = [outcome EXCEPT ![a] = o]  BY <2>1
    <3>2. \A t \in told' : outcome'[t[1]] = Answered(t[2])
      BY <1>1, <1>2, <1>3, <1>7, <2>1, <3>1 DEF Outcome!Settle
    <3> QED  BY <1>6, <1>7, <3>1, <3>2 DEF Outcome!Settle, Outcome!OneTruth
  <2>2. CASE \E i \in Options : /\ outcome' = [outcome EXCEPT ![a] = Answered(i)]
                                /\ told' = told \cup {<<a, i>>}
    <3>1. PICK i \in Options : /\ outcome' = [outcome EXCEPT ![a] = Answered(i)]
                               /\ told' = told \cup {<<a, i>>}
      BY <2>2
    <3>2. \A t \in told : t[1] # a /\ t[1] \in Asks  BY <1>1, <1>3, <1>7 DEF Outcome!Settle
    <3>3. \A t \in told : outcome'[t[1]] = Answered(t[2])  BY <1>2, <1>3, <3>1, <3>2
    <3>4. outcome'[a] = Answered(i)  BY <1>2, <3>1
    <3>5. \A t \in told' : outcome'[t[1]] = Answered(t[2])  BY <3>1, <3>3, <3>4
    <3> QED  BY <1>6, <1>7, <3>1, <3>5 DEF Outcome!Settle, Outcome!OneTruth
  <2> QED  BY <1>7, <2>1, <2>2 DEF Outcome!Settle
<1>8. ASSUME NEW a \in Asks, Outcome!Deliver(a) \/ Outcome!Refuse(a) PROVE Outcome!OneTruth'
  BY <1>2, <1>3, <1>4, <1>8 DEF Outcome!Deliver, Outcome!Refuse, Outcome!OneTruth
<1>9. CASE UNCHANGED <<outcome, told, delivered>>  BY <1>9 DEF Outcome!OneTruth
<1> QED
  BY <1>7, <1>8, <1>9 DEF Outcome!Next, Outcome!vars, Outcome!Ask, Outcome!LetGo

\* A click that was told it counted is the outcome, for good, and a session that heard
\* of an outcome heard that one (_answer's reply, _ask_poll's).
THEOREM ClickIsOutcome == Spec => []Outcome!OneTruth
<1>1. Init => Outcome!OneTruth  BY DEF Init, Outcome!OneTruth
<1>2. IInv /\ Outcome!OneTruth /\ [Next]_vars => Outcome!OneTruth'
  BY NextRefines, OneTruthKept DEF IInv
<1> QED  BY <1>1, <1>2, InitIInv, NextIInv, PTL DEF Spec
=============================================================================
