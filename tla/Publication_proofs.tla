------------------------- MODULE Publication_proofs -------------------------
(***************************************************************************)
(* Publication for every number of requests, variants, pages and saves:    *)
(* the types and the stream cap, that a page reads its own save, that a    *)
(* later revision never shows older stores, and that a stream is current.  *)
(* IInv is inductive: who holds the collect lock, what a body may be older *)
(* than, and that bodies come out in the order of the stores. HInv rests   *)
(* on it: what each page has been sent, or waits for.                      *)
(***************************************************************************)
EXTENDS Publication, TLAPS, FiniteSetTheorems

Types ==
  /\ version \in Nat /\ saving \subseteq Nat /\ cleared \in Nat
  /\ entries \in [Variants -> Entry]
  /\ counter \in Nat /\ generation \in Nat /\ gets \in Nat
  /\ holder \in Readers \cup {Nobody}
  /\ get \in [Readers -> GetState]
  /\ offering \subseteq Clients
  /\ client \in [Clients -> ClientState]

Capped == Cardinality(Connected) <= MaxClients

\* From the lock to its release a request holds collect_memo_lock, so alone.
Holding == {"relook", "retake", "generation", "collect", "publish", "announce", "offer"}
Locked == \A r \in Readers : get[r].at \in Holding => holder = r

\* No clear ran for a save the stores do not hold yet, and no request's floor is
\* above the clears; a noted generation is not ahead of the snapshot's.
Floors ==
  /\ cleared <= version /\ \A v \in saving : v <= version
  /\ \A r \in Readers : get[r].floor <= cleared /\ get[r].gen <= generation

\* A kept body, and one about to be kept, is as new as every clear.
KeptNew ==
  /\ \A k \in Variants : entries[k].rev # 0 => entries[k].ver >= cleared
  /\ \A r \in Readers : In(r, "publish") /\ get[r].gen = generation => get[r].ver >= cleared

\* A request's body is as new as its floor from the read on.
AnswerNew ==
  \A r \in Readers : get[r].at \in {"publish", "announce", "offer", "replied"}
                     => get[r].ver >= get[r].floor

\* The bodies that are out, by revision and by what they show.
Done(r) == get[r].at \in {"announce", "offer", "replied"}
Out == {<<entries[k].rev, entries[k].ver>> : k \in {j \in Variants : entries[j].rev # 0}}
       \cup {<<get[r].rev, get[r].ver>> : r \in {q \in Readers : Done(q)}}

\* They are no later than the counter and the stores, ordered by their revision,
\* and no newer than what the one collection about to publish has read.
Ordered ==
  /\ \A b \in Out : b[1] <= counter /\ b[2] <= version
  /\ \A b, c \in Out : b[1] < c[1] => b[2] <= c[2]
  /\ \A r \in Readers : In(r, "publish") =>
       get[r].ver <= version /\ \A b \in Out : b[2] <= get[r].ver

IInv == Types /\ Capped /\ Locked /\ Floors /\ KeptNew /\ AnswerNew /\ Ordered
-----------------------------------------------------------------------------
\* Every body out has a revision and a version.
LEMMA OutTyped == ASSUME Types PROVE \A b \in Out : b[1] \in Nat /\ b[2] \in Nat
BY DEF Types, Out, Entry, GetState

\* A step that puts no new body out, mints no revision and publishes from no other
\* read keeps them ordered.
LEMMA OrderedKept ==
  ASSUME Types, Types', Ordered, Out' \subseteq Out, counter' >= counter, version' >= version,
         \A r \in Readers : In(r, "publish")' => In(r, "publish") /\ get'[r].ver = get[r].ver
  PROVE  Ordered'
<1>1. \A b \in Out : b[1] \in Nat /\ b[2] \in Nat  BY OutTyped
<1>2. counter \in Nat /\ counter' \in Nat /\ version \in Nat /\ version' \in Nat
  BY DEF Types
<1>3. \A r \in Readers : get[r].ver \in Nat  BY DEF Types, GetState
<1>4. \A b \in Out' : b[1] <= counter' /\ b[2] <= version'  BY <1>1, <1>2 DEF Ordered
<1>5. \A b, c \in Out' : b[1] < c[1] => b[2] <= c[2]  BY DEF Ordered
<1>6. \A r \in Readers : In(r, "publish")' =>
        get'[r].ver <= version' /\ \A b \in Out' : b[2] <= get'[r].ver
  BY <1>2, <1>3 DEF Ordered
<1> QED  BY <1>4, <1>5, <1>6 DEF Ordered

\* The connected pages are finitely many.
LEMMA ConnectedFinite == IsFiniteSet(Connected) /\ Cardinality(Connected) \in Nat
<1>1. Connected \subseteq Clients  BY DEF Connected
<1> QED  BY <1>1, PublicationAssumption, FS_Subset, FS_CardinalityType DEF PublicationAssumption

\* Nothing is out at the start, and nobody asks.
LEMMA InitIInv == Init => IInv
<1> SUFFICES ASSUME Init PROVE IInv  OBVIOUS
<1>1. Types
  BY PublicationAssumption DEF PublicationAssumption, Init, Types, Entry, None, GetState, ClientState
<1>2. Connected = {}  BY DEF Init, Connected
<1>3. Capped  BY <1>2, FS_EmptySet, PublicationAssumption DEF Capped, PublicationAssumption
<1>4. Out = {}  BY DEF Init, Out, None, Done
<1>5. Locked /\ Floors /\ KeptNew /\ AnswerNew
  BY DEF Init, Locked, Holding, Floors, KeptNew, AnswerNew, None, In
<1>6. Ordered  BY <1>4 DEF Init, Ordered, In
<1> QED  BY <1>1, <1>3, <1>5, <1>6 DEF IInv
-----------------------------------------------------------------------------
\* A save, a clear and the passing of the floor: no request and no page moves.
LEMMA StoreStep ==
  ASSUME IInv, Save \/ (\E v \in saving : Clear(v)) \/ (\E k \in Variants : Stale(k))
  PROVE  IInv'
<1> USE DEF In
<1>a. Types /\ Capped /\ Locked /\ Floors /\ KeptNew /\ AnswerNew /\ Ordered  BY DEF IInv
<1>1. CASE Save
  <2> USE <1>1 DEF Save
  <2>1. Types'  BY <1>a DEF Types
  <2>2. Capped' /\ Locked' /\ KeptNew' /\ AnswerNew'
    BY <1>a DEF Capped, Connected, Locked, KeptNew, AnswerNew
  <2>3. Floors'  BY <1>a DEF Floors, Types
  <2>4. Ordered'  BY <1>a, <2>1, OrderedKept DEF Types, Out, Done
  <2> QED  BY <2>1, <2>2, <2>3, <2>4 DEF IInv
<1>2. ASSUME NEW v \in saving, Clear(v) PROVE IInv'
  <2> USE <1>2 DEF Clear
  <2>0. v \in Nat  BY <1>a DEF Types
  <2>1. Types'  BY <1>a, <2>0 DEF Types, Entry, None
  <2>2. Capped' /\ Locked' /\ AnswerNew'  BY <1>a DEF Capped, Connected, Locked, AnswerNew
  <2>3. Floors'  BY <1>a, <2>0 DEF Floors, Types, GetState
  <2>4. KeptNew'  BY <1>a DEF KeptNew, Floors, Types, GetState, None
  <2>5. Out' \subseteq Out  BY DEF Out, Done, None
  <2>6. Ordered'  BY <1>a, <2>1, <2>5, OrderedKept DEF Types
  <2> QED  BY <2>1, <2>2, <2>3, <2>4, <2>6 DEF IInv
<1>3. ASSUME NEW k \in Variants, Stale(k) PROVE IInv'
  <2> USE <1>3 DEF Stale
  <2>1. Types'  BY <1>a DEF Types, Entry
  <2>2. \A j \in Variants : entries'[j].rev = entries[j].rev /\ entries'[j].ver = entries[j].ver
    BY <1>a DEF Types, Entry
  <2>3. Capped' /\ Locked' /\ AnswerNew' /\ Floors'
    BY <1>a DEF Capped, Connected, Locked, AnswerNew, Floors
  <2>4. KeptNew'  BY <1>a, <2>2 DEF KeptNew
  <2>5. Out' \subseteq Out  BY <2>2 DEF Out, Done
  <2>6. Ordered'  BY <1>a, <2>1, <2>5, OrderedKept DEF Types
  <2> QED  BY <2>1, <2>3, <2>4, <2>6 DEF IInv
<1> QED  BY <1>1, <1>2, <1>3

-----------------------------------------------------------------------------
\* A request begins, and its floor is every clear so far.
LEMMA GetStep ==
  ASSUME IInv, NEW r \in Readers, NEW k \in Variants, Get(r, k) PROVE IInv'
<1> USE DEF Get, StoresKept, In
<1>a. Types /\ Capped /\ Locked /\ Floors /\ KeptNew /\ AnswerNew /\ Ordered  BY DEF IInv
<1>b. get \in [Readers -> GetState] /\ get[r] \in GetState  BY <1>a DEF Types
<1>0. get' \in [Readers -> GetState]
  <2>1. cleared \in Nat  BY <1>a DEF Types
  <2>2. [get[r] EXCEPT !.at = "look", !.key = k, !.floor = cleared] \in GetState
    BY <1>b, <2>1 DEF GetState
  <2>3. get' = [get EXCEPT ![r] = [get[r] EXCEPT !.at = "look", !.key = k, !.floor = cleared]]
    BY <1>b DEF GetState
  <2> QED  BY <1>b, <2>2, <2>3
<1>1. Types'  BY <1>a, <1>0 DEF Types
<1>2. \A q \in Readers : q # r => get'[q] = get[q]  BY <1>b
<1>3. get'[r].at = "look" /\ get'[r].floor = cleared /\ get'[r].gen = get[r].gen
  BY <1>b DEF GetState
<1>4. Capped'  BY <1>a DEF Capped, Connected
<1>5. Locked'  BY <1>a, <1>2, <1>3 DEF Locked, Holding
<1>6. Floors'  BY <1>a, <1>2, <1>3 DEF Floors, Types
<1>7. KeptNew' /\ AnswerNew'  BY <1>a, <1>2, <1>3 DEF KeptNew, AnswerNew
<1>8. Out' \subseteq Out  BY <1>2, <1>3 DEF Out, Done
<1>9. Ordered'  BY <1>a, <1>1, <1>2, <1>3, <1>8, OrderedKept DEF Types
<1> QED  BY <1>1, <1>4, <1>5, <1>6, <1>7, <1>9 DEF IInv

\* A request that only moves, before its collection or after its body is out.
LEMMA MoveStep ==
  ASSUME IInv, NEW r \in Readers, NEW stage, Moves(r, stage), StoresKept,
         UNCHANGED <<entries, counter, generation, gets>>,
         stage \in {"idle", "take", "lock", "relook", "retake", "generation", "offer", "replied"},
         stage \in {"offer", "replied"} => Done(r),
         stage \in Holding => holder' = r,
         holder' # holder => (holder = Nobody \/ holder = r) /\ holder' \in Readers \cup {Nobody},
         offering' \subseteq Clients
  PROVE  IInv'
<1> USE DEF Moves, StoresKept, In
<1>a. Types /\ Capped /\ Locked /\ Floors /\ KeptNew /\ AnswerNew /\ Ordered  BY DEF IInv
<1>b. get \in [Readers -> GetState] /\ get[r] \in GetState  BY <1>a DEF Types
<1>c. get' \in [Readers -> GetState]  BY <1>b DEF GetState
<1>1. Types'  BY <1>a, <1>c DEF Types
<1>2. \A q \in Readers : q # r => get'[q] = get[q]  BY <1>b
<1>3. /\ get'[r].at = stage /\ get'[r].floor = get[r].floor /\ get'[r].gen = get[r].gen
      /\ get'[r].ver = get[r].ver /\ get'[r].rev = get[r].rev
  BY <1>b DEF GetState
<1>4. Capped'  BY <1>a DEF Capped, Connected
<1>5. Locked'
  <2> SUFFICES ASSUME NEW q \in Readers, get'[q].at \in Holding PROVE holder' = q
    BY DEF Locked
  <2>1. CASE q = r  BY <2>1, <1>3
  <2>2. CASE q # r
    <3>1. holder = q  BY <2>2, <1>2, <1>a DEF Locked
    <3>2. holder' = holder  BY <2>2, <3>1, <1>a, PublicationAssumption
      DEF Types, Nobody, PublicationAssumption
    <3> QED  BY <3>1, <3>2
  <2> QED  BY <2>1, <2>2
<1>6. Floors'  BY <1>a, <1>2, <1>3 DEF Floors
<1>7. KeptNew'  BY <1>a, <1>2, <1>3 DEF KeptNew
<1>8. AnswerNew'  BY <1>a, <1>2, <1>3 DEF AnswerNew, Done
<1>9. Out' \subseteq Out  BY <1>2, <1>3 DEF Out, Done
<1>10. Ordered'  BY <1>a, <1>1, <1>2, <1>3, <1>9, OrderedKept DEF Types
<1> QED  BY <1>1, <1>4, <1>5, <1>6, <1>7, <1>8, <1>10 DEF IInv

\* The looks, the lock, a collection that raises and the two ends of an
\* announcement are such moves.
LEMMA MovesStep ==
  ASSUME IInv, NEW r \in Readers,
         Look(r) \/ Lock(r) \/ CollectFails(r) \/ List(r) \/ Announced(r)
  PROVE  IInv'
<1>a. Types /\ Locked  BY DEF IInv
<1>b. offering \subseteq Clients /\ holder \in Readers \cup {Nobody}  BY <1>a DEF Types
<1>1. CASE Look(r)
  <2>1. CASE In(r, "look")
    BY <1>1, <2>1, <1>b, MoveStep DEF Look, In, Holding
  <2>2. CASE In(r, "relook")
    <3>1. holder = r  BY <2>2, <1>a DEF Locked, Holding, In
    <3> QED  BY <1>1, <2>2, <3>1, <1>b, MoveStep DEF Look, In, Holding
  <2> QED  BY <1>1, <2>1, <2>2 DEF Look
<1>2. CASE Lock(r)  BY <1>2, <1>b, MoveStep DEF Lock, In, Holding
<1>3. CASE List(r)
  <2>1. holder = r /\ Done(r)  BY <1>3, <1>a DEF List, Locked, Holding, In, Done
  <2>2. Connected \subseteq Clients  BY DEF Connected
  <2> QED  BY <1>3, <2>1, <2>2, MoveStep DEF List, Holding
<1>4. CASE Announced(r)
  <2>1. holder = r /\ Done(r)  BY <1>4, <1>a DEF Announced, Locked, Holding, In, Done
  <2> QED  BY <1>4, <2>1, <1>b, MoveStep DEF Announced, Holding
<1>5. CASE CollectFails(r)
  <2>1. holder = r  BY <1>5, <1>a DEF CollectFails, Locked, Holding, In
  <2> QED  BY <1>5, <2>1, <1>b, MoveStep DEF CollectFails, Holding
<1> QED  BY <1>1, <1>2, <1>3, <1>4, <1>5

\* A body inside the floor is handed out: it is one of those out already, and as
\* new as every clear. When a clear took it away meanwhile, the request goes on.
LEMMA TakeStep ==
  ASSUME IInv, NEW r \in Readers, Take(r) PROVE IInv'
<1> USE DEF In
<1>a. Types /\ Capped /\ Locked /\ Floors /\ KeptNew /\ AnswerNew /\ Ordered  BY DEF IInv
<1>b. get \in [Readers -> GetState] /\ get[r] \in GetState  BY <1>a DEF Types
<1> DEFINE k == get[r].key
           e == entries[k]
<1>c. k \in Variants /\ e \in Entry  BY <1>a, <1>b DEF Types, GetState
<1>d. In(r, "retake") => holder = r  BY <1>a DEF Locked, Holding
<1>e. offering \subseteq Clients /\ holder \in Readers \cup {Nobody}  BY <1>a DEF Types
<1>1. CASE e.rev = 0
  <2>1. CASE In(r, "take")
    <3>1. Moves(r, "lock") /\ UNCHANGED holder  BY <1>1, <2>1 DEF Take
    <3> QED  BY <3>1, <1>e, MoveStep DEF Take, Holding
  <2>2. CASE In(r, "retake")
    <3>1. Moves(r, "generation") /\ UNCHANGED holder  BY <1>1, <2>2 DEF Take
    <3> QED  BY <3>1, <2>2, <1>d, <1>e, MoveStep DEF Take, Holding
  <2> QED  BY <2>1, <2>2 DEF Take
<1>2. CASE e.rev # 0
  <2>0. /\ Replies(r, e.ver, e.rev) /\ StoresKept
        /\ holder' = IF In(r, "retake") THEN Nobody ELSE holder
        /\ UNCHANGED <<entries, counter, generation, offering, gets>>
    BY <1>2 DEF Take
  <2> DEFINE g == [get[r] EXCEPT !.at = "replied", !.ver = e.ver, !.rev = e.rev]
  <2>1. get' = [get EXCEPT ![r] = g] /\ g \in GetState
    BY <2>0, <1>b, <1>c DEF Replies, GetState, Entry
  <2>2. get' \in [Readers -> GetState] /\ get'[r] = g
        /\ \A q \in Readers : q # r => get'[q] = get[q]
    BY <2>1, <1>b
  <2>3. /\ get'[r].at = "replied" /\ get'[r].floor = get[r].floor /\ get'[r].gen = get[r].gen
        /\ get'[r].ver = e.ver /\ get'[r].rev = e.rev
    BY <2>2, <1>b DEF GetState
  <2>4. Types'  BY <1>a, <1>e, <2>0, <2>2 DEF Types, StoresKept
  <2>5. Capped'  BY <1>a, <2>0 DEF Capped, Connected, StoresKept
  <2>6. Locked'
    <3> SUFFICES ASSUME NEW q \in Readers, get'[q].at \in Holding PROVE holder' = q
      BY DEF Locked
    <3>1. q # r  BY <2>3 DEF Holding
    <3>2. holder = q  BY <3>1, <2>2, <1>a DEF Locked
    <3>3. ~In(r, "retake")  BY <3>1, <3>2, <1>d
    <3>4. holder' = holder  BY <3>3, <2>0
    <3> QED  BY <3>2, <3>4
  <2>7. Floors'  BY <1>a, <2>0, <2>2, <2>3 DEF Floors, StoresKept
  <2>8. KeptNew'  BY <1>a, <2>0, <2>2, <2>3 DEF KeptNew, StoresKept
  <2>9. AnswerNew'
    <3>1. e.ver >= cleared /\ cleared >= get[r].floor
      BY <1>a, <1>c, <1>2 DEF KeptNew, Floors
    <3>2. e.ver >= get[r].floor  BY <3>1, <1>a, <1>b, <1>c DEF Types, Entry, GetState
    <3> QED  BY <1>a, <2>2, <2>3, <3>2 DEF AnswerNew
  <2>10. Out' \subseteq Out
    <3>1. <<e.rev, e.ver>> \in Out  BY <1>c, <1>2 DEF Out
    <3> QED  BY <3>1, <2>0, <2>2, <2>3 DEF Out, Done
  <2>11. \A q \in Readers : In(q, "publish")' => In(q, "publish") /\ get'[q].ver = get[q].ver
    BY <2>2, <2>3
  <2>12. counter' = counter /\ version' = version /\ counter \in Nat /\ version \in Nat
    BY <2>0, <1>a DEF StoresKept, Types
  <2>13. Ordered'  BY <1>a, <2>4, <2>10, <2>11, <2>12, OrderedKept
  <2> QED  BY <2>4, <2>5, <2>6, <2>7, <2>8, <2>9, <2>13 DEF IInv
<1> QED  BY <1>1, <1>2

\* The generation is noted before the read.
LEMMA GenerationStep ==
  ASSUME IInv, NEW r \in Readers, Generation(r) PROVE IInv'
<1> USE DEF Generation, StoresKept, In
<1>a. Types /\ Capped /\ Locked /\ Floors /\ KeptNew /\ AnswerNew /\ Ordered  BY DEF IInv
<1>b. get \in [Readers -> GetState] /\ get[r] \in GetState /\ generation \in Nat
  BY <1>a DEF Types
<1> DEFINE g == [get[r] EXCEPT !.at = "collect", !.gen = generation]
<1>1. g \in GetState /\ get' = [get EXCEPT ![r] = g]  BY <1>b DEF GetState
<1>2. get' \in [Readers -> GetState] /\ get'[r] = g
      /\ \A q \in Readers : q # r => get'[q] = get[q]
  BY <1>1, <1>b
<1>3. g.at = "collect" /\ g.floor = get[r].floor /\ g.gen = generation  BY <1>b DEF GetState
<1>4. Types'  BY <1>a, <1>2 DEF Types
<1>5. Capped'  BY <1>a DEF Capped, Connected
<1>6. Locked'  BY <1>a, <1>2, <1>3 DEF Locked, Holding
<1>7. Floors'  BY <1>a, <1>b, <1>2, <1>3 DEF Floors
<1>8. KeptNew' /\ AnswerNew'  BY <1>a, <1>2, <1>3 DEF KeptNew, AnswerNew
<1>9. Out' \subseteq Out  BY <1>2, <1>3 DEF Out, Done
<1>10. Ordered'  BY <1>a, <1>2, <1>3, <1>4, <1>9, OrderedKept DEF Types
<1> QED  BY <1>4, <1>5, <1>6, <1>7, <1>8, <1>10 DEF IInv

\* The read shows every save so far, so it is newer than every clear and than
\* every body that is out.
LEMMA CollectStep ==
  ASSUME IInv, NEW r \in Readers, Collect(r) PROVE IInv'
<1> USE DEF Collect, StoresKept, In
<1>a. Types /\ Capped /\ Locked /\ Floors /\ KeptNew /\ AnswerNew /\ Ordered  BY DEF IInv
<1>b. get \in [Readers -> GetState] /\ get[r] \in GetState /\ version \in Nat /\ cleared \in Nat
  BY <1>a DEF Types
<1> DEFINE g == [get[r] EXCEPT !.at = "publish", !.ver = version]
<1>1. g \in GetState /\ get' = [get EXCEPT ![r] = g]  BY <1>b DEF GetState
<1>2. get' \in [Readers -> GetState] /\ get'[r] = g
      /\ \A q \in Readers : q # r => get'[q] = get[q]
  BY <1>1, <1>b
<1>3. /\ g.at = "publish" /\ g.floor = get[r].floor /\ g.gen = get[r].gen /\ g.ver = version
      /\ get[r].floor \in Nat
  BY <1>b DEF GetState
<1>4. Types'  BY <1>a, <1>2 DEF Types
<1>5. Capped'  BY <1>a DEF Capped, Connected
<1>6. Locked'  BY <1>a, <1>2, <1>3 DEF Locked, Holding
<1>7. Floors'  BY <1>a, <1>2, <1>3 DEF Floors
<1>8. KeptNew'  BY <1>a, <1>2, <1>3 DEF KeptNew, Floors
<1>9. AnswerNew'
  <2>1. version >= get[r].floor  BY <1>a, <1>b, <1>3 DEF Floors
  <2> QED  BY <1>a, <1>2, <1>3, <2>1 DEF AnswerNew
<1>10. Out' \subseteq Out  BY <1>2, <1>3 DEF Out, Done
<1>11. Ordered'
  <2>1. /\ \A b \in Out' : b[1] <= counter' /\ b[2] <= version'
        /\ \A b, c \in Out' : b[1] < c[1] => b[2] <= c[2]
    BY <1>a, <1>10 DEF Ordered
  <2>2. \A q \in Readers : q # r => ~In(q, "publish")'
    <3>1. holder = r  BY <1>a DEF Locked, Holding
    <3> QED  BY <1>a, <1>2, <3>1 DEF Locked, Holding
  <2>3. get'[r].ver <= version' /\ \A b \in Out' : b[2] <= get'[r].ver
    BY <1>b, <1>2, <1>3, <2>1
  <2> QED  BY <2>1, <2>2, <2>3 DEF Ordered
<1> QED  BY <1>4, <1>5, <1>6, <1>7, <1>8, <1>9, <1>11 DEF IInv

\* The new body has the highest revision and shows what no other is newer than.
LEMMA PublishStep ==
  ASSUME IInv, NEW r \in Readers, Publish(r) PROVE IInv'
<1> USE DEF StoresKept, In
<1>a. Types /\ Capped /\ Locked /\ Floors /\ KeptNew /\ AnswerNew /\ Ordered  BY DEF IInv
<1>b. get \in [Readers -> GetState] /\ get[r] \in GetState /\ counter \in Nat
      /\ entries \in [Variants -> Entry] /\ holder \in Readers \cup {Nobody}
  BY <1>a DEF Types
<1>c. get[r].key \in Variants /\ get[r].ver \in Nat  BY <1>b DEF GetState
<1>d. holder = r /\ get[r].at = "publish"  BY <1>a DEF Publish, Locked, Holding
<1> DEFINE kept == get[r].gen = generation
           stage == IF kept THEN "announce" ELSE "replied"
           g == [get[r] EXCEPT !.at = stage, !.rev = counter + 1]
           e == [rev |-> counter + 1, ver |-> get[r].ver, fresh |-> TRUE]
<1>1. /\ get' = [get EXCEPT ![r] = g] /\ counter' = counter + 1
      /\ entries' = IF kept THEN [entries EXCEPT ![get[r].key] = e] ELSE entries
      /\ holder' = IF kept THEN r ELSE Nobody
      /\ StoresKept /\ UNCHANGED <<generation, offering, gets>>
  <2>1. CASE kept  BY <2>1, <1>b, <1>d DEF Publish, GetState
  <2>2. CASE ~kept
    <3>1. [get[r] EXCEPT !.at = "replied", !.ver = get[r].ver, !.rev = counter + 1] = g
      BY <2>2, <1>b DEF GetState
    <3> QED  BY <2>2, <3>1, <1>b DEF Publish, Replies, GetState
  <2> QED  BY <2>1, <2>2
<1>e. stage \in {"announce", "replied"} /\ (stage = "announce" <=> kept)  OBVIOUS
<1>f. counter + 1 \in Nat  BY <1>b
<1> HIDE DEF stage, kept
<1>2. g \in GetState /\ e \in Entry  BY <1>b, <1>c, <1>e, <1>f DEF GetState, Entry
<1>3. get' \in [Readers -> GetState] /\ get'[r] = g
      /\ \A q \in Readers : q # r => get'[q] = get[q]
  BY <1>1, <1>2, <1>b
<1>4. /\ g.at = stage /\ g.floor = get[r].floor /\ g.gen = get[r].gen /\ g.ver = get[r].ver
      /\ g.rev = counter + 1 /\ e.rev = counter + 1 /\ e.ver = get[r].ver
  BY <1>b DEF GetState
<1>5. /\ entries' \in [Variants -> Entry]
      /\ \A k \in Variants : entries'[k] = entries[k] \/ (kept /\ entries'[k] = e)
  BY <1>1, <1>2, <1>b
<1>6. Types'
  <2>1. holder' \in Readers \cup {Nobody}  BY <1>1
  <2> QED  BY <1>a, <1>1, <1>3, <1>5, <2>1 DEF Types
<1>7. Capped'  BY <1>a, <1>1 DEF Capped, Connected
<1>8. Locked'
  <2> SUFFICES ASSUME NEW q \in Readers, get'[q].at \in Holding PROVE holder' = q
    BY DEF Locked
  <2>1. CASE q = r  BY <2>1, <1>1, <1>3, <1>4, <1>e DEF Holding
  <2>2. CASE q # r  BY <2>2, <1>3, <1>a, <1>d DEF Locked
  <2> QED  BY <2>1, <2>2
<1>9. Floors'  BY <1>a, <1>1, <1>3, <1>4 DEF Floors
<1>10. KeptNew'
  <2>1. \A k \in Variants : entries'[k].rev # 0 => entries'[k].ver >= cleared
    BY <1>a, <1>d, <1>4, <1>5 DEF KeptNew, kept
  <2>2. \A q \in Readers : In(q, "publish")' => q # r  BY <1>3, <1>4, <1>e
  <2> QED  BY <1>a, <1>1, <1>3, <2>1, <2>2 DEF KeptNew
<1>11. AnswerNew'  BY <1>a, <1>d, <1>3, <1>4 DEF AnswerNew
<1>12. Ordered'
  <2> DEFINE new == <<counter + 1, get[r].ver>>
  <2>1. Out' \subseteq Out \cup {new}
    <3> SUFFICES ASSUME NEW b \in Out' PROVE b \in Out \cup {new}  OBVIOUS
    <3>1. CASE \E k \in Variants : entries'[k].rev # 0 /\ b = <<entries'[k].rev, entries'[k].ver>>
      <4>1. PICK k \in Variants : entries'[k].rev # 0 /\ b = <<entries'[k].rev, entries'[k].ver>>
        BY <3>1
      <4>2. CASE entries'[k] = entries[k]  BY <4>1, <4>2 DEF Out
      <4>3. CASE entries'[k] = e  BY <4>1, <4>3, <1>4
      <4> QED  BY <4>2, <4>3, <1>5
    <3>2. CASE \E q \in Readers : Done(q)' /\ b = <<get'[q].rev, get'[q].ver>>
      <4>1. PICK q \in Readers : Done(q)' /\ b = <<get'[q].rev, get'[q].ver>>  BY <3>2
      <4>2. CASE q = r  BY <4>1, <4>2, <1>3, <1>4
      <4>3. CASE q # r  BY <4>1, <4>3, <1>3 DEF Out, Done
      <4> QED  BY <4>2, <4>3
    <3> QED  BY <3>1, <3>2 DEF Out
  <2>2. \A b \in Out : b[1] \in Nat /\ b[2] \in Nat /\ b[1] <= counter
                       /\ b[2] <= version /\ b[2] <= get[r].ver
    BY <1>a, <1>d, OutTyped DEF Ordered
  <2>3. get[r].ver <= version /\ version' = version  BY <1>a, <1>d, <1>1 DEF Ordered
  <2>4. \A b \in Out' : b[1] <= counter' /\ b[2] <= version'
    BY <2>1, <2>2, <2>3, <1>b, <1>1
  <2>5. \A b, c \in Out' : b[1] < c[1] => b[2] <= c[2]
    BY <2>1, <2>2, <1>a, <1>b, <1>c DEF Ordered
  <2>6. \A q \in Readers : ~In(q, "publish")'
    <3> SUFFICES ASSUME NEW q \in Readers, get'[q].at = "publish" PROVE FALSE  OBVIOUS
    <3>1. q # r  BY <1>3, <1>4, <1>e
    <3> QED  BY <3>1, <1>3, <1>a, <1>d DEF Locked, Holding
  <2> QED  BY <2>4, <2>5, <2>6 DEF Ordered
<1> QED  BY <1>6, <1>7, <1>8, <1>9, <1>10, <1>11, <1>12 DEF IInv

-----------------------------------------------------------------------------
\* A step that only changes a page, or the pages still to be told.
LEMMA PageStep ==
  ASSUME IInv, client' \in [Clients -> ClientState], offering' \subseteq Clients,
         Cardinality(Connected') <= MaxClients,
         UNCHANGED <<version, saving, cleared, entries, counter, generation, holder, get, gets>>
  PROVE  IInv'
<1>a. Types /\ Capped /\ Locked /\ Floors /\ KeptNew /\ AnswerNew /\ Ordered  BY DEF IInv
<1>1. Types'  BY <1>a DEF Types
<1>2. Capped'  BY DEF Capped
<1>3. Locked' /\ Floors' /\ KeptNew' /\ AnswerNew'
  BY <1>a DEF Locked, Floors, KeptNew, AnswerNew, In
<1>4. Ordered'  BY <1>a DEF Ordered, Out, Done, In
<1> QED  BY <1>1, <1>2, <1>3, <1>4 DEF IInv

\* The steps of the stream: only a registration connects one page more, and it
\* looks at the cap first.
LEMMA StreamStep ==
  ASSUME IInv,
         \/ \E r \in Readers, c \in Clients : Offer(r, c)
         \/ \E c \in Clients : Connect(c) \/ Greet(c) \/ Emit(c) \/ Leave(c)
         \/ CloseAll
  PROVE  IInv'
<1>a. Types /\ Cardinality(Connected) <= MaxClients  BY DEF IInv, Capped
<1>b. /\ client \in [Clients -> ClientState] /\ offering \subseteq Clients
      /\ entries \in [Variants -> Entry] /\ get \in [Readers -> GetState]
  BY <1>a DEF Types
<1>c. MaxClients \in Nat /\ Main \in Variants
  BY PublicationAssumption DEF PublicationAssumption
<1>d. ASSUME Connected' \subseteq Connected PROVE Cardinality(Connected') <= MaxClients
  <2>1. Cardinality(Connected') <= Cardinality(Connected)  BY <1>d, ConnectedFinite, FS_Subset
  <2>2. Cardinality(Connected') \in Nat
    BY <1>d, ConnectedFinite, FS_Subset, FS_CardinalityType
  <2> QED  BY <2>1, <2>2, <1>a, <1>c, ConnectedFinite
<1>1. ASSUME NEW r \in Readers, NEW c \in Clients, Offer(r, c) PROVE IInv'
  <2>1. client' \in [Clients -> ClientState]  BY <1>1, <1>b DEF Offer, ClientState, GetState
  <2>2. Connected' \subseteq Connected  BY <1>1, <1>b DEF Offer, Connected, ClientState
  <2>3. offering' \subseteq Clients  BY <1>1, <1>b DEF Offer
  <2> QED  BY <1>1, <2>1, <2>2, <2>3, <1>d, PageStep DEF Offer
<1>2. ASSUME NEW c \in Clients, Connect(c) PROVE IInv'
  <2> USE <1>2 DEF Connect, Streams
  <2>1. client' \in [Clients -> ClientState]  BY <1>b DEF ClientState
  <2>2. Connected' \subseteq Connected \cup {c}  BY <1>b DEF Connected, ClientState
  <2>3. IsFiniteSet(Connected \cup {c})
        /\ Cardinality(Connected \cup {c}) <= Cardinality(Connected) + 1
    <3>1. IsFiniteSet(Connected) /\ Cardinality(Connected) \in Nat  BY ConnectedFinite
    <3>2. IsFiniteSet(Connected \cup {c})
          /\ \/ Cardinality(Connected \cup {c}) = Cardinality(Connected)
             \/ Cardinality(Connected \cup {c}) = Cardinality(Connected) + 1
      BY <3>1, FS_AddElement
    <3> QED  BY <3>1, <3>2
  <2>4. Cardinality(Connected') <= Cardinality(Connected \cup {c}) /\ IsFiniteSet(Connected')
    BY <2>2, <2>3, FS_Subset
  <2>5. /\ Cardinality(Connected') \in Nat /\ Cardinality(Connected \cup {c}) \in Nat
        /\ Cardinality(Connected) \in Nat
    BY <2>3, <2>4, FS_CardinalityType, ConnectedFinite
  <2>6. Cardinality(Connected') <= MaxClients  BY <2>3, <2>4, <2>5, <1>c
  <2> QED  BY <2>1, <2>6, <1>b, PageStep
<1>3. ASSUME NEW c \in Clients, Greet(c) \/ Emit(c) \/ Leave(c) PROVE IInv'
  <2>1. client' \in [Clients -> ClientState]
    <3>1. client[c] \in ClientState /\ entries[Main].rev \in Nat  BY <1>b, <1>c DEF Entry
    <3>2. [at |-> "gone", mail |-> 0, last |-> 0] \in ClientState  BY DEF ClientState
    <3>3. CASE Greet(c)  BY <3>1, <3>3, <1>b DEF Greet, Streams, ClientState
    <3>4. CASE Emit(c)  BY <3>1, <3>4, <1>b DEF Emit, Streams, ClientState
    <3>5. CASE Leave(c)  BY <3>2, <3>5, <1>b DEF Leave, Streams
    <3> QED  BY <1>3, <3>3, <3>4, <3>5
  <2>2. Connected' \subseteq Connected
    <3>1. /\ c \in Connected
          /\ \A d \in Clients : d # c => client'[d] = client[d]
      BY <1>3, <1>b DEF Greet, Emit, Leave, Streams, Connected
    <3> QED  BY <3>1 DEF Connected
  <2>3. UNCHANGED <<version, saving, cleared, entries, counter, generation, holder, get,
                    offering, gets>>
    BY <1>3 DEF Greet, Emit, Leave, Streams
  <2> QED  BY <2>1, <2>2, <2>3, <1>b, <1>d, PageStep
<1>4. CASE CloseAll
  <2>1. client' \in [Clients -> ClientState]  BY <1>4, <1>b DEF CloseAll, ClientState
  <2>2. Connected' \subseteq Connected  BY <1>4, <1>b DEF CloseAll, Connected
  <2> QED  BY <1>4, <2>1, <2>2, <1>b, <1>d, PageStep DEF CloseAll
<1> QED  BY <1>1, <1>2, <1>3, <1>4

\* Every step of the system, and the stutter.
LEMMA NextIInv == IInv /\ [Next]_vars => IInv'
<1> SUFFICES ASSUME IInv, [Next]_vars PROVE IInv'  OBVIOUS
<1>1. CASE Save \/ (\E v \in saving : Clear(v)) \/ (\E k \in Variants : Stale(k))
  BY <1>1, StoreStep
<1>2. ASSUME NEW r \in Readers, NEW k \in Variants, Get(r, k) PROVE IInv'  BY <1>2, GetStep
<1>3. ASSUME NEW r \in Readers,
             Look(r) \/ Lock(r) \/ CollectFails(r) \/ List(r) \/ Announced(r)
      PROVE  IInv'
  BY <1>3, MovesStep
<1>4. ASSUME NEW r \in Readers, Take(r) PROVE IInv'  BY <1>4, TakeStep
<1>5. ASSUME NEW r \in Readers, Generation(r) PROVE IInv'  BY <1>5, GenerationStep
<1>6. ASSUME NEW r \in Readers, Collect(r) PROVE IInv'  BY <1>6, CollectStep
<1>7. ASSUME NEW r \in Readers, Publish(r) PROVE IInv'  BY <1>7, PublishStep
<1>8. CASE \/ \E r \in Readers, c \in Clients : Offer(r, c)
           \/ \E c \in Clients : Connect(c) \/ Greet(c) \/ Emit(c) \/ Leave(c)
           \/ CloseAll
  BY <1>8, StreamStep
<1>9. CASE UNCHANGED vars
  BY <1>9 DEF vars, IInv, Types, Capped, Connected, Locked, Floors, KeptNew, AnswerNew,
              Ordered, Out, Done, In
<1> QED  BY <1>1, <1>2, <1>3, <1>4, <1>5, <1>6, <1>7, <1>8, <1>9 DEF Next, Collector
-----------------------------------------------------------------------------
\* The announcement. While one is on its way no newer revision is minted, and a page
\* it has yet to reach waits for it.
Newest == \A r \in Readers : In(r, "announce") \/ In(r, "offer") => get[r].rev = counter
Pending(c) == \E r \in Readers : In(r, "announce") \/ (In(r, "offer") /\ c \in offering)

\* What a page has in its mailbox, and what it has sent once that is empty, is no
\* older than the body, unless an announcement will still reach it.
Hears(c) ==
  /\ client[c].at = "off" => client[c].mail = 0 /\ c \notin offering
  /\ c \in Connected /\ client[c].mail > 0 =>
       client[c].mail >= entries[Main].rev \/ Pending(c)
  /\ client[c].at = "loop" /\ client[c].mail = 0 =>
       client[c].last >= entries[Main].rev \/ Pending(c)

HInv == Newest /\ \A c \in Clients : Hears(c)

LEMMA PageFacts ==
  ASSUME IInv
  PROVE  /\ client \in [Clients -> ClientState] /\ get \in [Readers -> GetState]
         /\ counter \in Nat /\ offering \subseteq Clients
         /\ entries[Main].rev \in Nat /\ entries[Main].rev <= counter
         /\ \A c \in Clients : client[c].mail \in Nat /\ client[c].last \in Nat
<1>1. Types /\ Main \in Variants  BY PublicationAssumption DEF IInv, PublicationAssumption
<1>2. entries[Main] \in Entry  BY <1>1 DEF Types
<1>3. entries[Main].rev # 0 => entries[Main].rev <= counter
  <2>1. entries[Main].rev # 0 => <<entries[Main].rev, entries[Main].ver>> \in Out
    BY <1>1 DEF Out
  <2> QED  BY <2>1 DEF IInv, Ordered
<1> QED  BY <1>1, <1>2, <1>3 DEF Types, Entry, ClientState

\* One request at a time announces.
LEMMA OneAnnounces ==
  ASSUME IInv, NEW r \in Readers, NEW q \in Readers, r # q, get[r].at \in Holding
  PROVE  ~In(q, "announce") /\ ~In(q, "offer")
BY DEF IInv, Locked, Holding, In

\* A step of neither the announcement nor a page, after which the body's revision is
\* what it was, or the body is gone.
LEMMA HearsKept ==
  ASSUME IInv, HInv, UNCHANGED <<client, offering, counter>>,
         entries'[Main].rev \in {entries[Main].rev, 0},
         \A r \in Readers :
           /\ In(r, "announce")' <=> In(r, "announce")
           /\ In(r, "offer")' <=> In(r, "offer")
           /\ In(r, "announce") \/ In(r, "offer") => get'[r].rev = get[r].rev
  PROVE  HInv'
<1>1. Newest'  BY DEF HInv, Newest
<1>2. ASSUME NEW c \in Clients PROVE Hears(c)'
  <2>1. Pending(c)' <=> Pending(c)  BY DEF Pending
  <2> QED  BY <2>1, PageFacts DEF HInv, Hears, Connected
<1> QED  BY <1>1, <1>2 DEF HInv

\* A request before its publication.
LEMMA BeforeHears ==
  ASSUME IInv, HInv, NEW r \in Readers,
         \/ \E k \in Variants : Get(r, k)
         \/ Look(r) \/ Take(r) \/ Lock(r) \/ Generation(r) \/ Collect(r) \/ CollectFails(r)
  PROVE  HInv'
<1> USE DEF In, Moves, Replies
<1>1. UNCHANGED <<client, offering, counter, entries>>
  BY DEF Get, Look, Take, Lock, Generation, Collect, CollectFails, StoresKept
<1>2. get \in [Readers -> GetState]  BY PageFacts
<1>3. \A q \in Readers : q # r => get'[q] = get[q]
  <2>1. CASE \E k \in Variants : Get(r, k)  BY <1>2, <2>1 DEF Get
  <2>2. CASE Look(r) \/ Lock(r) \/ CollectFails(r)  BY <1>2, <2>2 DEF Look, Lock, CollectFails
  <2>3. CASE Take(r)  BY <1>2, <2>3 DEF Take
  <2>4. CASE Generation(r) \/ Collect(r)  BY <1>2, <2>4 DEF Generation, Collect
  <2> QED  BY <2>1, <2>2, <2>3, <2>4
<1>4. get[r].at \notin {"announce", "offer"}
  BY DEF Get, Look, Take, Lock, Generation, Collect, CollectFails
<1>5. get'[r].at \notin {"announce", "offer"}
  <2>1. CASE \E k \in Variants : Get(r, k)  BY <1>2, <2>1 DEF Get, GetState
  <2>2. CASE Look(r) \/ Lock(r) \/ CollectFails(r)
    BY <1>2, <2>2 DEF Look, Lock, CollectFails, GetState
  <2>3. CASE Take(r)  BY <1>2, <2>3 DEF Take, GetState
  <2>4. CASE Generation(r) \/ Collect(r)  BY <1>2, <2>4 DEF Generation, Collect, GetState
  <2> QED  BY <2>1, <2>2, <2>3, <2>4
<1> QED  BY <1>1, <1>3, <1>4, <1>5, HearsKept

\* A kept body is announced to every page there is; one that is not is nobody's.
LEMMA PublishHears == ASSUME IInv, HInv, NEW r \in Readers, Publish(r) PROVE HInv'
<1> USE PageFacts DEF In
<1>1. /\ UNCHANGED <<client, offering>> /\ counter' = counter + 1
      /\ get[r].at = "publish" /\ \A q \in Readers : q # r => get'[q] = get[q]
  BY DEF Publish, StoresKept, Replies
<1>2. \A q \in Readers : ~In(q, "announce") /\ ~In(q, "offer")
  BY <1>1, OneAnnounces DEF Holding
<1>3. CASE get[r].gen = generation
  <2>1. get'[r].at = "announce" /\ get'[r].rev = counter'
    BY <1>3 DEF Publish, GetState
  <2>2. Newest'  BY <1>1, <1>2, <2>1 DEF Newest
  <2>3. \A c \in Clients : Pending(c)'  BY <2>1 DEF Pending
  <2> QED  BY <1>1, <2>2, <2>3 DEF HInv, Hears
<1>4. CASE get[r].gen # generation
  <2>1. get'[r].at = "replied" /\ entries' = entries
    BY <1>4 DEF Publish, Replies, GetState
  <2>2. \A q \in Readers : ~In(q, "announce")' /\ ~In(q, "offer")'
    BY <1>1, <1>2, <2>1
  <2>3. Newest'  BY <2>2 DEF Newest
  <2>4. \A c \in Clients : ~Pending(c)  BY <1>2 DEF Pending
  <2> QED  BY <1>1, <2>1, <2>3, <2>4 DEF HInv, Hears, Connected
<1> QED  BY <1>3, <1>4

\* The announcement lists every page, reaches one after another, and ends when it has
\* reached the last.
LEMMA AnnounceHears ==
  ASSUME IInv, HInv, NEW r \in Readers, List(r) \/ Announced(r) PROVE HInv'
<1> USE PageFacts DEF In, Moves
<1>1. UNCHANGED <<client, entries, counter>> /\ get[r].at \in {"announce", "offer"}
  BY DEF List, Announced, StoresKept
<1>2. \A q \in Readers : q # r => get'[q] = get[q] /\ ~In(q, "announce") /\ ~In(q, "offer")
  BY <1>1, OneAnnounces DEF List, Announced, Holding
<1>3. CASE List(r)
  <2>1. get'[r].at = "offer" /\ get'[r].rev = get[r].rev /\ offering' = Connected
    BY <1>3 DEF List, GetState
  <2>2. Newest'  BY <1>1, <1>2, <2>1 DEF HInv, Newest
  <2>3. \A c \in Clients : c \in Connected => Pending(c)'  BY <2>1 DEF Pending
  <2>4. \A c \in Clients : client[c].at = "off" => c \notin Connected  BY DEF Connected
  <2> QED  BY <1>1, <2>1, <2>2, <2>3, <2>4 DEF HInv, Hears, Connected
<1>4. CASE Announced(r)
  <2>1. get'[r].at = "replied" /\ offering = {} /\ offering' = {} /\ get[r].at = "offer"
    BY <1>4 DEF Announced, GetState
  <2>2. Newest'  BY <1>2, <2>1 DEF Newest
  <2>3. \A c \in Clients : ~Pending(c)  BY <1>2, <2>1 DEF Pending
  <2> QED  BY <1>1, <2>1, <2>2, <2>3 DEF HInv, Hears, Connected
<1> QED  BY <1>3, <1>4

LEMMA OfferHears ==
  ASSUME IInv, HInv, NEW r \in Readers, NEW c \in Clients, Offer(r, c) PROVE HInv'
<1> USE PageFacts DEF In
<1>1. UNCHANGED <<entries, counter, get>> /\ offering' = offering \ {c} /\ c \in offering
  BY DEF Offer
<1>2. get[r].rev = counter /\ client[c].at # "off"
  BY <1>1 DEF HInv, Newest, Hears, Offer
<1>3. /\ client'[c].at = client[c].at /\ client'[c].mail = counter
      /\ client'[c].last = client[c].last /\ \A d \in Clients : d # c => client'[d] = client[d]
  BY <1>2 DEF Offer, ClientState
<1>4. Hears(c)'  BY <1>1, <1>2, <1>3 DEF Hears
<1>5. ASSUME NEW d \in Clients, d # c PROVE Hears(d)'
  <2>1. Pending(d)' <=> Pending(d)  BY <1>1, <1>5 DEF Pending
  <2> QED  BY <1>1, <1>3, <1>5, <2>1 DEF HInv, Hears, Connected
<1>6. Newest'  BY <1>1 DEF HInv, Newest
<1> QED  BY <1>4, <1>5, <1>6 DEF HInv

\* A page that greets sends the body there is; one that empties its mailbox sends that.
LEMMA PageHears ==
  ASSUME IInv, HInv, CloseAll \/ \E c \in Clients : Connect(c) \/ Greet(c) \/ Emit(c) \/ Leave(c)
  PROVE  HInv'
<1> USE PageFacts
<1>1. UNCHANGED <<entries, counter, get, offering>>
  BY DEF CloseAll, Connect, Greet, Emit, Leave, Streams
<1>2. Newest' /\ \A d : Pending(d)' <=> Pending(d)  BY <1>1 DEF HInv, Newest, Pending, In
<1>3. ASSUME NEW d \in Clients, client'[d] = client[d] \/ client'[d].at = "gone"
      PROVE  Hears(d)'
  BY <1>1, <1>2, <1>3 DEF HInv, Hears, Connected
<1>4. CASE CloseAll  BY <1>2, <1>3, <1>4 DEF CloseAll, HInv
<1>5. ASSUME NEW c \in Clients, Connect(c) \/ Greet(c) \/ Emit(c) \/ Leave(c) PROVE HInv'
  <2>1. \A d \in Clients : d # c => client'[d] = client[d]
    BY <1>5 DEF Connect, Greet, Emit, Leave, Streams
  <2>2. Hears(c)
    BY DEF HInv
  <2>3. CASE Connect(c)
    <3>1. client'[c].at = "greet" /\ client'[c].mail = 0
      BY <2>2, <2>3 DEF Connect, Streams, ClientState, Hears
    <3> QED  BY <1>2, <1>3, <2>1, <3>1 DEF HInv, Hears
  <2>4. CASE Greet(c)
    <3> DEFINE said == IF entries[Main].rev = 0 THEN client[c].last ELSE entries[Main].rev
    <3>0. client'[c] = [client[c] EXCEPT !.at = "loop", !.last = said]
      BY <2>4 DEF Greet, Streams
    <3>a. client[c] \in ClientState /\ client[c].last \in Nat /\ entries[Main].rev \in Nat
      OBVIOUS
    <3>b. said >= entries[Main].rev  BY <3>a
    <3> HIDE DEF said
    <3>1. /\ client'[c].at = "loop" /\ client'[c].mail = client[c].mail /\ c \in Connected
          /\ client'[c].last = said
      BY <2>4, <3>0, <3>a DEF Greet, ClientState, Connected
    <3> QED  BY <1>1, <1>2, <1>3, <2>1, <2>2, <3>b, <3>1 DEF HInv, Hears
  <2>5. CASE Emit(c)
    <3>1. /\ client'[c].at = "loop" /\ client'[c].mail = 0 /\ c \in Connected
          /\ client'[c].last = client[c].mail /\ client[c].mail > 0
      BY <2>5 DEF Emit, Streams, ClientState, Connected
    <3> QED  BY <1>1, <1>2, <1>3, <2>1, <2>2, <3>1 DEF HInv, Hears
  <2>6. CASE Leave(c)
    <3>1. client'[c].at = "gone"  BY <2>6 DEF Leave, Streams
    <3> QED  BY <1>2, <1>3, <2>1, <3>1 DEF HInv
  <2> QED  BY <1>5, <2>3, <2>4, <2>5, <2>6
<1> QED  BY <1>4, <1>5

\* Every step together.
LEMMA NextHears == IInv /\ HInv /\ [Next]_vars => HInv'
<1> SUFFICES ASSUME IInv, HInv, [Next]_vars PROVE HInv'  OBVIOUS
<1>1. CASE Save  BY <1>1, HearsKept DEF Save, In
<1>2. ASSUME NEW v \in saving, Clear(v) PROVE HInv'
  <2>1. entries'[Main].rev = 0
    BY <1>2, PublicationAssumption DEF Clear, None, PublicationAssumption
  <2> QED  BY <1>2, <2>1, HearsKept DEF Clear, In
<1>3. ASSUME NEW k \in Variants, Stale(k) PROVE HInv'
  <2>1. entries'[Main].rev = entries[Main].rev
    BY <1>3, PublicationAssumption DEF Stale, IInv, Types, Entry, PublicationAssumption
  <2> QED  BY <1>3, <2>1, HearsKept DEF Stale, In
<1>4. ASSUME NEW r \in Readers, Collector(r) \/ \E k \in Variants : Get(r, k) PROVE HInv'
  BY <1>4, BeforeHears, PublishHears, AnnounceHears, OfferHears DEF Collector
<1>5. CASE UNCHANGED vars  BY <1>5, HearsKept DEF vars, In
<1> QED  BY <1>1, <1>2, <1>3, <1>4, <1>5, PageHears DEF Next

-----------------------------------------------------------------------------
\* The types hold and no more pages stream than the cap admits.
THEOREM TypesHold == Spec => []TypeOK
<1>1. IInv => TypeOK  BY DEF IInv, Types, Capped, TypeOK
<1> QED  BY InitIInv, NextIInv, <1>1, PTL DEF Spec

\* A request made after a clear never shows the stores as they were before it,
\* whatever collection was running when it came (Snapshot.publish, DRC-4760).
THEOREM OwnWritesRead == Spec => []ReadYourWrites
<1>1. IInv => ReadYourWrites  BY DEF IInv, AnswerNew, ReadYourWrites, In
<1> QED  BY InitIInv, NextIInv, <1>1, PTL DEF Spec

\* A body with a later revision never shows older stores, whichever variant or
\* request it answered: a page may drop what comes with a lower revision.
THEOREM LaterIsNewer == Spec => []RevisionsOrdered
<1>1. IInv => RevisionsOrdered
  <2> SUFFICES ASSUME IInv, NEW r \in Readers, NEW q \in Readers, In(r, "replied"),
                      In(q, "replied"), get[r].rev < get[q].rev
               PROVE  get[r].ver <= get[q].ver
    BY DEF RevisionsOrdered
  <2>1. <<get[r].rev, get[r].ver>> \in Out /\ <<get[q].rev, get[q].ver>> \in Out
    BY DEF Out, Done, In
  <2>2. \A b, c \in Out : b[1] < c[1] => b[2] <= c[2]  BY DEF IInv, Ordered
  <2> QED  BY <2>1, <2>2
<1> QED  BY InitIInv, NextIInv, <1>1, PTL DEF Spec

\* A page whose mailbox is empty has been sent what it would be served, or is about to
\* be: a mailbox of one overwritten revision loses no announcement, and a page that
\* connects between a publication and its listing is greeted (stream.StreamRegistry
\* publish, register, wait; http_api's stream loop).
THEOREM PagesCurrent == Spec => []StreamCurrent
<1>1. Init => HInv  BY DEF Init, HInv, Newest, Hears, Connected, In
<1>2. IInv /\ HInv => StreamCurrent  BY DEF HInv, Hears, Pending, StreamCurrent
<1> QED  BY InitIInv, NextIInv, <1>1, NextHears, <1>2, PTL DEF Spec
=============================================================================
