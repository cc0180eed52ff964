---------------------------- MODULE Annotations_proofs ----------------------------
(***************************************************************************)
(* Proofs about the annotation store, for any number of dashboards, pages  *)
(* and readings. Each property has its own inductive part over the types,  *)
(* and all rest on the same fact: whatever a mutator writes it built from  *)
(* the file it read under the lock.                                        *)
(***************************************************************************)
EXTENDS Annotations, Sequences, TLAPS

USE DEF None

-----------------------------------------------------------------------------
\* Entries.

LEMMA SettledNat == \A e \in Entries : e.settled \in Nat /\ e.n \in Nat
  <1> SUFFICES ASSUME NEW e \in Entries PROVE e.settled \in Nat /\ e.n \in Nat
    OBVIOUS
  <1>1. (e.settled \in Moments \/ e.settled = 0) /\ e.n \in Nat
    BY DEF Entries
  <1>2. \A m \in Moments : m \in Nat
    BY AnnotationsAssumption
  <1> QED BY <1>1, <1>2

LEMMA NoEntryFormed == NoEntry \in Entries /\ Formed(NoEntry)
  BY DEF NoEntry, Entries, Formed, Live

\* What the mutators build from a well-formed entry is well formed.
LEMMA Built ==
  ASSUME NEW e \in Entries, Formed(e)
  PROVE  /\ \A w \in Words : Annotated(e, w) \in Entries /\ Formed(Annotated(e, w))
         /\ Live(e) => \A m \in Moments : Settlement(e, m) \in Entries /\ Formed(Settlement(e, m))
         /\ e.read # None => \A on \in BOOLEAN :
              [e EXCEPT !.mark = on] \in Entries /\ Formed([e EXCEPT !.mark = on])
         /\ Discarded(e) \in Entries /\ Formed(Discarded(e))
         /\ Live(e) => \A j \in Jobs : /\ Assessed(e, j) \in Entries /\ Formed(Assessed(e, j))
                                       /\ WithheldAt(e, j) \in Entries /\ Formed(WithheldAt(e, j))
  <1>1. \A w \in Words : Annotated(e, w) \in Entries /\ Formed(Annotated(e, w))
    <2> SUFFICES ASSUME NEW w \in Words
                 PROVE  Annotated(e, w) \in Entries /\ Formed(Annotated(e, w))
      OBVIOUS
    <2>1. e.n \in Nat /\ e.n + 1 \in Nat /\ e.n + 1 > 0
      BY DEF Entries
    <2>2. Annotated(e, w) \in Entries
      BY <2>1 DEF Annotated, Entries
    <2>3. /\ Annotated(e, w).is = "live" /\ Annotated(e, w).n = e.n + 1
          /\ Annotated(e, w).words = w
      BY DEF Annotated, Entries
    <2> QED BY <2>1, <2>2, <2>3 DEF Formed, Live
  <1>2. Live(e) => \A m \in Moments : Settlement(e, m) \in Entries /\ Formed(Settlement(e, m))
    BY AnnotationsAssumption DEF Settlement, Entries, Formed, Live
  <1>3. e.read # None => Live(e)
    BY DEF Formed, NoEntry, Live
  <1>4. e.read # None => \A on \in BOOLEAN :
              [e EXCEPT !.mark = on] \in Entries /\ Formed([e EXCEPT !.mark = on])
    <2> SUFFICES ASSUME e.read # None, NEW on \in BOOLEAN
                 PROVE  [e EXCEPT !.mark = on] \in Entries /\ Formed([e EXCEPT !.mark = on])
      OBVIOUS
    <2> DEFINE f == [e EXCEPT !.mark = on]
    <2>1. f \in Entries
      BY DEF Entries
    <2>2. f.is = e.is /\ f.n = e.n /\ f.words = e.words
      BY DEF Entries
    <2> QED BY <1>3, <2>1, <2>2 DEF Formed, Live
  <1>5. Discarded(e) \in Entries /\ Formed(Discarded(e))
    BY DEF Discarded, Entries, Formed, Live, NoEntry
  <1>6. Live(e) => \A j \in Jobs : /\ Assessed(e, j) \in Entries /\ Formed(Assessed(e, j))
                                   /\ WithheldAt(e, j) \in Entries /\ Formed(WithheldAt(e, j))
    BY DEF Assessed, WithheldAt, Entries, Formed, Live
  <1> QED BY <1>1, <1>2, <1>4, <1>5, <1>6

\* The number and words of an entry are a revision's, and its view a page's.
LEMMA RevTyped ==
  ASSUME NEW e \in Entries, Formed(e)
  PROVE  Revs(e) \subseteq Named /\ View(e) \in Views /\ Rev(e) \in Named
  BY DEF Revs, Rev, Named, View, Views, Blank, Entries, Formed, Live, NoEntry

LEMMA CacheTyped ==
  ASSUME TypeOK, NEW d \in Dashboards, NEW e \in Entries, Formed(e), Cache(d, e)
  PROVE  /\ copy' \in [Dashboards -> Entries] /\ collect' \in [Dashboards -> Collections]
         /\ \A x \in Dashboards : Formed(copy'[x]) /\ Formed(collect'[x].got)
  <1>1. collect[d] \in Collections
    BY DEF TypeOK
  <1>2. [collect[d] EXCEPT !.moved = collect[d].at # "idle"] \in Collections
    BY <1>1 DEF Collections
  <1>3. collect' = [collect EXCEPT ![d] = [collect[d] EXCEPT !.moved = collect[d].at # "idle"]]
    BY DEF Cache, TypeOK
  <1>4. collect' \in [Dashboards -> Collections]
    BY <1>2, <1>3 DEF TypeOK
  <1>5. \A x \in Dashboards : collect'[x].got = collect[x].got
    BY <1>1, <1>3 DEF TypeOK, Collections
  <1> QED BY <1>4, <1>5 DEF Cache, TypeOK

LEMMA CommitTyped ==
  ASSUME TypeOK, NEW d \in Dashboards, NEW e \in Entries, Formed(e), NEW ok \in BOOLEAN,
         Commit(d, e, ok)
  PROVE  /\ copy' \in [Dashboards -> Entries] /\ collect' \in [Dashboards -> Collections]
         /\ \A x \in Dashboards : Formed(copy'[x]) /\ Formed(collect'[x].got)
         /\ file' \in Entries /\ Formed(file') /\ trusted' \in BOOLEAN
         /\ named' \subseteq Named /\ unstored' \subseteq Named /\ mine' \in [Dashboards -> Nat]
  <1>1. Revs(e) \subseteq Named
    BY RevTyped
  <1>2. Cache(d, e)
    BY DEF Commit
  <1>3. e.n \in Nat
    BY DEF Entries
  <1>4. /\ file' \in Entries /\ Formed(file') /\ trusted' \in BOOLEAN
        /\ named' \subseteq Named /\ unstored' \subseteq Named /\ mine' \in [Dashboards -> Nat]
    BY <1>1, <1>3 DEF Commit, TypeOK
  <1> QED BY <1>2, <1>4, CacheTyped

-----------------------------------------------------------------------------
\* Types.

LEMMA InitTyped == Init => TypeOK
  <1> SUFFICES ASSUME Init PROVE TypeOK
    OBVIOUS
  <1>1. NoCollection \in Collections
    BY NoEntryFormed DEF NoCollection, Collections
  <1>2. NoCollection.got = NoEntry
    BY DEF NoCollection
  <1>3. Blank \in Views /\ NewJob \in [at: {"new", "reading", "recorded", "done"}, n: Nat]
    BY DEF Blank, Views, NewJob
  <1> QED BY <1>1, <1>2, <1>3, NoEntryFormed DEF Init, TypeOK

LEMMA DrawTyped == ASSUME TypeOK, NEW p \in Pages, Draw(p) PROVE TypeOK'
  <1>1. PageOn[p] \in Dashboards
    BY AnnotationsAssumption
  <1>2. View(copy[PageOn[p]]) \in Views
    BY <1>1, RevTyped DEF TypeOK
  <1> QED BY <1>2 DEF Draw, TypeOK, store, departed, told, withdrawn

LEMMA SaveTyped ==
  ASSUME TypeOK, NEW p \in Pages, NEW w \in Words, NEW guarded \in BOOLEAN, Save(p, w, guarded)
  PROVE  TypeOK'
  <1>1. PageOn[p] \in Dashboards
    BY AnnotationsAssumption
  <1>2. file \in Entries /\ Formed(file)
    BY DEF TypeOK
  <1>3. CASE Live(file) /\ file.words = w
    <2>1. Cache(PageOn[p], file) /\ UNCHANGED <<store, told, replaced>>
      BY <1>3 DEF Save, Latest
    <2>2. /\ copy' \in [Dashboards -> Entries] /\ collect' \in [Dashboards -> Collections]
          /\ \A x \in Dashboards : Formed(copy'[x]) /\ Formed(collect'[x].got)
      BY <1>1, <1>2, <2>1, CacheTyped
    <2>3. events' \in Nat
      BY DEF Save, Event, TypeOK
    <2> QED BY <2>1, <2>2, <2>3 DEF Save, TypeOK, store, departed, told, withdrawn
  <1>4. CASE ~(Live(file) /\ file.words = w)
    <2>1. PICK ok \in BOOLEAN :
            /\ Commit(PageOn[p], Annotated(file, w), ok)
            /\ replaced' = IF ok /\ guarded /\ Live(file)
                           THEN replaced \cup {<<Rev(page[p]), Rev(file)>>} ELSE replaced
      BY <1>4 DEF Save, Latest
    <2>2. Annotated(file, w) \in Entries /\ Formed(Annotated(file, w))
      BY <1>2, Built
    <2>3. /\ copy' \in [Dashboards -> Entries] /\ collect' \in [Dashboards -> Collections]
          /\ \A x \in Dashboards : Formed(copy'[x]) /\ Formed(collect'[x].got)
          /\ file' \in Entries /\ Formed(file') /\ trusted' \in BOOLEAN
          /\ named' \subseteq Named /\ unstored' \subseteq Named
          /\ mine' \in [Dashboards -> Nat]
      BY <1>1, <2>1, <2>2, CommitTyped
    <2>4. Rev(page[p]) \in Named /\ Rev(file) \in Named
      BY <1>2, RevTyped DEF TypeOK, Rev, Views, Named
    <2>5. replaced' \subseteq Named \X Named
      BY <2>1, <2>4 DEF TypeOK
    <2>6. events' \in Nat
      BY DEF Save, Event, TypeOK
    <2> QED BY <2>3, <2>5, <2>6 DEF Save, TypeOK, departed, withdrawn
  <1> QED BY <1>3, <1>4

LEMMA SettleTyped ==
  ASSUME TypeOK, NEW p \in Pages, NEW m \in Moments, NEW guarded \in BOOLEAN,
         Settle(p, m, guarded)
  PROVE  TypeOK'
  <1>1. PageOn[p] \in Dashboards /\ file \in Entries /\ Formed(file) /\ Live(file)
    BY AnnotationsAssumption DEF TypeOK, Settle, Latest
  <1>2. PICK ok \in BOOLEAN : Commit(PageOn[p], Settlement(file, m), ok)
    BY DEF Settle, Latest
  <1>3. Settlement(file, m) \in Entries /\ Formed(Settlement(file, m))
    BY <1>1, Built
  <1>4. events' \in Nat
    BY DEF Settle, Event, TypeOK
  <1> QED BY <1>1, <1>2, <1>3, <1>4, CommitTyped DEF Settle, TypeOK, departed, withdrawn

LEMMA MarkTyped ==
  ASSUME TypeOK, NEW p \in Pages, NEW on \in BOOLEAN, Mark(p, on)
  PROVE  TypeOK'
  <1>1. PageOn[p] \in Dashboards /\ file \in Entries /\ Formed(file) /\ file.read # None
    BY AnnotationsAssumption DEF TypeOK, Mark, Latest
  <1>2. PICK ok \in BOOLEAN : Commit(PageOn[p], [file EXCEPT !.mark = on], ok)
    BY DEF Mark, Latest
  <1>3. [file EXCEPT !.mark = on] \in Entries /\ Formed([file EXCEPT !.mark = on])
    BY <1>1, Built
  <1>4. doubted' \subseteq Jobs /\ events' \in Nat
    BY <1>1 DEF Mark, Latest, TypeOK, Entries, Event
  <1> QED BY <1>1, <1>2, <1>3, <1>4, CommitTyped DEF Mark, TypeOK, departed, withdrawn

LEMMA UnderwayTyped == TypeOK => Underway \subseteq Nat
  <1> SUFFICES ASSUME TypeOK PROVE Underway \subseteq Nat
    OBVIOUS
  <1>1. \A j \in Jobs : job[j].n \in Nat
    BY DEF TypeOK
  <1>2. \A d \in Dashboards : collect[d].got \in Entries /\ copy[d] \in Entries
    BY DEF TypeOK, Collections
  <1>3. \A d \in Dashboards : collect[d].got.n \in Nat /\ copy[d].n \in Nat
    BY <1>2 DEF Entries
  <1> QED BY <1>1, <1>3 DEF TypeOK, Underway

LEMMA ClearTyped == ASSUME TypeOK, NEW p \in Pages, Clear(p) PROVE TypeOK'
  <1>1. PageOn[p] \in Dashboards /\ file \in Entries /\ Formed(file)
    BY AnnotationsAssumption DEF TypeOK
  <1>2. PICK ok \in BOOLEAN :
          /\ Commit(PageOn[p], Discarded(file), ok)
          /\ IF ok
             THEN /\ owed' = owed \cup {PageOn[p]}
                  /\ gone' = IF Live(file) THEN file.n ELSE gone
                  /\ late' = late \cup Underway
                  /\ lost' = lost \cup file.jobs
             ELSE UNCHANGED <<owed, gone, late, lost>>
    BY DEF Clear, Latest
  <1>3. Discarded(file) \in Entries /\ Formed(Discarded(file))
    BY <1>1, Built
  <1>4. /\ copy' \in [Dashboards -> Entries] /\ collect' \in [Dashboards -> Collections]
        /\ \A x \in Dashboards : Formed(copy'[x]) /\ Formed(collect'[x].got)
        /\ file' \in Entries /\ Formed(file') /\ trusted' \in BOOLEAN
        /\ named' \subseteq Named /\ unstored' \subseteq Named
        /\ mine' \in [Dashboards -> Nat]
    BY <1>1, <1>2, <1>3, CommitTyped
  <1>5. owed' \subseteq Dashboards /\ gone' \in Nat /\ late' \subseteq Nat /\ lost' \subseteq Jobs
    BY <1>1, <1>2, UnderwayTyped DEF TypeOK, Entries
  <1>6. events' \in Nat
    BY DEF Clear, Event, TypeOK
  <1> QED BY <1>4, <1>5, <1>6 DEF Clear, TypeOK

LEMMA PressTyped == ASSUME TypeOK, NEW p \in Pages, NEW j \in Jobs, Press(p, j) PROVE TypeOK'
  <1>1. PageOn[p] \in Dashboards /\ file \in Entries /\ Formed(file)
    BY AnnotationsAssumption DEF TypeOK
  <1>2. Cache(PageOn[p], file)
    BY DEF Press
  <1>3. job' \in [Jobs -> [at: {"new", "reading", "recorded", "done"}, n: Nat]]
    BY <1>1 DEF Press, TypeOK, Entries
  <1>4. events' \in Nat
    BY DEF Press, Event, TypeOK
  <1>5. /\ copy' \in [Dashboards -> Entries] /\ collect' \in [Dashboards -> Collections]
        /\ \A x \in Dashboards : Formed(copy'[x]) /\ Formed(collect'[x].got)
    BY <1>1, <1>2, CacheTyped
  <1> QED BY <1>3, <1>4, <1>5 DEF Press, TypeOK, store, departed, told, withdrawn

LEMMA RecordTyped == ASSUME TypeOK, NEW j \in Jobs, Record(j) PROVE TypeOK'
  <1>1. JobOn[j] \in Dashboards /\ file \in Entries /\ Formed(file)
    BY AnnotationsAssumption DEF TypeOK
  <1>2. job' \in [Jobs -> [at: {"new", "reading", "recorded", "done"}, n: Nat]]
    BY DEF Record, TypeOK
  <1>3. CASE /\ Live(file)
             /\ \E ok \in BOOLEAN, out \in {Assessed(file, j), WithheldAt(file, j)} :
                  /\ Commit(JobOn[j], out, ok)
                  /\ lost' = IF ok THEN lost ELSE lost \cup {j}
    <2>1. PICK ok \in BOOLEAN, out \in {Assessed(file, j), WithheldAt(file, j)} :
                  /\ Commit(JobOn[j], out, ok)
                  /\ lost' = IF ok THEN lost ELSE lost \cup {j}
      BY <1>3
    <2>2. out \in Entries /\ Formed(out)
      BY <1>1, <1>3, Built
    <2>3. /\ copy' \in [Dashboards -> Entries] /\ collect' \in [Dashboards -> Collections]
          /\ \A x \in Dashboards : Formed(copy'[x]) /\ Formed(collect'[x].got)
          /\ file' \in Entries /\ Formed(file') /\ trusted' \in BOOLEAN
          /\ named' \subseteq Named /\ unstored' \subseteq Named
          /\ mine' \in [Dashboards -> Nat]
      BY <1>1, <2>1, <2>2, CommitTyped
    <2>4. lost' \subseteq Jobs
      BY <2>1 DEF TypeOK
    <2> QED BY <1>2, <2>3, <2>4 DEF Record, TypeOK, departed, withdrawn
  <1>4. CASE lost' = lost \cup {j} /\ UNCHANGED <<store, copy, collect, told>>
    BY <1>2, <1>4 DEF Record, TypeOK, store, departed, told, withdrawn
  <1> QED BY <1>3, <1>4 DEF Record, Latest

LEMMA LeaveTyped == ASSUME TypeOK, NEW j \in Jobs, Leave(j) PROVE TypeOK'
  <1>1. job' \in [Jobs -> [at: {"new", "reading", "recorded", "done"}, n: Nat]]
    BY DEF Leave, TypeOK
  <1> QED BY <1>1 DEF Leave, TypeOK, store, departed, told, withdrawn

\* What a collection is at each of its steps.
LEMMA Sampled ==
  ASSUME TypeOK, NEW d \in Dashboards, Sample(d)
  PROVE  LET c == [NoCollection EXCEPT !.at = "sampled", !.ended = Ended(d)]
         IN c \in Collections /\ c.got = NoEntry
  <1>1. Ended(d) \subseteq Jobs
    BY DEF Ended
  <1> QED BY <1>1, NoEntryFormed DEF NoCollection, Collections

LEMMA SampleTyped == ASSUME TypeOK, NEW d \in Dashboards, Sample(d) PROVE TypeOK'
  <1> DEFINE c == [NoCollection EXCEPT !.at = "sampled", !.ended = Ended(d)]
  <1>1. c \in Collections /\ c.got = NoEntry
    BY Sampled
  <1>2. collect' = [collect EXCEPT ![d] = c]
    BY DEF Sample
  <1>3. /\ collect' \in [Dashboards -> Collections]
        /\ \A x \in Dashboards : Formed(collect'[x].got)
    BY <1>1, <1>2, NoEntryFormed DEF TypeOK
  <1> QED BY <1>3 DEF Sample, TypeOK, store, departed, told, withdrawn

LEMMA ReadStep ==
  ASSUME TypeOK, NEW d \in Dashboards, Read(d)
  PROVE  \E c \in Collections :
           /\ collect' = [collect EXCEPT ![d] = c]
           /\ c.at = "read" /\ c.whole = trusted /\ c.got = IF trusted THEN file ELSE NoEntry
           /\ c.ended = collect[d].ended /\ c.moved = collect[d].moved
  <1> DEFINE c == [collect[d] EXCEPT !.at = "read", !.whole = trusted,
                                     !.got = IF trusted THEN file ELSE NoEntry]
  <1>1. collect[d] \in Collections
    BY DEF TypeOK
  <1>2. (IF trusted THEN file ELSE NoEntry) \in Entries /\ trusted \in BOOLEAN
    BY NoEntryFormed DEF TypeOK
  <1>3. /\ c \in Collections
        /\ c.at = "read" /\ c.whole = trusted /\ c.got = IF trusted THEN file ELSE NoEntry
        /\ c.ended = collect[d].ended /\ c.moved = collect[d].moved
    BY <1>1, <1>2 DEF Collections
  <1>4. collect' = [collect EXCEPT ![d] = c]
    BY DEF Read, TypeOK
  <1> QED BY <1>3, <1>4

LEMMA ReadTyped == ASSUME TypeOK, NEW d \in Dashboards, Read(d) PROVE TypeOK'
  <1>1. PICK c \in Collections :
          collect' = [collect EXCEPT ![d] = c] /\ c.got = IF trusted THEN file ELSE NoEntry
    BY ReadStep
  <1>2. /\ collect' \in [Dashboards -> Collections]
        /\ \A x \in Dashboards : Formed(collect'[x].got)
    BY <1>1, NoEntryFormed DEF TypeOK
  <1> QED BY <1>2 DEF Read, TypeOK, store, departed, told, withdrawn

LEMMA EntryTyped ==
  ASSUME TypeOK, NEW d \in Dashboards
  PROVE  Entry(d) \in Entries /\ Formed(Entry(d))
  BY DEF TypeOK, Entry, Collections

LEMMA PublishTyped == ASSUME TypeOK, NEW d \in Dashboards, Publish(d) PROVE TypeOK'
  <1>1. Entry(d) \in Entries /\ Formed(Entry(d))
    BY EntryTyped
  <1>2. NoCollection \in Collections /\ NoCollection.got = NoEntry
    BY NoEntryFormed DEF NoCollection, Collections
  <1>3. /\ collect' \in [Dashboards -> Collections] /\ copy' \in [Dashboards -> Entries]
        /\ \A x \in Dashboards : Formed(copy'[x]) /\ Formed(collect'[x].got)
    BY <1>1, <1>2, NoEntryFormed DEF Publish, TypeOK
  <1>4. lane' \subseteq Nat /\ events' \in Nat
    <2>1. Entry(d).n \in Nat
      BY <1>1 DEF Entries
    <2>2. lane \subseteq Nat /\ events \in Nat
      BY DEF TypeOK
    <2>3. CASE UNCHANGED <<lane, events>>
      BY <2>2, <2>3
    <2>4. CASE Event /\ lane' = lane \cup {Entry(d).n}
      <3>1. lane' \subseteq Nat
        BY <2>1, <2>2, <2>4
      <3>2. events' \in Nat
        BY <2>2, <2>4 DEF Event
      <3> QED BY <3>1, <3>2
    <2>5. UNCHANGED <<lane, events>> \/ (Event /\ lane' = lane \cup {Entry(d).n})
      BY Zenon DEF Publish
    <2> QED BY <2>3, <2>4, <2>5
  <1>5. blind' \subseteq Jobs /\ mine' \in [Dashboards -> Nat]
    BY DEF Publish, Missed, TypeOK, Collections
  <1> QED BY <1>3, <1>4, <1>5 DEF Publish, TypeOK, store, departed, withdrawn

LEMMA WithdrawTyped == ASSUME TypeOK, NEW d \in Dashboards, Withdraw(d) PROVE TypeOK'
  BY DEF Withdraw, Blanked, TypeOK, store, told, withdrawn

LEMMA LaneRecordTyped == ASSUME TypeOK, NEW n \in lane, LaneRecord(n) PROVE TypeOK'
  BY DEF LaneRecord, TypeOK, store, told, withdrawn

LEMMA EvictTyped == ASSUME TypeOK, NEW d \in Dashboards, Evict(d) PROVE TypeOK'
  <1>1. Cache(d, NoEntry)
    BY DEF Evict
  <1>2. /\ copy' \in [Dashboards -> Entries] /\ collect' \in [Dashboards -> Collections]
        /\ \A x \in Dashboards : Formed(copy'[x]) /\ Formed(collect'[x].got)
    BY <1>1, CacheTyped, NoEntryFormed
  <1>3. lost' \subseteq Jobs /\ events' \in Nat
    BY DEF Evict, Dropped, Event, TypeOK, Entries
  <1> QED BY <1>2, <1>3, NoEntryFormed DEF Evict, Dropped, TypeOK, departed

LEMMA ForgetTyped == ASSUME TypeOK, Forget PROVE TypeOK'
  <1>1. lost' \subseteq Jobs /\ events' \in Nat
    BY DEF Forget, Dropped, Event, TypeOK, Entries
  <1> QED BY <1>1, NoEntryFormed DEF Forget, Dropped, TypeOK, departed

LEMMA SpoilTyped == ASSUME TypeOK, Spoil \/ Mend PROVE TypeOK'
  <1>1. trusted' \in BOOLEAN
    BY DEF Spoil, Mend
  <1>2. events' \in Nat
    BY DEF Spoil, Mend, Event, TypeOK
  <1> QED BY <1>1, <1>2 DEF Spoil, Mend, TypeOK, departed, told, withdrawn

LEMMA NextTyped == TypeOK /\ [Next]_vars => TypeOK'
  <1> SUFFICES ASSUME TypeOK, [Next]_vars PROVE TypeOK'
    OBVIOUS
  <1>1. CASE UNCHANGED vars
    BY <1>1 DEF vars, TypeOK, store, departed, told, withdrawn
  <1>2. CASE Next
    BY <1>2, DrawTyped, SaveTyped, SettleTyped, MarkTyped, ClearTyped, PressTyped, RecordTyped,
       LeaveTyped, SampleTyped, ReadTyped, PublishTyped, WithdrawTyped, LaneRecordTyped,
       EvictTyped, ForgetTyped, SpoilTyped DEF Next
  <1> QED BY <1>1, <1>2

\* Every variable keeps its type, and every entry its form: a discard record never holds
\* a text, an answer or a reading.
THEOREM AnnotationsTyped == Spec => []TypeOK
  BY InitTyped, NextTyped, PTL DEF Spec

-----------------------------------------------------------------------------
\* What a mutator writes, against the file it read: one number on, with all that stands
\* beside the words, or the same one, with the same words; and nothing left beside the
\* words is gone while they stand.

Minted(e) == Live(e) /\ e.n = file.n + 1 /\ Beside(e) = Beside(file)
Stands(e) == e.n = file.n /\ (Live(e) => Live(file) /\ e.words = file.words)
Carries(e) == /\ Live(e) => file.jobs \subseteq e.jobs
              /\ Live(e) /\ Live(file) => e.settled >= file.settled
              /\ Live(e) /\ Live(file) /\ file.read # None => e.read # None
Grown(e) == (Minted(e) \/ Stands(e)) /\ Carries(e)

LEMMA AnnotatedGrown ==
  ASSUME TypeOK, NEW w \in Words
  PROVE  Grown(Annotated(file, w)) /\ Annotated(file, w).read = file.read
  <1> DEFINE e == Annotated(file, w)
  <1>1. file \in Entries
    BY DEF TypeOK
  <1>2. /\ e.is = "live" /\ e.n = file.n + 1 /\ e.jobs = file.jobs
        /\ e.settled = file.settled /\ e.read = file.read
    BY <1>1 DEF Annotated, Entries
  <1>3. file.settled \in Int
    BY <1>1, SettledNat
  <1> QED BY <1>2, <1>3 DEF Grown, Minted, Carries, Live, Beside

LEMMA SettlementGrown ==
  ASSUME TypeOK, NEW m \in Moments, Live(file)
  PROVE  Grown(Settlement(file, m)) /\ Settlement(file, m).read = file.read
  <1> DEFINE e == Settlement(file, m)
  <1>1. file \in Entries
    BY DEF TypeOK
  <1>2. m \in Int /\ file.settled \in Int
    <2>1. m \in Int
      BY AnnotationsAssumption
    <2> QED BY <1>1, <2>1, SettledNat
  <1>3. /\ e.is = file.is /\ e.n = file.n /\ e.jobs = file.jobs /\ e.words = file.words
        /\ e.settled = (IF m > file.settled THEN m ELSE file.settled) /\ e.read = file.read
    BY <1>1 DEF Settlement, Entries
  <1> QED BY <1>2, <1>3 DEF Grown, Stands, Carries, Live

LEMMA MarkGrown ==
  ASSUME TypeOK, NEW on \in BOOLEAN
  PROVE  Grown([file EXCEPT !.mark = on]) /\ [file EXCEPT !.mark = on].read = file.read
  <1> DEFINE e == [file EXCEPT !.mark = on]
  <1>1. file \in Entries
    BY DEF TypeOK
  <1>2. /\ e.is = file.is /\ e.n = file.n /\ e.jobs = file.jobs /\ e.words = file.words
        /\ e.settled = file.settled /\ e.read = file.read
    BY <1>1 DEF Entries
  <1>3. file.settled \in Int
    BY <1>1, SettledNat
  <1> QED BY <1>2, <1>3 DEF Grown, Stands, Carries, Live

LEMMA DiscardedGrown ==
  ASSUME TypeOK
  PROVE  /\ Grown(Discarded(file)) /\ Discarded(file).n = file.n /\ ~Live(Discarded(file))
         /\ Discarded(file).read = None /\ Discarded(file).mark = FALSE
         /\ Discarded(file).jobs = {}
  <1> DEFINE e == Discarded(file)
  <1>1. file \in Entries /\ Formed(file)
    BY DEF TypeOK
  <1>2. /\ ~Live(e) /\ e.n = file.n /\ e.read = None /\ e.mark = FALSE /\ e.jobs = {}
    BY <1>1 DEF Discarded, Formed, Live, NoEntry, Entries
  <1> QED BY <1>2 DEF Grown, Stands, Carries

LEMMA AssessedGrown ==
  ASSUME TypeOK, NEW j \in Jobs, Live(file)
  PROVE  /\ Grown(Assessed(file, j)) /\ Assessed(file, j).read = j /\ j \in Assessed(file, j).jobs
         /\ ~Assessed(file, j).mark
  <1> DEFINE e == Assessed(file, j)
  <1>1. file \in Entries
    BY DEF TypeOK
  <1>2. /\ e.is = file.is /\ e.n = file.n /\ e.jobs = file.jobs \cup {j} /\ e.words = file.words
        /\ e.settled = file.settled /\ e.read = j /\ e.mark = FALSE
    BY <1>1 DEF Assessed, Entries
  <1>3. file.settled \in Int /\ j # None
    <2>1. j # None
      BY AnnotationsAssumption
    <2> QED BY <1>1, <2>1, SettledNat
  <1> QED BY <1>2, <1>3 DEF Grown, Stands, Carries, Live

LEMMA WithheldGrown ==
  ASSUME TypeOK, NEW j \in Jobs, Live(file)
  PROVE  /\ Grown(WithheldAt(file, j)) /\ WithheldAt(file, j).read = file.read
         /\ j \in WithheldAt(file, j).jobs /\ WithheldAt(file, j).mark = file.mark
  <1> DEFINE e == WithheldAt(file, j)
  <1>1. file \in Entries
    BY DEF TypeOK
  <1>2. /\ e.is = file.is /\ e.n = file.n /\ e.jobs = file.jobs \cup {j} /\ e.words = file.words
        /\ e.settled = file.settled /\ e.read = file.read /\ e.mark = file.mark
    BY <1>1 DEF WithheldAt, Entries
  <1>3. file.settled \in Int
    BY <1>1, SettledNat
  <1> QED BY <1>2, <1>3 DEF Grown, Stands, Carries, Live

\* Every step leaves the file alone, drops it, or writes to it what a mutator built, as
\* one of the five does.
LEMMA FileSteps ==
  ASSUME TypeOK, [Next]_vars
  PROVE  \/ UNCHANGED file
         \/ file' = NoEntry /\ lapsed'
         \/ Grown(file')
  <1>1. CASE UNCHANGED vars
    BY <1>1 DEF vars, store
  <1>2. \A d \in Dashboards, e \in Entries, ok \in BOOLEAN :
          Commit(d, e, ok) /\ Grown(e) => UNCHANGED file \/ Grown(file')
    BY DEF Commit
  <1>3. ASSUME NEW p \in Pages, NEW w \in Words, NEW guarded \in BOOLEAN, Save(p, w, guarded)
        PROVE  UNCHANGED file \/ Grown(file')
    <2>1. UNCHANGED file \/ \E ok \in BOOLEAN : Commit(PageOn[p], Annotated(file, w), ok)
      BY <1>3 DEF Save, Latest, store
    <2> QED BY <2>1, <1>2, AnnotatedGrown, Built, AnnotationsAssumption DEF TypeOK
  <1>4. ASSUME NEW p \in Pages, NEW m \in Moments, NEW guarded \in BOOLEAN, Settle(p, m, guarded)
        PROVE  UNCHANGED file \/ Grown(file')
    <2>1. Live(file) /\ \E ok \in BOOLEAN : Commit(PageOn[p], Settlement(file, m), ok)
      BY <1>4 DEF Settle, Latest
    <2> QED BY <2>1, <1>2, SettlementGrown, Built, AnnotationsAssumption DEF TypeOK
  <1>5. ASSUME NEW p \in Pages, NEW on \in BOOLEAN, Mark(p, on)
        PROVE  UNCHANGED file \/ Grown(file')
    <2>1. file.read # None /\ \E ok \in BOOLEAN : Commit(PageOn[p], [file EXCEPT !.mark = on], ok)
      BY <1>5 DEF Mark, Latest
    <2> QED BY <2>1, <1>2, MarkGrown, Built, AnnotationsAssumption DEF TypeOK
  <1>6. ASSUME NEW p \in Pages, Clear(p) PROVE UNCHANGED file \/ Grown(file')
    <2>1. \E ok \in BOOLEAN : Commit(PageOn[p], Discarded(file), ok)
      BY <1>6 DEF Clear, Latest
    <2>2. Discarded(file) \in Entries /\ Grown(Discarded(file)) /\ PageOn[p] \in Dashboards
      BY DiscardedGrown, Built, AnnotationsAssumption DEF TypeOK
    <2> QED BY <2>1, <2>2, <1>2
  <1>7. ASSUME NEW j \in Jobs, Record(j) PROVE UNCHANGED file \/ Grown(file')
    <2>1. \/ UNCHANGED file
          \/ /\ Live(file)
             /\ \E ok \in BOOLEAN, out \in {Assessed(file, j), WithheldAt(file, j)} :
                  Commit(JobOn[j], out, ok)
      BY <1>7 DEF Record, Latest, store
    <2> QED BY <2>1, <1>2, AssessedGrown, WithheldGrown, Built, AnnotationsAssumption DEF TypeOK
  <1>8. ASSUME NEW p \in Pages, Draw(p) \/ \E j \in Jobs : Press(p, j) PROVE UNCHANGED file
    BY <1>8 DEF Draw, Press, store
  <1>9. ASSUME NEW d \in Dashboards, Sample(d) \/ Read(d) \/ Publish(d) \/ Withdraw(d)
        PROVE  UNCHANGED file
    BY <1>9 DEF Sample, Read, Publish, Withdraw, store
  <1>10. ASSUME (\E j \in Jobs : Leave(j)) \/ (\E n \in lane : LaneRecord(n)) \/ Spoil \/ Mend
         PROVE  UNCHANGED file
    BY <1>10 DEF Leave, LaneRecord, Spoil, Mend, store
  <1>11. ASSUME (\E d \in Dashboards : Evict(d)) \/ Forget PROVE file' = NoEntry /\ lapsed'
    BY <1>11 DEF Evict, Forget, Dropped
  <1> QED BY <1>1, <1>3, <1>4, <1>5, <1>6, <1>7, <1>8, <1>9, <1>10, <1>11 DEF Next

\* No write forgets: whoever writes, and from whichever copy its page was drawn, the
\* answers, readings and outcomes beside live words stand with them.
THEOREM NothingLost == Spec => NothingForgotten
  <1>1. TypeOK /\ [Next]_vars =>
          [Live(file) /\ Live(file') =>
             /\ file'.n >= file.n /\ file'.settled >= file.settled
             /\ file.jobs \subseteq file'.jobs /\ (file.read # None => file'.read # None)]_vars
    <2> SUFFICES ASSUME TypeOK, [Next]_vars, Live(file), Live(file')
                 PROVE  /\ file'.n >= file.n /\ file'.settled >= file.settled
                        /\ file.jobs \subseteq file'.jobs
                        /\ (file.read # None => file'.read # None)
      OBVIOUS
    <2>1. file.n \in Nat /\ file.settled \in Int
      BY SettledNat DEF TypeOK
    <2>2. UNCHANGED file \/ Grown(file')
      BY FileSteps DEF Live, NoEntry
    <2>3. CASE UNCHANGED file
      BY <2>1, <2>3
    <2>4. CASE Grown(file')
      BY <2>1, <2>4 DEF Grown, Minted, Stands, Carries
    <2> QED BY <2>2, <2>3, <2>4
  <1> QED BY <1>1, AnnotationsTyped, PTL DEF Spec, NothingForgotten

-----------------------------------------------------------------------------
\* The kinds of step, as far as the file, the copies and the pages go.

Mutates(d, e, ok) == Commit(d, e, ok) /\ Grown(e) /\ UNCHANGED <<page, lapsed>>
Refreshes(d) == Cache(d, file) /\ UNCHANGED <<file, told, page, lapsed>>
Shown == <<file, copy, collect, page, told, lapsed>>

LEMMA Mutators ==
  ASSUME TypeOK, Next
  PROVE  \/ \E d \in Dashboards, e \in Entries, ok \in BOOLEAN : Formed(e) /\ Mutates(d, e, ok)
         \/ \E d \in Dashboards : \/ Refreshes(d) \/ Sample(d) \/ Read(d) \/ Publish(d)
                                  \/ Evict(d)
         \/ (\E p \in Pages : Draw(p)) \/ Forget
         \/ UNCHANGED Shown
  <1> DEFINE Goal == \E d \in Dashboards, e \in Entries, ok \in BOOLEAN :
                       Formed(e) /\ Mutates(d, e, ok)
  <1>1. ASSUME NEW p \in Pages, NEW w \in Words, NEW guarded \in BOOLEAN, Save(p, w, guarded)
        PROVE  Goal \/ \E d \in Dashboards : Refreshes(d)
    <2>1. PageOn[p] \in Dashboards /\ UNCHANGED <<page, lapsed>>
      BY <1>1, AnnotationsAssumption DEF Save, withdrawn
    <2>2. CASE Cache(PageOn[p], file) /\ UNCHANGED <<store, told, replaced>>
      BY <2>1, <2>2 DEF Refreshes, store
    <2>3. CASE \E ok \in BOOLEAN : Commit(PageOn[p], Annotated(file, w), ok)
      <3>1. /\ Annotated(file, w) \in Entries /\ Formed(Annotated(file, w))
            /\ Grown(Annotated(file, w))
        BY Built, AnnotatedGrown DEF TypeOK
      <3>2. PICK ok \in BOOLEAN : Commit(PageOn[p], Annotated(file, w), ok)
        BY <2>3
      <3>3. Mutates(PageOn[p], Annotated(file, w), ok)
        BY <2>1, <3>1, <3>2 DEF Mutates
      <3> QED BY <2>1, <3>1, <3>3
    <2> QED BY <1>1, <2>2, <2>3 DEF Save, Latest
  <1>2. ASSUME NEW p \in Pages, NEW m \in Moments, NEW guarded \in BOOLEAN, Settle(p, m, guarded)
        PROVE  Goal
    <2>1. PageOn[p] \in Dashboards /\ UNCHANGED <<page, lapsed>> /\ Live(file)
      BY <1>2, AnnotationsAssumption DEF Settle, Latest, withdrawn
    <2>2. PICK ok \in BOOLEAN : Commit(PageOn[p], Settlement(file, m), ok)
      BY <1>2 DEF Settle, Latest
    <2>3. /\ Settlement(file, m) \in Entries /\ Formed(Settlement(file, m))
          /\ Grown(Settlement(file, m))
      BY <2>1, Built, SettlementGrown DEF TypeOK
    <2>4. Mutates(PageOn[p], Settlement(file, m), ok)
      BY <2>1, <2>2, <2>3 DEF Mutates
    <2> QED BY <2>1, <2>3, <2>4
  <1>3. ASSUME NEW p \in Pages, NEW on \in BOOLEAN, Mark(p, on) PROVE Goal
    <2> DEFINE e == [file EXCEPT !.mark = on]
    <2>1. PageOn[p] \in Dashboards /\ UNCHANGED <<page, lapsed>> /\ file.read # None
      BY <1>3, AnnotationsAssumption DEF Mark, Latest, withdrawn
    <2>2. PICK ok \in BOOLEAN : Commit(PageOn[p], e, ok)
      BY <1>3 DEF Mark, Latest
    <2>3. e \in Entries /\ Formed(e) /\ Grown(e)
      BY <2>1, Built, MarkGrown DEF TypeOK
    <2> HIDE DEF e
    <2>4. Mutates(PageOn[p], e, ok)
      BY <2>1, <2>2, <2>3 DEF Mutates
    <2> QED BY <2>1, <2>3, <2>4
  <1>4. ASSUME NEW p \in Pages, Clear(p) PROVE Goal
    <2>1. PageOn[p] \in Dashboards /\ UNCHANGED <<page, lapsed>>
      BY <1>4, AnnotationsAssumption DEF Clear
    <2>2. PICK ok \in BOOLEAN : Commit(PageOn[p], Discarded(file), ok)
      BY <1>4 DEF Clear, Latest
    <2>3. Discarded(file) \in Entries /\ Formed(Discarded(file)) /\ Grown(Discarded(file))
      BY Built, DiscardedGrown DEF TypeOK
    <2>4. Mutates(PageOn[p], Discarded(file), ok)
      BY <2>1, <2>2, <2>3 DEF Mutates
    <2> QED BY <2>1, <2>3, <2>4
  <1>5. ASSUME NEW j \in Jobs, Record(j) PROVE Goal \/ UNCHANGED Shown
    <2>1. JobOn[j] \in Dashboards /\ UNCHANGED <<page, lapsed>>
      BY <1>5, AnnotationsAssumption DEF Record, withdrawn
    <2>2. CASE UNCHANGED <<store, copy, collect, told>>
      BY <2>1, <2>2 DEF Shown, store, told
    <2>3. CASE /\ Live(file)
               /\ \E ok \in BOOLEAN, out \in {Assessed(file, j), WithheldAt(file, j)} :
                    Commit(JobOn[j], out, ok)
      <3>1. PICK ok \in BOOLEAN, out \in {Assessed(file, j), WithheldAt(file, j)} :
                    Commit(JobOn[j], out, ok)
        BY <2>3
      <3>2. out \in Entries /\ Formed(out) /\ Grown(out)
        BY <2>3, Built, AssessedGrown, WithheldGrown DEF TypeOK
      <3>3. Mutates(JobOn[j], out, ok)
        BY <2>1, <3>1, <3>2 DEF Mutates
      <3> QED BY <2>1, <3>2, <3>3
    <2> QED BY <1>5, <2>2, <2>3 DEF Record, Latest
  <1>6. ASSUME NEW p \in Pages, NEW j \in Jobs, Press(p, j)
        PROVE  \E d \in Dashboards : Refreshes(d)
    BY <1>6, AnnotationsAssumption DEF Press, Refreshes, store, withdrawn
  <1>7. ASSUME \/ \E j \in Jobs : Leave(j)
               \/ \E d \in Dashboards : Withdraw(d)
               \/ \E n \in lane : LaneRecord(n)
               \/ Spoil \/ Mend
        PROVE  UNCHANGED Shown
    BY <1>7 DEF Leave, Withdraw, LaneRecord, Spoil, Mend, Shown, store, withdrawn
  <1> QED BY <1>1, <1>2, <1>3, <1>4, <1>5, <1>6, <1>7 DEF Next

LEMMA Kinds ==
  ASSUME TypeOK, [Next]_vars
  PROVE  \/ \E d \in Dashboards, e \in Entries, ok \in BOOLEAN : Formed(e) /\ Mutates(d, e, ok)
         \/ \E d \in Dashboards : \/ Refreshes(d) \/ Sample(d) \/ Read(d) \/ Publish(d)
                                  \/ Evict(d)
         \/ (\E p \in Pages : Draw(p)) \/ Forget
         \/ UNCHANGED Shown
  <1>1. UNCHANGED vars => UNCHANGED Shown
    BY DEF vars, Shown, store, withdrawn
  <1> QED BY <1>1, Mutators

\* What Cache leaves of a collection: all but its flag, which is up if it is under way.
LEMMA Cached ==
  ASSUME TypeOK, NEW d \in Dashboards, NEW e \in Entries, Cache(d, e)
  PROVE  /\ copy' = [copy EXCEPT ![d] = e]
         /\ \A x \in Dashboards : /\ collect'[x].at = collect[x].at
                                  /\ collect'[x].got = collect[x].got
                                  /\ collect'[x].ended = collect[x].ended
                                  /\ collect'[x].whole = collect[x].whole
                                  /\ x # d => collect'[x] = collect[x]
         /\ collect'[d].moved = (collect[d].at # "idle")
  <1>1. collect[d] \in Collections
    BY DEF TypeOK
  <1>2. collect' = [collect EXCEPT ![d] = [collect[d] EXCEPT !.moved = collect[d].at # "idle"]]
    BY DEF Cache, TypeOK
  <1> QED BY <1>1, <1>2 DEF Cache, TypeOK, Collections

-----------------------------------------------------------------------------
\* Numbers. Every revision anyone still shows was held by the file or kept by the
\* dashboard that could not store it, and until the entry is dropped the file's number
\* is the highest it has given.

Within(e, S) == Live(e) => Rev(e) \in S
HeldRevs == /\ Within(file, named)
            /\ \A d \in Dashboards : /\ Within(copy[d], named \cup unstored)
                                     /\ Within(collect[d].got, named)
            /\ \A p \in Pages : page[p].n # 0 => Rev(page[p]) \in named \cup unstored
OneText == \A a, b \in named : a[1] = b[1] => a = b
Highest == \A a \in named : a[1] <= file.n
Numbered == HeldRevs /\ (lapsed \/ (OneText /\ Highest))

\* Once the entry has been dropped, its numbers may start again for good.
LEMMA LapseKept ==
  ASSUME TypeOK, [Next]_vars, lapsed PROVE lapsed'
  <1>1. CASE UNCHANGED vars
    BY <1>1 DEF vars, withdrawn
  <1>2. CASE Next
    <2>1. \/ \E d \in Dashboards, e \in Entries, ok \in BOOLEAN : Mutates(d, e, ok)
          \/ \E d \in Dashboards : Refreshes(d) \/ Sample(d) \/ Read(d) \/ Publish(d) \/ Evict(d)
          \/ (\E p \in Pages : Draw(p)) \/ Forget
          \/ UNCHANGED Shown
      BY Kinds
    <2> QED BY <2>1 DEF Mutates, Refreshes, Sample, Read, Publish, Evict, Forget, Dropped,
                        Draw, Shown, withdrawn
  <1> QED BY <1>1, <1>2

LEMMA MutatesNumbered ==
  ASSUME TypeOK, Numbered, NEW d \in Dashboards, NEW e \in Entries, NEW ok \in BOOLEAN,
         Formed(e), Mutates(d, e, ok)
  PROVE  Numbered'
  <1>1. /\ Commit(d, e, ok) /\ Grown(e) /\ page' = page /\ lapsed' = lapsed /\ Cache(d, e)
        /\ named \subseteq named' /\ unstored \subseteq unstored'
        /\ Revs(e) \subseteq named' \cup unstored'
    BY DEF Mutates, Commit
  <1>2. Within(file', named')
    BY <1>1 DEF Commit, Within, Revs, Numbered, HeldRevs
  <1>3. \A x \in Dashboards : Within(copy'[x], named' \cup unstored')
    <2> SUFFICES ASSUME NEW x \in Dashboards PROVE Within(copy'[x], named' \cup unstored')
      OBVIOUS
    <2>1. copy' = [copy EXCEPT ![d] = e]
      BY <1>1, Cached
    <2>2. CASE x = d
      BY <1>1, <2>1, <2>2 DEF Within, Revs, TypeOK
    <2>3. CASE x # d
      BY <1>1, <2>1, <2>3 DEF Within, TypeOK, Numbered, HeldRevs
    <2> QED BY <2>2, <2>3
  <1>4. \A x \in Dashboards : Within(collect'[x].got, named')
    BY <1>1, Cached DEF Within, Numbered, HeldRevs
  <1>5. \A p \in Pages : page'[p].n # 0 => Rev(page'[p]) \in named' \cup unstored'
    BY <1>1 DEF Numbered, HeldRevs
  <1>6. OneText /\ Highest => OneText' /\ Highest'
    <2> SUFFICES ASSUME OneText, Highest PROVE OneText' /\ Highest'
      OBVIOUS
    <2>1. file.n \in Nat /\ e.n \in Nat /\ \A a \in named : a[1] \in Nat
      BY SettledNat DEF TypeOK, Named
    <2>2. CASE named' = named
      <3>1. file' = file \/ file'.n >= file.n
        BY <1>1, <2>1 DEF Commit, Grown, Minted, Stands
      <3>2. OneText'
        BY <2>2 DEF OneText
      <3>3. Highest'
        BY <2>1, <2>2, <3>1, <1>1 DEF Highest, Commit, Grown, Minted, Stands
      <3> QED BY <3>2, <3>3
    <2>3. CASE Live(e) /\ named' = named \cup {Rev(e)} /\ file' = e
      <3>1. CASE Stands(e)
        <4>1. Rev(e) = Rev(file) /\ Rev(file) \in named
          BY <2>3, <3>1 DEF Stands, Rev, Numbered, HeldRevs, Within
        <4>2. named' = named /\ file'.n = file.n
          BY <2>3, <3>1, <4>1 DEF Stands
        <4> QED BY <4>2 DEF OneText, Highest
      <3>2. CASE Minted(e)
        <4>1. Rev(e)[1] = file.n + 1 /\ file'.n = file.n + 1
          BY <2>3, <3>2 DEF Minted, Rev
        <4>2. \A a \in named : a[1] # Rev(e)[1] /\ a[1] <= file'.n
          BY <2>1, <4>1 DEF Highest
        <4>3. OneText'
          BY <2>3, <4>2 DEF OneText
        <4>4. Highest'
          BY <2>1, <2>3, <4>1, <4>2 DEF Highest
        <4> QED BY <4>3, <4>4
      <3> QED BY <1>1, <3>1, <3>2 DEF Grown
    <2>4. named' = named \/ (Live(e) /\ named' = named \cup {Rev(e)} /\ file' = e)
      BY <1>1 DEF Commit, Revs
    <2> QED BY <2>2, <2>3, <2>4
  <1> QED BY <1>1, <1>2, <1>3, <1>4, <1>5, <1>6 DEF Numbered, HeldRevs

LEMMA PublishNumbered ==
  ASSUME TypeOK, Numbered, NEW d \in Dashboards, Publish(d) PROVE Numbered'
  <1>1. /\ copy' = [copy EXCEPT ![d] = Entry(d)] /\ collect' = [collect EXCEPT ![d] = NoCollection]
        /\ UNCHANGED <<file, named, unstored, page, lapsed>>
    BY DEF Publish, store, withdrawn
  <1>2. Within(Entry(d), named \cup unstored)
    BY DEF Entry, Within, Numbered, HeldRevs
  <1>3. ~Live(NoCollection.got)
    BY DEF NoCollection, NoEntry, Live
  <1>4. \A x \in Dashboards : Within(copy'[x], named \cup unstored) /\ Within(collect'[x].got, named)
    <2> SUFFICES ASSUME NEW x \in Dashboards
                 PROVE  Within(copy'[x], named \cup unstored) /\ Within(collect'[x].got, named)
      OBVIOUS
    <2>1. CASE x = d
      BY <1>1, <1>2, <1>3, <2>1 DEF Within, TypeOK
    <2>2. CASE x # d
      BY <1>1, <2>2 DEF Within, TypeOK, Numbered, HeldRevs
    <2> QED BY <2>1, <2>2
  <1> QED BY <1>1, <1>4 DEF Numbered, HeldRevs, OneText, Highest

LEMMA NextNumbered == TypeOK /\ Numbered /\ [Next]_vars => Numbered'
  <1> SUFFICES ASSUME TypeOK, Numbered, [Next]_vars PROVE Numbered'
    OBVIOUS
  <1>1. ASSUME NEW d \in Dashboards, Refreshes(d) PROVE Numbered'
    <2>1. Cache(d, file) /\ UNCHANGED <<file, named, unstored, page, lapsed>> /\ file \in Entries
      BY <1>1 DEF Refreshes, told, TypeOK
    <2>2. /\ copy' = [copy EXCEPT ![d] = file]
          /\ \A x \in Dashboards : collect'[x].got = collect[x].got
      BY <2>1, Cached
    <2>3. \A x \in Dashboards : Within(copy'[x], named \cup unstored)
      BY <2>2 DEF Within, TypeOK, Numbered, HeldRevs
    <2> QED BY <2>1, <2>2, <2>3 DEF Numbered, HeldRevs, OneText, Highest, Within
  <1>2. ASSUME NEW d \in Dashboards, Sample(d) PROVE Numbered'
    <2>1. UNCHANGED <<file, copy, named, unstored, page, lapsed>>
      BY <1>2 DEF Sample, store, told, withdrawn
    <2>2. \A x \in Dashboards : collect'[x].got = collect[x].got \/ collect'[x].got = NoEntry
      BY <1>2, Sampled DEF Sample, TypeOK
    <2>3. \A x \in Dashboards : Within(collect'[x].got, named)
      BY <2>2 DEF Within, Live, NoEntry, Numbered, HeldRevs
    <2> QED BY <2>1, <2>3 DEF Numbered, HeldRevs, OneText, Highest
  <1>3. ASSUME NEW d \in Dashboards, Read(d) PROVE Numbered'
    <2>1. UNCHANGED <<file, copy, named, unstored, page, lapsed>>
      BY <1>3 DEF Read, store, told, withdrawn
    <2>2. \A x \in Dashboards : \/ collect'[x].got = collect[x].got
                                \/ collect'[x].got \in {NoEntry, file}
      BY <1>3, ReadStep DEF TypeOK
    <2>3. \A x \in Dashboards : Within(collect'[x].got, named)
      BY <2>2 DEF Within, Live, NoEntry, Numbered, HeldRevs
    <2> QED BY <2>1, <2>3 DEF Numbered, HeldRevs, OneText, Highest
  <1>4. ASSUME NEW p \in Pages, Draw(p) PROVE Numbered'
    <2>1. /\ page' = [page EXCEPT ![p] = View(copy[PageOn[p]])]
          /\ UNCHANGED <<file, copy, collect, named, unstored, lapsed>>
      BY <1>4 DEF Draw, store, told, withdrawn
    <2>2. PageOn[p] \in Dashboards
      BY AnnotationsAssumption
    <2>3. LET v == View(copy[PageOn[p]]) IN v.n # 0 => Rev(v) \in named \cup unstored
      BY <2>2 DEF View, Blank, Rev, Numbered, HeldRevs, Within
    <2>4. \A q \in Pages : page'[q].n # 0 => Rev(page'[q]) \in named \cup unstored
      BY <2>1, <2>3 DEF TypeOK, Numbered, HeldRevs
    <2> QED BY <2>1, <2>4 DEF Numbered, HeldRevs, OneText, Highest
  <1>5. ASSUME Forget \/ \E d \in Dashboards : Evict(d) PROVE Numbered'
    <2>1. /\ file' = NoEntry /\ lapsed' /\ UNCHANGED <<named, unstored, page>>
          /\ \A x \in Dashboards : /\ copy'[x] \in {copy[x], NoEntry}
                                   /\ collect'[x].got = collect[x].got
      <3>1. CASE Forget
        BY <1>5, <3>1 DEF Forget, Dropped
      <3>2. CASE \E d \in Dashboards : Evict(d)
        <4>1. PICK d \in Dashboards : Evict(d)
          BY <3>2
        <4>2. Cache(d, NoEntry) /\ file' = NoEntry /\ lapsed' /\ UNCHANGED <<named, unstored, page>>
          BY <4>1 DEF Evict, Dropped
        <4>3. /\ copy' = [copy EXCEPT ![d] = NoEntry]
              /\ \A x \in Dashboards : collect'[x].got = collect[x].got
          BY <4>2, Cached, NoEntryFormed
        <4> QED BY <4>2, <4>3 DEF TypeOK
      <3> QED BY <1>5, <3>1, <3>2
    <2>2. ~Live(NoEntry)
      BY DEF Live, NoEntry
    <2> QED BY <2>1, <2>2 DEF Numbered, HeldRevs, Within
  <1>6. ASSUME UNCHANGED Shown PROVE Numbered'
    BY <1>6 DEF Shown, told, Numbered, HeldRevs, OneText, Highest, Within
  <1> QED BY <1>1, <1>2, <1>3, <1>4, <1>5, <1>6, Kinds, MutatesNumbered, PublishNumbered

\* A number is never given to two texts, over discards and rebirths and across
\* dashboards, as long as the entry is in the file.
THEOREM NumbersStand == Spec => []NumbersNameOneText
  <1>1. Init => Numbered
    BY DEF Init, Numbered, HeldRevs, OneText, Highest, Within, NoEntry, NoCollection, Blank, Live
  <1>2. Numbered => NumbersNameOneText
    BY DEF Numbered, OneText, NumbersNameOneText
  <1> QED BY <1>1, <1>2, NextNumbered, AnnotationsTyped, PTL DEF Spec

\* The guarded save, on top: what the page showed was stored under the number that the
\* file still has, or never stored at all.
THEOREM OverwritesShown == Spec => []NoSilentOverwrite
  <1>1. Init => NoSilentOverwrite
    BY DEF Init, NoSilentOverwrite
  <1>2. TypeOK /\ Numbered /\ NoSilentOverwrite /\ [Next]_vars => NoSilentOverwrite'
    <2> SUFFICES ASSUME TypeOK, Numbered, NoSilentOverwrite, [Next]_vars, ~lapsed'
                 PROVE  \A r \in replaced' : r[1] = r[2] \/ r[1] \in unstored'
      BY DEF NoSilentOverwrite
    <2>1. ~lapsed
      BY LapseKept
    <2>2. unstored \subseteq unstored'
      <3>1. UNCHANGED vars => UNCHANGED Shown
        BY DEF vars, Shown, store, withdrawn
      <3> QED BY Kinds DEF Mutates, Commit, Refreshes, Sample, Read, Publish, Evict, Forget, Dropped,
                   Draw, Shown, told
    <2>3. \/ replaced' = replaced
          \/ \E p \in Pages, w \in Words, guarded \in BOOLEAN :
               Save(p, w, guarded) /\ replaced' # replaced
      BY DEF Next, vars, Draw, Settle, Mark, Clear, Press, Record, Leave, Sample, Read, Publish,
             Withdraw, LaneRecord, Evict, Forget, Dropped, Spoil, Mend
    <2>4. CASE replaced' = replaced
      BY <2>1, <2>2, <2>4 DEF NoSilentOverwrite
    <2>5. ASSUME NEW p \in Pages, NEW w \in Words, NEW guarded \in BOOLEAN, Save(p, w, guarded),
                 replaced' # replaced
          PROVE  \A r \in replaced' : r[1] = r[2] \/ r[1] \in unstored'
      <3>1. /\ Live(file) /\ ~Stale(p, file, guarded) /\ guarded
            /\ replaced' = replaced \cup {<<Rev(page[p]), Rev(file)>>}
        BY <2>5 DEF Save, Latest
      <3>2. page[p].n = file.n /\ file.n # 0
        <4>1. file.n > 0
          BY <3>1 DEF TypeOK, Formed
        <4>2. View(file).n = file.n
          BY <3>1 DEF View
        <4> QED BY <3>1, <4>1, <4>2 DEF Stale
      <3>3. Rev(page[p]) \in named \cup unstored /\ Rev(file) \in named
        BY <3>1, <3>2 DEF Numbered, HeldRevs, Within
      <3>4. Rev(page[p])[1] = Rev(file)[1]
        BY <3>2 DEF Rev
      <3>5. Rev(page[p]) = Rev(file) \/ Rev(page[p]) \in unstored
        BY <2>1, <3>3, <3>4 DEF Numbered, OneText
      <3> QED BY <2>1, <2>2, <3>1, <3>5 DEF NoSilentOverwrite
    <2> QED BY <2>3, <2>4, <2>5
  <1>3. Init => Numbered
    BY DEF Init, Numbered, HeldRevs, OneText, Highest, Within, NoEntry, NoCollection, Blank, Live
  <1> QED BY <1>1, <1>2, <1>3, NextNumbered, AnnotationsTyped, PTL DEF Spec

-----------------------------------------------------------------------------
\* A dashboard's own saves. The file is never behind what a dashboard stored, so neither
\* is a copy that is taken from it, as long as no read from before the save is assigned.

OwnSaves ==
  \A d \in Dashboards :
    /\ copy[d].n >= mine[d] /\ file.n >= mine[d]
    /\ collect[d].at = "read" /\ ~collect[d].moved /\ collect[d].whole
         => collect[d].got.n >= mine[d]

LEMMA MutatesOwn ==
  ASSUME TypeOK, OwnSaves, NEW d \in Dashboards, NEW e \in Entries, NEW ok \in BOOLEAN,
         Mutates(d, e, ok)
  PROVE  OwnSaves'
  <1>1. /\ Cache(d, e) /\ e.n >= file.n /\ file'.n >= file.n
        /\ file' = (IF ok THEN e ELSE file)
        /\ mine' = (IF ok THEN [mine EXCEPT ![d] = e.n] ELSE mine)
    <2>1. e.n >= file.n /\ file.n \in Nat
      BY SettledNat DEF Mutates, Grown, Minted, Stands, TypeOK
    <2> QED BY <2>1 DEF Mutates, Commit
  <1>2. /\ copy' = [copy EXCEPT ![d] = e]
        /\ \A x \in Dashboards : collect'[x].at = collect[x].at /\ (x # d => collect'[x] = collect[x])
        /\ collect'[d].moved = (collect[d].at # "idle")
    BY <1>1, Cached
  <1>3. /\ file.n \in Nat /\ file'.n \in Nat /\ e.n \in Nat
        /\ \A x \in Dashboards : mine[x] \in Nat
    BY <1>1, SettledNat DEF TypeOK
  <1> SUFFICES ASSUME NEW x \in Dashboards
               PROVE  /\ copy'[x].n >= mine'[x] /\ file'.n >= mine'[x]
                      /\ collect'[x].at = "read" /\ ~collect'[x].moved /\ collect'[x].whole
                           => collect'[x].got.n >= mine'[x]
    BY DEF OwnSaves
  <1>4. CASE x = d
    <2>1. ~(collect'[d].at = "read" /\ ~collect'[d].moved)
      BY <1>2
    <2>2. copy'[d].n = e.n /\ file.n >= mine[d] /\ mine'[d] = IF ok THEN e.n ELSE mine[d]
      BY <1>1, <1>2 DEF TypeOK, OwnSaves
    <2>3. e.n >= mine'[d] /\ file'.n >= mine'[d]
      BY <1>1, <1>3, <2>2
    <2> QED BY <1>4, <2>1, <2>2, <2>3
  <1>5. CASE x # d
    <2>1. copy'[x] = copy[x] /\ mine'[x] = mine[x] /\ collect'[x] = collect[x]
      BY <1>1, <1>2, <1>5 DEF TypeOK
    <2>2. file'.n >= mine[x]
      BY <1>1, <1>3 DEF OwnSaves
    <2> QED BY <2>1, <2>2 DEF OwnSaves
  <1> QED BY <1>4, <1>5

LEMMA PublishOwn ==
  ASSUME TypeOK, OwnSaves, NEW d \in Dashboards, Publish(d) PROVE OwnSaves'
  <1>1. /\ copy' = [copy EXCEPT ![d] = Entry(d)] /\ collect' = [collect EXCEPT ![d] = NoCollection]
        /\ file' = file /\ collect[d].at = "read"
        /\ mine' = IF collect[d].whole \/ collect[d].moved THEN mine ELSE [mine EXCEPT ![d] = 0]
    BY DEF Publish, store
  <1>2. \A x \in Dashboards : copy[x].n \in Nat /\ collect[x].got.n \in Nat /\ mine[x] \in Nat
    BY SettledNat DEF TypeOK, Collections
  <1>3. file.n \in Nat /\ NoCollection.at = "idle"
    BY SettledNat DEF TypeOK, NoCollection
  <1> SUFFICES ASSUME NEW x \in Dashboards
               PROVE  /\ copy'[x].n >= mine'[x] /\ file'.n >= mine'[x]
                      /\ collect'[x].at = "read" /\ ~collect'[x].moved /\ collect'[x].whole
                           => collect'[x].got.n >= mine'[x]
    BY DEF OwnSaves
  <1>4. CASE x # d
    <2>1. copy'[x] = copy[x] /\ mine'[x] = mine[x] /\ collect'[x] = collect[x]
      BY <1>1, <1>4 DEF TypeOK
    <2> QED BY <1>1, <2>1 DEF OwnSaves
  <1>5. CASE x = d
    <2>1. collect'[d].at # "read"
      BY <1>1, <1>3 DEF TypeOK
    <2>2. copy'[d] = Entry(d)
      BY <1>1 DEF TypeOK
    <2>3. CASE ~collect[d].whole /\ ~collect[d].moved
      <3>1. mine'[d] = 0 /\ Entry(d).n \in Nat
        BY <1>1, <1>2, <2>3 DEF TypeOK, Entry
      <3> QED BY <1>1, <1>3, <1>5, <2>1, <2>2, <3>1
    <2>4. CASE collect[d].moved
      <3>1. mine'[d] = mine[d] /\ Entry(d) = copy[d]
        BY <1>1, <2>4 DEF Entry
      <3> QED BY <1>1, <1>5, <2>1, <2>2, <3>1 DEF OwnSaves
    <2>5. CASE collect[d].whole /\ ~collect[d].moved
      <3>1. mine'[d] = mine[d] /\ Entry(d) = collect[d].got
        BY <1>1, <2>5 DEF Entry
      <3> QED BY <1>1, <1>5, <2>1, <2>2, <2>5, <3>1 DEF OwnSaves
    <2> QED BY <2>3, <2>4, <2>5
  <1> QED BY <1>4, <1>5

LEMMA NextOwn == TypeOK /\ (lapsed \/ OwnSaves) /\ [Next]_vars => lapsed' \/ OwnSaves'
  <1> SUFFICES ASSUME TypeOK, OwnSaves, [Next]_vars PROVE lapsed' \/ OwnSaves'
    BY LapseKept
  <1>1. ASSUME NEW d \in Dashboards, Refreshes(d) PROVE OwnSaves'
    <2>1. Cache(d, file) /\ UNCHANGED <<file, mine>> /\ file \in Entries
      BY <1>1 DEF Refreshes, told, TypeOK
    <2>2. /\ copy' = [copy EXCEPT ![d] = file]
          /\ \A x \in Dashboards : collect'[x].at = collect[x].at /\ (x # d => collect'[x] = collect[x])
          /\ collect'[d].moved = (collect[d].at # "idle")
      BY <2>1, Cached
    <2>3. \A x \in Dashboards : copy'[x] = IF x = d THEN file ELSE copy[x]
      BY <2>2 DEF TypeOK
    <2>4. \A x \in Dashboards : copy'[x].n >= mine'[x] /\ file'.n >= mine'[x]
      BY <2>1, <2>3 DEF OwnSaves
    <2>5. ~(collect'[d].at = "read" /\ ~collect'[d].moved)
      BY <2>2
    <2>6. \A x \in Dashboards : collect'[x].at = "read" /\ ~collect'[x].moved /\ collect'[x].whole
                                   => collect'[x].got.n >= mine'[x]
      BY <2>1, <2>2, <2>5 DEF OwnSaves
    <2> QED BY <2>4, <2>6 DEF OwnSaves
  <1>2. ASSUME NEW d \in Dashboards, Sample(d) PROVE OwnSaves'
    <2>1. UNCHANGED <<file, copy, mine>>
      BY <1>2 DEF Sample, store, told
    <2>2. \A x \in Dashboards : collect'[x] = collect[x] \/ collect'[x].at # "read"
      BY <1>2 DEF Sample, TypeOK, NoCollection
    <2> QED BY <2>1, <2>2 DEF OwnSaves
  <1>3. ASSUME NEW d \in Dashboards, Read(d) PROVE OwnSaves'
    <2>1. UNCHANGED <<file, copy, mine>>
      BY <1>3 DEF Read, store, told
    <2>2. \A x \in Dashboards : \/ collect'[x] = collect[x]
                                \/ collect'[x].whole => collect'[x].got = file
      BY <1>3, ReadStep DEF TypeOK
    <2> QED BY <2>1, <2>2 DEF OwnSaves
  <1>4. ASSUME NEW p \in Pages, Draw(p) PROVE OwnSaves'
    BY <1>4 DEF Draw, store, told, OwnSaves
  <1>5. ASSUME Forget \/ \E d \in Dashboards : Evict(d) PROVE lapsed'
    BY <1>5 DEF Forget, Evict, Dropped
  <1>6. ASSUME UNCHANGED Shown PROVE OwnSaves'
    BY <1>6 DEF Shown, told, OwnSaves
  <1> QED BY <1>1, <1>2, <1>3, <1>4, <1>5, <1>6, Kinds, MutatesOwn, PublishOwn

\* A read of the file that began before a save is never assigned over it, wherever the
\* save falls in the collection.
THEOREM OwnSaveShown == Spec => []CopyKeepsSave
  <1>1. Init => OwnSaves
    BY DEF Init, OwnSaves, NoEntry, NoCollection
  <1>2. (lapsed \/ OwnSaves) => CopyKeepsSave
    BY DEF OwnSaves, CopyKeepsSave
  <1> QED BY <1>1, <1>2, NextOwn, AnnotationsTyped, PTL DEF Spec

-----------------------------------------------------------------------------
\* Marks.

\* What a write leaves of the mark: the one that was there, on the same reading; none;
\* or one a reader sets on the reading the file holds.
LEMMA MarkSteps ==
  ASSUME TypeOK, [Next]_vars
  PROVE  /\ doubted \subseteq doubted'
         /\ \/ file'.mark => file.mark /\ file'.read = file.read
            \/ file'.read \in doubted'
  <1>1. CASE UNCHANGED vars
    BY <1>1 DEF vars, store
  <1>2. \A d \in Dashboards, e \in Entries, ok \in BOOLEAN :
          Commit(d, e, ok) => file' \in {e, file}
    BY DEF Commit
  <1>3. ASSUME NEW p \in Pages, NEW w \in Words, NEW guarded \in BOOLEAN, Save(p, w, guarded)
        PROVE  /\ doubted' = doubted
               /\ file'.mark => file.mark /\ file'.read = file.read
    <2>1. doubted' = doubted
      BY <1>3 DEF Save
    <2>2. file' \in {file, Annotated(file, w)}
      BY <1>3 DEF Save, Latest, store, Commit
    <2>3. Annotated(file, w).mark = file.mark /\ Annotated(file, w).read = file.read
      BY DEF Annotated, TypeOK, Entries
    <2> QED BY <2>1, <2>2, <2>3
  <1>4. ASSUME NEW p \in Pages, NEW m \in Moments, NEW guarded \in BOOLEAN, Settle(p, m, guarded)
        PROVE  /\ doubted' = doubted
               /\ file'.mark => file.mark /\ file'.read = file.read
    <2>1. doubted' = doubted
      BY <1>4 DEF Settle
    <2>2. file' \in {file, Settlement(file, m)}
      BY <1>4 DEF Settle, Latest, Commit
    <2>3. Settlement(file, m).mark = file.mark /\ Settlement(file, m).read = file.read
      BY DEF Settlement, TypeOK, Entries
    <2> QED BY <2>1, <2>2, <2>3
  <1>5. ASSUME NEW p \in Pages, NEW on \in BOOLEAN, Mark(p, on)
        PROVE  /\ doubted \subseteq doubted'
               /\ \/ file'.mark => file.mark /\ file'.read = file.read
                  \/ file'.read \in doubted'
    <2> DEFINE e == [file EXCEPT !.mark = on]
    <2>1. doubted' = IF on THEN doubted \cup {file.read} ELSE doubted
      BY <1>5 DEF Mark, Latest
    <2>2. file' \in {file, e}
      BY <1>5 DEF Mark, Latest, Commit
    <2>3. e.mark = on /\ e.read = file.read
      BY DEF TypeOK, Entries
    <2> HIDE DEF e
    <2> QED BY <2>1, <2>2, <2>3
  <1>6. ASSUME NEW p \in Pages, Clear(p)
        PROVE  /\ doubted' = doubted
               /\ file'.mark => file.mark /\ file'.read = file.read
    <2>1. doubted' = doubted
      BY <1>6 DEF Clear
    <2>2. file' \in {file, Discarded(file)}
      BY <1>6 DEF Clear, Latest, Commit
    <2> QED BY <2>1, <2>2, DiscardedGrown
  <1>7. ASSUME NEW j \in Jobs, Record(j)
        PROVE  /\ doubted' = doubted
               /\ file'.mark => file.mark /\ file'.read = file.read
    <2>1. doubted' = doubted
      BY <1>7 DEF Record
    <2>2. file' = file \/ (Live(file) /\ file' \in {file, Assessed(file, j), WithheldAt(file, j)})
      BY <1>7 DEF Record, Latest, store, Commit
    <2> QED BY <2>1, <2>2, AssessedGrown, WithheldGrown
  <1>8. ASSUME Forget \/ \E d \in Dashboards : Evict(d)
        PROVE  doubted' = doubted /\ ~file'.mark
    BY <1>8 DEF Forget, Evict, Dropped, NoEntry
  <1>9. ASSUME NEW p \in Pages, Draw(p) \/ \E j \in Jobs : Press(p, j)
        PROVE  UNCHANGED <<file, doubted>>
    BY <1>9 DEF Draw, Press, store
  <1>10. ASSUME NEW d \in Dashboards, Sample(d) \/ Read(d) \/ Publish(d) \/ Withdraw(d)
         PROVE  UNCHANGED <<file, doubted>>
    BY <1>10 DEF Sample, Read, Publish, Withdraw, store
  <1>11. ASSUME (\E j \in Jobs : Leave(j)) \/ (\E n \in lane : LaneRecord(n)) \/ Spoil \/ Mend
         PROVE  UNCHANGED <<file, doubted>>
    BY <1>11 DEF Leave, LaneRecord, Spoil, Mend, store
  <1> QED BY <1>1, <1>3, <1>4, <1>5, <1>6, <1>7, <1>8, <1>9, <1>10, <1>11 DEF Next

\* No reading wears a mark that was made on another.
THEOREM MarksOnShown == Spec => []MarkOnShown
  <1>1. Init => MarkOnShown
    BY DEF Init, MarkOnShown, NoEntry
  <1>2. TypeOK /\ MarkOnShown /\ [Next]_vars => MarkOnShown'
    BY MarkSteps DEF MarkOnShown
  <1> QED BY <1>1, <1>2, AnnotationsTyped, PTL DEF Spec

-----------------------------------------------------------------------------
\* The steps of the readings, the lane and the clear, for the two properties below.

\* A reading whose outcome has been handed to the store.
Over == {"recorded", "done"}

\* A clear that the file took.
Cleared ==
  /\ file' = Discarded(file) /\ \E d \in Dashboards : Cache(d, Discarded(file))
  /\ gone' = (IF Live(file) THEN file.n ELSE gone) /\ late' = late \cup Underway
  /\ lost' = lost \cup file.jobs /\ owed' # {}
  /\ UNCHANGED <<job, lane, quotes, said, lapsed, blind>>

\* A reader's write that leaves the words standing.
Rewrites ==
  /\ Grown(file') /\ Live(file') /\ file'.read = file.read
  /\ UNCHANGED <<job, gone, late, lost>>

LEMMA ClearSteps ==
  ASSUME TypeOK, NEW p \in Pages, Clear(p)
  PROVE  UNCHANGED <<file, gone, late, lost, job>> \/ Cleared
  <1>1. PageOn[p] \in Dashboards
    BY AnnotationsAssumption
  <1>2. PICK ok \in BOOLEAN :
          /\ Commit(PageOn[p], Discarded(file), ok)
          /\ IF ok
             THEN /\ owed' = owed \cup {PageOn[p]}
                  /\ gone' = IF Live(file) THEN file.n ELSE gone
                  /\ late' = late \cup Underway
                  /\ lost' = lost \cup file.jobs
             ELSE UNCHANGED <<owed, gone, late, lost>>
    BY DEF Clear, Latest
  <1>3. CASE ok
    BY <1>1, <1>2, <1>3 DEF Cleared, Commit, Clear
  <1>4. CASE ~ok
    BY <1>2, <1>4 DEF Commit, Clear
  <1> QED BY <1>3, <1>4

\* Every step leaves the file alone, or a reader, a clear or a reading writes to it, or
\* the entry is dropped.
LEMMA Writes ==
  ASSUME TypeOK, [Next]_vars
  PROVE  \/ UNCHANGED <<file, gone, late>> /\ lost \subseteq lost'
         \/ Rewrites
         \/ Cleared
         \/ /\ UNCHANGED <<gone, late, lost>> /\ Live(file)
            /\ \E j \in Jobs : Record(j) /\ file' \in {Assessed(file, j), WithheldAt(file, j)}
         \/ file' = NoEntry /\ lapsed' /\ lost' = lost \cup file.jobs
  <1>1. CASE UNCHANGED vars
    BY <1>1 DEF vars, store, withdrawn
  <1>2. ASSUME NEW p \in Pages, NEW w \in Words, NEW guarded \in BOOLEAN, Save(p, w, guarded)
        PROVE  UNCHANGED <<file, gone, late, lost>> \/ Rewrites
    <2>1. file' \in {file, Annotated(file, w)} /\ UNCHANGED <<gone, late, lost, job>>
      BY <1>2 DEF Save, Latest, store, Commit, withdrawn
    <2>2. Live(Annotated(file, w))
      BY DEF Live, Annotated, TypeOK, Entries
    <2> QED BY <2>1, <2>2, AnnotatedGrown DEF Rewrites
  <1>3. ASSUME NEW p \in Pages, NEW m \in Moments, NEW guarded \in BOOLEAN, Settle(p, m, guarded)
        PROVE  UNCHANGED <<file, gone, late, lost>> \/ Rewrites
    <2>1. file' \in {file, Settlement(file, m)} /\ UNCHANGED <<gone, late, lost, job>> /\ Live(file)
      BY <1>3 DEF Settle, Latest, Commit, withdrawn
    <2>2. Live(Settlement(file, m))
      BY <2>1 DEF Live, Settlement, TypeOK, Entries
    <2> QED BY <2>1, <2>2, SettlementGrown DEF Rewrites
  <1>4. ASSUME NEW p \in Pages, NEW on \in BOOLEAN, Mark(p, on)
        PROVE  UNCHANGED <<file, gone, late, lost>> \/ Rewrites
    <2> DEFINE e == [file EXCEPT !.mark = on]
    <2>1. file' \in {file, e} /\ UNCHANGED <<gone, late, lost, job>> /\ file.read # None
      BY <1>4 DEF Mark, Latest, Commit, withdrawn
    <2>2. e.is = file.is /\ Live(file)
      BY <2>1 DEF TypeOK, Entries, Formed, NoEntry
    <2>3. Live(e)
      BY <2>2 DEF Live
    <2>4. Grown(e) /\ e.read = file.read
      BY MarkGrown
    <2> HIDE DEF e
    <2> QED BY <2>1, <2>3, <2>4 DEF Rewrites
  <1>5. ASSUME NEW j \in Jobs, Record(j)
        PROVE  \/ UNCHANGED <<file, gone, late>> /\ lost \subseteq lost'
               \/ /\ UNCHANGED <<gone, late, lost>> /\ Live(file)
                  /\ file' \in {Assessed(file, j), WithheldAt(file, j)}
    <2>1. UNCHANGED <<gone, late>>
      BY <1>5 DEF Record, withdrawn
    <2>2. CASE lost' = lost \cup {j} /\ UNCHANGED store
      BY <2>1, <2>2 DEF store
    <2>3. CASE /\ Live(file)
               /\ \E ok \in BOOLEAN, out \in {Assessed(file, j), WithheldAt(file, j)} :
                    /\ Commit(JobOn[j], out, ok)
                    /\ lost' = IF ok THEN lost ELSE lost \cup {j}
      BY <2>1, <2>3 DEF Commit
    <2> QED BY <1>5, <2>2, <2>3 DEF Record, Latest
  <1>6. ASSUME Forget \/ \E d \in Dashboards : Evict(d)
        PROVE  file' = NoEntry /\ lapsed' /\ lost' = lost \cup file.jobs
    BY <1>6 DEF Forget, Evict, Dropped
  <1>7. ASSUME \/ \E p \in Pages : Draw(p) \/ \E j \in Jobs : Press(p, j)
               \/ \E d \in Dashboards : Sample(d) \/ Read(d) \/ Publish(d) \/ Withdraw(d)
               \/ \E j \in Jobs : Leave(j)
               \/ \E n \in lane : LaneRecord(n)
               \/ Spoil \/ Mend
        PROVE  UNCHANGED <<file, gone, late, lost>>
    BY <1>7 DEF Draw, Press, Sample, Read, Publish, Withdraw, Leave, LaneRecord, Spoil, Mend,
                store, withdrawn
  <1> QED BY <1>1, <1>2, <1>3, <1>4, <1>5, <1>6, <1>7, ClearSteps DEF Next

\* A reading keeps the revision it was handed, which was the file's, and once over stays so.
LEMMA JobSteps ==
  ASSUME TypeOK, [Next]_vars, NEW j \in Jobs
  PROVE  /\ job[j].at \in Over => job'[j].at \in Over /\ job'[j].n = job[j].n
         /\ job[j].at = "done" => job'[j].at = "done"
         /\ job'[j].at = "reading" => \/ job[j].at = "reading" /\ job'[j].n = job[j].n
                                      \/ Live(file) /\ job'[j].n = file.n
         /\ job'[j].at \in Over /\ job[j].at \notin Over => Record(j)
  <1>0. job \in [Jobs -> [at: {"new", "reading", "recorded", "done"}, n: Nat]]
    BY DEF TypeOK
  <1>1. \/ UNCHANGED job
        \/ \E p \in Pages, i \in Jobs : Press(p, i)
        \/ \E i \in Jobs : Record(i) \/ Leave(i)
    BY DEF Next, vars, Draw, Save, Settle, Mark, Clear, Sample, Read, Publish, Withdraw,
           LaneRecord, Evict, Forget, Dropped, Spoil, Mend
  <1>2. ASSUME NEW p \in Pages, NEW i \in Jobs, Press(p, i), job'[j] # job[j]
        PROVE  /\ job[j].at = "new" /\ job'[j].at = "reading" /\ Live(file)
               /\ job'[j].n = file.n
    BY <1>0, <1>2 DEF Press
  <1>3. ASSUME NEW i \in Jobs, Record(i), job'[j] # job[j]
        PROVE  /\ i = j /\ job[j].at = "reading" /\ job'[j].at = "recorded"
               /\ job'[j].n = job[j].n
    BY <1>0, <1>3 DEF Record
  <1>4. ASSUME NEW i \in Jobs, Leave(i), job'[j] # job[j]
        PROVE  job[j].at = "recorded" /\ job'[j].at = "done" /\ job'[j].n = job[j].n
    BY <1>0, <1>4 DEF Leave
  <1> QED BY <1>1, <1>2, <1>3, <1>4 DEF Over

\* The lane starts on what a collection works on.
LEMMA LaneSteps ==
  ASSUME TypeOK, [Next]_vars, NEW n \in lane', n \notin lane
  PROVE  \E d \in Dashboards : collect[d].at = "read" /\ Live(Entry(d)) /\ n = Entry(d).n
  <1>1. \/ lane' \subseteq lane \/ \E d \in Dashboards : Publish(d)
    BY DEF Next, vars, Draw, Save, Settle, Mark, Clear, Press, Record, Leave, Sample, Read,
           Withdraw, LaneRecord, Evict, Forget, Dropped, Spoil, Mend
  <1>2. ASSUME NEW d \in Dashboards, Publish(d)
        PROVE  collect[d].at = "read" /\ Live(Entry(d)) /\ n = Entry(d).n
    BY <1>2, Zenon DEF Publish
  <1> QED BY <1>1, <1>2

\* A row quotes what the lane read, and the withdrawal blanks every one or says so.
LEMMA RowSteps ==
  ASSUME [Next]_vars
  PROVE  \/ quotes' \subseteq quotes \cup lane /\ said' = said /\ owed \subseteq owed'
         \/ quotes' = {} \/ said'
  <1>1. \/ UNCHANGED <<quotes, said, owed>>
        \/ \E p \in Pages : Clear(p)
        \/ \E d \in Dashboards : Withdraw(d)
        \/ \E n \in lane : LaneRecord(n)
    BY DEF Next, vars, departed, Draw, Save, Settle, Mark, Press, Record, Leave, Sample, Read,
           Publish, Evict, Forget, Dropped, Spoil, Mend
  <1>2. ASSUME NEW p \in Pages, Clear(p) PROVE UNCHANGED <<quotes, said>> /\ owed \subseteq owed'
    BY <1>2 DEF Clear
  <1>3. ASSUME NEW d \in Dashboards, Withdraw(d) PROVE quotes' = {} \/ said'
    BY <1>3 DEF Withdraw, Blanked
  <1>4. ASSUME NEW n \in lane, LaneRecord(n)
        PROVE  quotes' \subseteq quotes \cup lane /\ UNCHANGED <<said, owed>>
    BY <1>4 DEF LaneRecord
  <1> QED BY <1>1, <1>2, <1>3, <1>4

\* A collection holds what it held, or the file as it reads it; and the copy it will show
\* instead, once its generation moved, is one it had, the file, or what a mutator built.
LEMMA CollectionSteps ==
  ASSUME TypeOK, [Next]_vars, NEW x \in Dashboards
  PROVE  /\ collect'[x].at = "read" =>
              /\ collect[x].at # "idle" /\ collect'[x].ended = collect[x].ended
              /\ \/ collect[x].at = "read" /\ collect'[x].got = collect[x].got
                 \/ collect'[x].got \in {NoEntry, file}
         /\ collect'[x].moved =>
              /\ collect'[x].ended = collect[x].ended
              /\ \/ collect[x].moved /\ copy'[x] = copy[x]
                 \/ copy'[x] \in {NoEntry, file} \/ Grown(copy'[x])
         /\ collect'[x].ended \in {{}, Ended(x), collect[x].ended}
  <1>0. /\ copy \in [Dashboards -> Entries] /\ collect \in [Dashboards -> Collections]
        /\ NoCollection.at = "idle" /\ ~NoCollection.moved /\ NoCollection.ended = {}
    BY DEF TypeOK, NoCollection
  <1> DEFINE Took == copy'[x] \in {NoEntry, file} \/ Grown(copy'[x])
             Goal == /\ collect'[x].at = "read" =>
                          /\ collect[x].at # "idle" /\ collect'[x].ended = collect[x].ended
                          /\ \/ collect[x].at = "read" /\ collect'[x].got = collect[x].got
                             \/ collect'[x].got \in {NoEntry, file}
                     /\ collect'[x].moved =>
                          /\ collect'[x].ended = collect[x].ended
                          /\ \/ collect[x].moved /\ copy'[x] = copy[x]
                             \/ Took
                     /\ collect'[x].ended \in {{}, Ended(x), collect[x].ended}
  <1>1. ASSUME collect'[x] = collect[x], copy'[x] = copy[x] PROVE Goal
    BY <1>0, <1>1
  <1>2. ASSUME NEW d \in Dashboards, NEW e \in Entries, Cache(d, e),
               e \in {NoEntry, file} \/ Grown(e)
        PROVE  Goal
    <2>1. /\ copy' = [copy EXCEPT ![d] = e]
          /\ collect'[x].at = collect[x].at /\ collect'[x].got = collect[x].got
          /\ collect'[x].ended = collect[x].ended
          /\ x # d => collect'[x] = collect[x]
      BY <1>2, Cached
    <2>2. copy'[x] = IF x = d THEN e ELSE copy[x]
      BY <1>0, <2>1
    <2>3. CASE x = d
      BY <1>2, <2>1, <2>2, <2>3
    <2>4. CASE x # d
      BY <1>1, <2>1, <2>2, <2>4
    <2> QED BY <2>3, <2>4
  <1>3. ASSUME NEW d \in Dashboards, Sample(d) PROVE Goal
    <2>1. copy' = copy
      BY <1>3 DEF Sample
    <2>2. CASE x = d
      <3>1. /\ collect'[x].at = "sampled" /\ ~collect'[x].moved
            /\ collect'[x].ended = Ended(x)
        BY <1>0, <1>3, <2>2 DEF Sample, NoCollection
      <3> QED BY <3>1
    <2>3. CASE x # d
      <3>1. collect'[x] = collect[x]
        BY <1>0, <1>3, <2>3 DEF Sample
      <3> QED BY <1>1, <2>1, <3>1
    <2> QED BY <2>2, <2>3
  <1>4. ASSUME NEW d \in Dashboards, Read(d) PROVE Goal
    <2>1. copy' = copy /\ collect[d].at = "sampled"
      BY <1>4 DEF Read
    <2>2. PICK c \in Collections :
            /\ collect' = [collect EXCEPT ![d] = c]
            /\ c.at = "read" /\ c.got = IF trusted THEN file ELSE NoEntry
            /\ c.ended = collect[d].ended /\ c.moved = collect[d].moved
      BY <1>4, ReadStep
    <2>3. CASE x = d
      <3>1. collect'[x] = c
        BY <1>0, <2>2, <2>3
      <3> QED BY <2>1, <2>2, <2>3, <3>1
    <2>4. CASE x # d
      <3>1. collect'[x] = collect[x]
        BY <1>0, <2>2, <2>4
      <3> QED BY <1>1, <2>1, <3>1
    <2> QED BY <2>3, <2>4
  <1>5. ASSUME NEW d \in Dashboards, Publish(d) PROVE Goal
    <2>1. /\ copy' = [copy EXCEPT ![d] = Entry(d)]
          /\ collect' = [collect EXCEPT ![d] = NoCollection]
      BY <1>5 DEF Publish
    <2>2. CASE x = d
      <3>1. collect'[x] = NoCollection
        BY <1>0, <2>1, <2>2
      <3> QED BY <1>0, <3>1
    <2>3. CASE x # d
      BY <1>0, <1>1, <2>1, <2>3
    <2> QED BY <2>2, <2>3
  <1>6. ASSUME NEW d \in Dashboards, NEW e \in Entries, NEW ok \in BOOLEAN, Mutates(d, e, ok)
        PROVE  Goal
    <2>1. Cache(d, e) /\ Grown(e)
      BY <1>6 DEF Mutates, Commit
    <2> QED BY <1>2, <2>1
  <1>7. ASSUME NEW d \in Dashboards, Refreshes(d) \/ Evict(d) PROVE Goal
    <2>1. Cache(d, file) \/ Cache(d, NoEntry)
      BY <1>7 DEF Refreshes, Evict
    <2>2. file \in Entries /\ NoEntry \in Entries
      BY NoEntryFormed DEF TypeOK
    <2> QED BY <1>2, <2>1, <2>2
  <1>8. ASSUME (\E p \in Pages : Draw(p)) \/ Forget \/ UNCHANGED Shown PROVE Goal
    <2>1. UNCHANGED <<copy, collect>>
      BY <1>8 DEF Draw, Forget, Shown
    <2> QED BY <1>1, <2>1
  <1>9. Goal
    BY <1>3, <1>4, <1>5, <1>6, <1>7, <1>8, Kinds
  <1> QED BY <1>9

-----------------------------------------------------------------------------
\* Words withdrawn. Whatever may still become a row or the file's reading is of words
\* typed after the last clear, or was under way as that clear landed.

Spared(n) == n > gone \/ n \in late
FileSpared ==
  /\ file.n >= gone /\ (Live(file) => file.n > gone)
  /\ file.read # None => job[file.read].at \in Over /\ Spared(job[file.read].n)
HeldSpared ==
  /\ \A n \in lane : Spared(n)
  /\ \A j \in Jobs : job[j].at = "reading" => Spared(job[j].n)
  /\ \A d \in Dashboards :
       /\ collect[d].at = "read" /\ Live(collect[d].got) => Spared(collect[d].got.n)
       /\ collect[d].moved /\ Live(copy[d]) => Spared(copy[d].n)
RowsSpared == said \/ owed # {} \/ \A n \in quotes : Spared(n)
GoneInv == lapsed \/ (FileSpared /\ HeldSpared /\ RowsSpared)

\* A clear withdraws the number it found in the file, and notes all that is under way.
LEMMA ClearedGone ==
  ASSUME TypeOK, FileSpared, HeldSpared, Cleared
  PROVE  FileSpared' /\ HeldSpared' /\ RowsSpared'
  <1>1. /\ file' = Discarded(file) /\ gone' = (IF Live(file) THEN file.n ELSE gone)
        /\ late' = late \cup Underway /\ UNCHANGED <<job, lane>> /\ owed' # {}
    BY DEF Cleared
  <1>2. file.n \in Nat /\ gone \in Nat
    BY SettledNat DEF TypeOK
  <1>3. FileSpared'
    <2>1. file'.n = file.n /\ ~Live(file') /\ file'.read = None
      BY <1>1, DiscardedGrown
    <2>2. file'.n >= gone'
      BY <1>1, <1>2, <2>1 DEF FileSpared
    <2>3. ~Live(file)' /\ ~(file.read # None)'
      BY <2>1 DEF Live
    <2> QED BY <2>2, <2>3 DEF FileSpared
  <1>4. \A n \in lane' : n \in late'
    BY <1>1 DEF Underway
  <1>5. \A j \in Jobs : job'[j].at = "reading" => job'[j].n \in late'
    BY <1>1 DEF Underway
  <1>6. ASSUME NEW d \in Dashboards
        PROVE  /\ collect'[d].at = "read" => collect'[d].got.n \in late'
               /\ collect'[d].moved /\ Live(copy'[d]) => copy'[d].n \in late'
    <2>1. PICK x \in Dashboards : Cache(x, Discarded(file))
      BY DEF Cleared
    <2>2. Discarded(file) \in Entries /\ ~Live(Discarded(file))
      BY Built, DiscardedGrown DEF TypeOK
    <2>3. /\ copy' = [copy EXCEPT ![x] = Discarded(file)]
          /\ collect'[d].at = collect[d].at /\ collect'[d].got = collect[d].got
          /\ d # x => collect'[d] = collect[d]
      BY <2>1, <2>2, Cached
    <2>4. collect'[d].at = "read" => collect'[d].got.n \in late'
      BY <1>1, <2>3 DEF Underway
    <2>5. collect'[d].moved /\ Live(copy'[d]) => copy'[d].n \in late'
      <3>1. CASE d = x
        BY <2>2, <2>3, <3>1 DEF TypeOK
      <3>2. CASE d # x
        <4>1. copy'[d] = copy[d] /\ collect'[d].moved = collect[d].moved
          BY <2>3, <3>2 DEF TypeOK
        <4> QED BY <1>1, <4>1 DEF Underway
      <3> QED BY <3>1, <3>2
    <2> QED BY <2>4, <2>5
  <1>7. HeldSpared'
    BY <1>4, <1>5, <1>6 DEF HeldSpared, Spared, Live
  <1> QED BY <1>1, <1>3, <1>7 DEF RowsSpared

\* Any other step keeps the mark of the clear; the file's reading is then one it had, or
\* one that was under way.
LEMMA FileSparedKept ==
  ASSUME TypeOK, [Next]_vars, FileSpared, HeldSpared, UNCHANGED <<gone, late>>, ~lapsed',
         ~Cleared
  PROVE  FileSpared'
  <1>1. \A n : Spared(n)' <=> Spared(n)
    BY DEF Spared
  <1>2. file.n \in Nat /\ gone \in Nat /\ file.read \in Jobs \cup {None}
    BY SettledNat DEF TypeOK, Entries
  <1>3. file.read # None => /\ job'[file.read].at \in Over
                            /\ Spared(job'[file.read].n)
    <2> SUFFICES ASSUME file.read # None
                 PROVE  job'[file.read].at \in Over /\ Spared(job'[file.read].n)
      OBVIOUS
    <2>1. /\ file.read \in Jobs /\ job[file.read].at \in Over /\ Spared(job[file.read].n)
      BY <1>2 DEF FileSpared
    <2> QED BY <2>1, JobSteps
  <1>4. ASSUME Grown(file'), Live(file') PROVE file'.n >= gone' /\ file'.n > gone'
    BY <1>2, <1>4 DEF Grown, Minted, Stands, FileSpared
  <1>5. CASE UNCHANGED file
    <2>1. file'.n >= gone' /\ (Live(file)' => file'.n > gone')
      BY <1>5 DEF FileSpared, Live
    <2>2. file'.read # None => job'[file'.read].at \in Over /\ Spared(job'[file'.read].n)
      BY <1>3, <1>5
    <2> QED BY <2>1, <2>2 DEF FileSpared, Spared
  <1>6. CASE Rewrites
    BY <1>3, <1>4, <1>6 DEF Rewrites, FileSpared, Live, Spared
  <1>7. ASSUME NEW j \in Jobs, Record(j), Live(file),
               file' \in {Assessed(file, j), WithheldAt(file, j)}
        PROVE  FileSpared'
    <2>1. Grown(file') /\ file'.read \in {j, file.read}
      BY <1>7, AssessedGrown, WithheldGrown
    <2>2. Live(file')
      BY <1>7 DEF Live, Assessed, WithheldAt, TypeOK, Entries
    <2>3. job'[j].at \in Over /\ Spared(job'[j].n)
      <3>1. job[j].at = "reading" /\ job' = [job EXCEPT ![j].at = "recorded"]
        BY <1>7 DEF Record
      <3>2. job'[j].at = "recorded" /\ job'[j].n = job[j].n
        BY <3>1 DEF TypeOK
      <3> QED BY <3>1, <3>2 DEF HeldSpared, Over
    <2>4. file'.read # None => job'[file'.read].at \in Over /\ Spared(job'[file'.read].n)
      BY <1>3, <2>1, <2>3
    <2> QED BY <1>4, <2>1, <2>2, <2>4 DEF FileSpared, Live, Spared
  <1> QED BY <1>5, <1>6, <1>7, Writes

LEMMA HeldSparedKept ==
  ASSUME TypeOK, [Next]_vars, FileSpared, HeldSpared, UNCHANGED <<gone, late>>
  PROVE  HeldSpared'
  <1>1. file.n \in Nat /\ gone \in Nat /\ ~Live(NoEntry)
    BY SettledNat DEF TypeOK, Live, NoEntry
  <1>2. \A e : (e \in {NoEntry, file} \/ Grown(e)) /\ Live(e) => Spared(e.n)
    BY <1>1 DEF Grown, Minted, Stands, FileSpared, Spared
  <1>3. \A n \in lane' : Spared(n)
    <2> SUFFICES ASSUME NEW n \in lane', n \notin lane PROVE Spared(n)
      BY DEF HeldSpared
    <2>1. PICK d \in Dashboards : collect[d].at = "read" /\ Live(Entry(d)) /\ n = Entry(d).n
      BY LaneSteps
    <2> QED BY <2>1 DEF Entry, HeldSpared
  <1>4. \A j \in Jobs : job'[j].at = "reading" => Spared(job'[j].n)
    <2> SUFFICES ASSUME NEW j \in Jobs, job'[j].at = "reading" PROVE Spared(job'[j].n)
      OBVIOUS
    <2>1. \/ job[j].at = "reading" /\ job'[j].n = job[j].n
          \/ Live(file) /\ job'[j].n = file.n
      BY JobSteps
    <2> QED BY <1>2, <2>1 DEF HeldSpared
  <1>5. ASSUME NEW d \in Dashboards
        PROVE  /\ collect'[d].at = "read" /\ Live(collect'[d].got) => Spared(collect'[d].got.n)
               /\ collect'[d].moved /\ Live(copy'[d]) => Spared(copy'[d].n)
    <2>1. collect'[d].at = "read" =>
            \/ collect[d].at = "read" /\ collect'[d].got = collect[d].got
            \/ collect'[d].got \in {NoEntry, file}
      BY CollectionSteps
    <2>2. collect'[d].moved =>
            \/ collect[d].moved /\ copy'[d] = copy[d]
            \/ copy'[d] \in {NoEntry, file} \/ Grown(copy'[d])
      BY CollectionSteps
    <2> QED BY <1>2, <2>1, <2>2 DEF HeldSpared
  <1> QED BY <1>3, <1>4, <1>5 DEF HeldSpared, Spared, Live

LEMMA RowsSparedKept ==
  ASSUME TypeOK, [Next]_vars, HeldSpared, RowsSpared, UNCHANGED <<gone, late>>
  PROVE  RowsSpared'
  <1>1. CASE quotes' \subseteq quotes \cup lane /\ said' = said /\ owed \subseteq owed'
    BY <1>1 DEF RowsSpared, HeldSpared, Spared
  <1>2. CASE quotes' = {} \/ said'
    BY <1>2 DEF RowsSpared
  <1> QED BY <1>1, <1>2, RowSteps

LEMMA NextGone == TypeOK /\ GoneInv /\ [Next]_vars => GoneInv'
  <1> SUFFICES ASSUME TypeOK, GoneInv, [Next]_vars, ~lapsed'
               PROVE  FileSpared' /\ HeldSpared' /\ RowsSpared'
    BY DEF GoneInv
  <1>1. FileSpared /\ HeldSpared /\ RowsSpared
    BY LapseKept DEF GoneInv
  <1>2. CASE Cleared
    BY <1>1, <1>2, ClearedGone
  <1>3. CASE ~Cleared
    <2>1. UNCHANGED <<gone, late>>
      BY <1>3, Writes DEF Rewrites
    <2> QED BY <1>1, <1>3, <2>1, FileSparedKept, HeldSparedKept, RowsSparedKept
  <1> QED BY <1>2, <1>3

\* Once a withdrawal is done, no row and no reading quotes words that were cleared, but
\* for those being read as they were: whichever dashboards collected, saved or cleared.
THEOREM WithdrawnGone == Spec => []WithdrawnStayGone
  <1>1. Init => GoneInv
    BY DEF Init, GoneInv, FileSpared, HeldSpared, RowsSpared, NoEntry, NoCollection, NewJob, Live
  <1>2. TypeOK /\ GoneInv => WithdrawnStayGone
    BY DEF GoneInv, FileSpared, RowsSpared, WithdrawnStayGone, Spared
  <1> QED BY <1>1, <1>2, NextGone, AnnotationsTyped, PTL DEF Spec

-----------------------------------------------------------------------------
\* What a board shows. A reading that is over has its outcome in the file or has lost it
\* for good, so the file holds the outcomes of all a collection sampled as ended, and so
\* does everything the collection may yet show.

Shows(S, e) == Live(e) => S \subseteq lost \cup e.jobs
Outcomes == \A j \in Jobs : job[j].at \in Over => j \in lost \cup file.jobs
BoardsShow ==
  \A d \in Dashboards :
    /\ \A j \in collect[d].ended : job[j].at = "done"
    /\ collect[d].at = "read" => Shows(collect[d].ended, collect[d].got)
    /\ collect[d].moved => Shows(collect[d].ended, copy[d])
BoardInv == blind = {} /\ Outcomes /\ BoardsShow

\* An outcome once stored goes from the file only as it is lost.
LEMMA OutcomeSteps ==
  ASSUME TypeOK, [Next]_vars
  PROVE  lost \subseteq lost' /\ file.jobs \subseteq lost' \cup file'.jobs
  <1>1. CASE UNCHANGED <<file, gone, late>> /\ lost \subseteq lost'
    BY <1>1
  <1>2. CASE Rewrites
    BY <1>2 DEF Rewrites, Grown, Carries
  <1>3. CASE Cleared
    BY <1>3 DEF Cleared
  <1>4. ASSUME NEW j \in Jobs, Live(file), file' \in {Assessed(file, j), WithheldAt(file, j)},
               lost' = lost
        PROVE  lost \subseteq lost' /\ file.jobs \subseteq lost' \cup file'.jobs
    BY <1>4 DEF Assessed, WithheldAt, TypeOK, Entries
  <1>5. CASE file' = NoEntry /\ lapsed' /\ lost' = lost \cup file.jobs
    BY <1>5
  <1> QED BY <1>1, <1>2, <1>3, <1>4, <1>5, Writes

\* A reading hands its outcome to the file, or loses it, as it is recorded.
LEMMA RecordKeeps == ASSUME TypeOK, NEW j \in Jobs, Record(j) PROVE j \in lost' \cup file'.jobs
  <1>1. CASE lost' = lost \cup {j}
    BY <1>1
  <1>2. CASE /\ Live(file)
             /\ \E ok \in BOOLEAN, out \in {Assessed(file, j), WithheldAt(file, j)} :
                  /\ Commit(JobOn[j], out, ok)
                  /\ lost' = IF ok THEN lost ELSE lost \cup {j}
    <2>1. PICK ok \in BOOLEAN, out \in {Assessed(file, j), WithheldAt(file, j)} :
                  /\ Commit(JobOn[j], out, ok)
                  /\ lost' = IF ok THEN lost ELSE lost \cup {j}
      BY <1>2
    <2>2. j \in out.jobs
      BY <1>2, AssessedGrown, WithheldGrown
    <2> QED BY <2>1, <2>2 DEF Commit
  <1> QED BY <1>1, <1>2 DEF Record, Latest

LEMMA OutcomesKept == ASSUME TypeOK, [Next]_vars, Outcomes PROVE Outcomes'
  <1> SUFFICES ASSUME NEW j \in Jobs, job'[j].at \in Over PROVE j \in lost' \cup file'.jobs
    BY DEF Outcomes, Over
  <1>1. CASE job[j].at \in Over
    BY <1>1, OutcomeSteps DEF Outcomes
  <1>2. CASE job[j].at \notin Over
    BY <1>2, JobSteps, RecordKeeps
  <1> QED BY <1>1, <1>2

LEMMA BoardsShowKept ==
  ASSUME TypeOK, [Next]_vars, Outcomes, BoardsShow PROVE BoardsShow'
  <1> SUFFICES ASSUME NEW d \in Dashboards
               PROVE  /\ \A j \in collect'[d].ended : job'[j].at = "done"
                      /\ collect'[d].at = "read" => Shows(collect[d].ended, collect[d].got)'
                      /\ collect'[d].moved => Shows(collect[d].ended, copy[d])'
    BY DEF BoardsShow
  <1>1. collect[d].ended \subseteq Jobs /\ Ended(d) \subseteq Jobs
    BY DEF TypeOK, Collections, Ended
  <1>2. \A j \in collect'[d].ended : job'[j].at = "done"
    <2> SUFFICES ASSUME NEW j \in collect'[d].ended PROVE job'[j].at = "done"
      OBVIOUS
    <2>1. j \in Jobs /\ job[j].at = "done"
      BY <1>1, CollectionSteps DEF BoardsShow, Ended
    <2> QED BY <2>1, JobSteps
  <1>3. \A e : (e \in {NoEntry, file} \/ Grown(e)) => Shows(collect[d].ended, e)
    <2>1. collect[d].ended \subseteq lost \cup file.jobs
      BY <1>1 DEF BoardsShow, Outcomes, Over
    <2>2. ~Live(NoEntry) /\ \A e : Grown(e) /\ Live(e) => file.jobs \subseteq e.jobs
      BY DEF Live, NoEntry, Grown, Carries
    <2> QED BY <2>1, <2>2 DEF Shows
  <1>4. lost \subseteq lost'
    BY OutcomeSteps
  <1>5. ASSUME collect'[d].at = "read" PROVE Shows(collect[d].ended, collect'[d].got)
    BY <1>3, <1>5, CollectionSteps DEF BoardsShow
  <1>6. ASSUME collect'[d].moved PROVE Shows(collect[d].ended, copy'[d])
    BY <1>3, <1>6, CollectionSteps DEF BoardsShow
  <1>7. collect'[d].at = "read" \/ collect'[d].moved => collect'[d].ended = collect[d].ended
    BY CollectionSteps
  <1> QED BY <1>2, <1>4, <1>5, <1>6, <1>7 DEF Shows, Live

\* A board misses only what was lost, since it shows the copy it held or the file it read.
LEMMA BlindKept == ASSUME TypeOK, [Next]_vars, blind = {}, BoardsShow PROVE blind' = {}
  <1>1. \/ UNCHANGED blind
        \/ \E d \in Dashboards : Publish(d)
    BY DEF Next, vars, Draw, Save, Settle, Mark, Clear, Press, Record, Leave, Sample, Read,
           Withdraw, LaneRecord, Evict, Forget, Dropped, Spoil, Mend
  <1>2. ASSUME NEW d \in Dashboards, Publish(d) PROVE blind' = {}
    <2>1. blind' = Missed(d, Entry(d)) \ lost /\ collect[d].at = "read"
      BY <1>2 DEF Publish
    <2>2. Shows(collect[d].ended, Entry(d))
      BY <2>1 DEF BoardsShow, Entry
    <2>3. Missed(d, Entry(d)) \subseteq lost
      BY <2>2 DEF Missed, Shows
    <2> QED BY <2>1, <2>3
  <1> QED BY <1>1, <1>2

\* A collection shows a reading of live words running or ended, never neither, unless the
\* store refused its outcome or has dropped it: wherever the outcome lands in it.
THEOREM BoardShowsOne == Spec => []NeverNeither
  <1>1. Init => BoardInv
    BY DEF Init, BoardInv, Outcomes, BoardsShow, NoCollection, NewJob, Over
  <1>2. TypeOK /\ BoardInv /\ [Next]_vars => BoardInv'
    BY BlindKept, OutcomesKept, BoardsShowKept DEF BoardInv
  <1>3. BoardInv => NeverNeither
    BY DEF BoardInv, NeverNeither
  <1> QED BY <1>1, <1>2, <1>3, AnnotationsTyped, PTL DEF Spec

-----------------------------------------------------------------------------
\* The log. Every number up to the file's has its text, and nothing a board shows or a
\* collection has read is of a number beyond it, but for what the file refused.

Complete == \A n \in 1 .. file.n : \E w \in Words : <<n, w>> \in named
Placed == \A d \in Dashboards : /\ ~Live(copy[d]) => copy[d].n <= file.n
                                /\ collect[d].got.n <= file.n
                                /\ ~collect[d].whole => collect[d].got = NoEntry
LogInv == lapsed \/ (Complete /\ Placed)

\* A number's text, when it has one alone.
LEMMA TextOf ==
  ASSUME NEW S, NEW n, NEW w \in Words, <<n, w>> \in S, \A a, b \in S : a[1] = b[1] => a = b
  PROVE  TextIn(S, n) = w
  <1>1. \A x \in Words : <<n, x>> \in S => x = w
    OBVIOUS
  <1> QED BY <1>1 DEF TextIn

LEMMA LogTyped ==
  ASSUME TypeOK, Complete
  PROVE  /\ Revised \in Seq(Words) /\ Len(Revised) = file.n /\ DOMAIN Revised = 1 .. file.n
         /\ file.n \in Nat
  <1>1. file.n \in Nat
    BY SettledNat DEF TypeOK
  <1>2. \A n \in 1 .. file.n : TextIn(named, n) \in Words
    BY DEF Complete, TextIn
  <1>3. Revised \in [1 .. file.n -> Words]
    BY <1>2 DEF Revised
  <1> QED BY <1>1, <1>3

\* What the log says of a revision that was named, and of the entry.
LEMMA LogSays ==
  ASSUME TypeOK, OneText, Highest
  PROVE  /\ \A n \in 1 .. file.n, w \in Words : <<n, w>> \in named => Revised[n] = w
         /\ \A e \in Entries : Live(e) /\ Formed(e) /\ Rev(e) \in named
              => e.n \in 1 .. file.n /\ e.words = Revised[e.n] /\ Rev(e) = <<e.n, Revised[e.n]>>
  <1>1. ASSUME NEW n \in 1 .. file.n, NEW w \in Words, <<n, w>> \in named PROVE Revised[n] = w
    BY <1>1, TextOf DEF OneText, Revised
  <1>2. ASSUME NEW e \in Entries, Live(e), Formed(e), Rev(e) \in named
        PROVE  e.n \in 1 .. file.n /\ e.words = Revised[e.n]
    <2>1. e.n \in Nat /\ e.n > 0 /\ e.words \in Words /\ file.n \in Nat
      BY <1>2, SettledNat DEF Formed, TypeOK
    <2>2. e.n <= file.n
      BY <1>2 DEF Highest, Rev
    <2>3. e.n \in 1 .. file.n
      BY <2>1, <2>2
    <2> QED BY <1>1, <1>2, <2>1, <2>3 DEF Rev
  <1> QED BY <1>1, <1>2 DEF Rev

\* The log as a step leaves it: as it was, or one revision longer.
LEMMA LogStands ==
  ASSUME TypeOK, Complete, OneText, OneText', named \subseteq named', file'.n = file.n
  PROVE  Revised' = Revised
  <1>1. ASSUME NEW n \in 1 .. file.n
        PROVE  TextIn(named', n) = TextIn(named, n)
    <2>1. PICK w \in Words : <<n, w>> \in named
      BY DEF Complete
    <2>2. TextIn(named, n) = w
      BY <2>1, TextOf DEF OneText
    <2>3. TextIn(named', n) = w
      BY <2>1, TextOf DEF OneText
    <2> QED BY <2>2, <2>3
  <1> QED BY <1>1 DEF Revised

LEMMA LogAppends ==
  ASSUME TypeOK, Complete, OneText, OneText', named \subseteq named', NEW w \in Words,
         file'.n = file.n + 1, <<file.n + 1, w>> \in named'
  PROVE  Revised' = Append(Revised, w)
  <1>1. Revised \in Seq(Words) /\ Len(Revised) = file.n /\ file.n \in Nat
    BY LogTyped
  <1>2. ASSUME NEW n \in 1 .. file.n
        PROVE  TextIn(named', n) = Revised[n]
    <2>1. PICK x \in Words : <<n, x>> \in named
      BY DEF Complete
    <2>2. TextIn(named, n) = x
      BY <2>1, TextOf DEF OneText
    <2>3. TextIn(named', n) = x
      BY <2>1, TextOf DEF OneText
    <2> QED BY <2>2, <2>3 DEF Revised
  <1>3. TextIn(named', file.n + 1) = w
    BY TextOf DEF OneText
  <1>4. Revised' = [n \in 1 .. file.n + 1 |-> IF n = file.n + 1 THEN w ELSE Revised[n]]
    <2>1. \A n \in 1 .. file.n + 1 : n = file.n + 1 \/ n \in 1 .. file.n
      BY <1>1
    <2> QED BY <1>2, <1>3, <2>1 DEF Revised
  <1> HIDE DEF Revised
  <1>5. Append(Revised, w) = [n \in 1 .. file.n + 1 |-> IF n = file.n + 1 THEN w ELSE Revised[n]]
    <2> DEFINE s == Append(Revised, w)
    <2>1. s \in Seq(Words) /\ Len(s) = file.n + 1
      BY <1>1
    <2>2. \A n \in 1 .. file.n + 1 : s[n] = IF n = file.n + 1 THEN w ELSE Revised[n]
      BY <1>1
    <2>3. s = [n \in 1 .. file.n + 1 |-> s[n]]
      <3> HIDE DEF s
      <3> QED BY <2>1
    <2> QED BY <2>2, <2>3
  <1> QED BY <1>4, <1>5

LEMMA NextLog == ASSUME TypeOK, LogInv, [Next]_vars PROVE LogInv'
  <1> SUFFICES ASSUME ~lapsed' PROVE Complete' /\ Placed'
    BY DEF LogInv
  <1>1. Complete /\ Placed
    BY LapseKept DEF LogInv
  <1>2. ASSUME UNCHANGED <<file, named>> PROVE Complete'
    BY <1>1, <1>2 DEF Complete
  <1>3. file.n \in Nat /\ \A d \in Dashboards : copy[d] \in Entries
    BY SettledNat DEF TypeOK
  <1>4. ASSUME NEW d \in Dashboards, NEW e \in Entries, NEW ok \in BOOLEAN, Formed(e),
               Mutates(d, e, ok)
        PROVE  Complete' /\ Placed'
    <2>1. /\ file' \in {e, file} /\ named \subseteq named' /\ (file' # file => ok /\ file' = e)
          /\ ok => Revs(e) \subseteq named'
          /\ Minted(e) \/ Stands(e)
      BY <1>4 DEF Mutates, Commit, Grown
    <2>2. e.n \in Nat /\ e.n >= file.n /\ file'.n >= file.n /\ file'.n \in Nat
      BY <1>3, <1>4, <2>1, SettledNat DEF Minted, Stands
    <2>3. Complete'
      <3>1. CASE file'.n = file.n
        BY <1>1, <2>1, <3>1 DEF Complete
      <3>2. CASE file'.n # file.n
        <4>1. file' = e /\ Minted(e) /\ Rev(e) \in named' /\ e.words \in Words
          BY <1>4, <2>1, <3>2 DEF Minted, Stands, Revs, Formed
        <4>2. \A n \in 1 .. file'.n : n \in 1 .. file.n \/ n = e.n
          BY <1>3, <4>1 DEF Minted
        <4> QED BY <1>1, <2>1, <4>1, <4>2 DEF Complete, Rev
      <3> QED BY <3>1, <3>2
    <2>4. /\ copy' = [copy EXCEPT ![d] = e]
          /\ \A x \in Dashboards : collect'[x].got = collect[x].got /\ collect'[x].whole = collect[x].whole
      BY <1>4, Cached DEF Mutates, Commit
    <2>5. ~Live(e) => e.n = file.n
      BY <1>4 DEF Mutates, Grown, Minted, Stands
    <2>6. \A x \in Dashboards : copy[x].n \in Nat /\ collect[x].got.n \in Nat
      BY SettledNat DEF TypeOK, Collections
    <2>7. \A x \in Dashboards : copy'[x] = IF x = d THEN e ELSE copy[x]
      BY <2>4 DEF TypeOK
    <2>8. \A x \in Dashboards : ~Live(copy'[x]) => copy'[x].n <= file'.n
      BY <1>1, <1>3, <2>2, <2>5, <2>6, <2>7 DEF Placed
    <2>9. \A x \in Dashboards : /\ collect'[x].got.n <= file'.n
                                /\ ~collect'[x].whole => collect'[x].got = NoEntry
      BY <1>1, <1>3, <2>2, <2>4, <2>6 DEF Placed
    <2> QED BY <2>3, <2>8, <2>9 DEF Placed
  <1>5. ASSUME NEW d \in Dashboards, Refreshes(d) PROVE Complete' /\ Placed'
    <2>1. Cache(d, file) /\ UNCHANGED <<file, named>> /\ file \in Entries
      BY <1>5 DEF Refreshes, told, TypeOK
    <2>2. /\ copy' = [copy EXCEPT ![d] = file]
          /\ \A x \in Dashboards : collect'[x].got = collect[x].got /\ collect'[x].whole = collect[x].whole
      BY <2>1, Cached
    <2>3. \A x \in Dashboards : copy'[x] = IF x = d THEN file ELSE copy[x]
      BY <2>2 DEF TypeOK
    <2> QED BY <1>1, <1>2, <1>3, <2>1, <2>2, <2>3 DEF Placed
  <1>6. ASSUME NEW d \in Dashboards, Sample(d) PROVE Complete' /\ Placed'
    <2>1. UNCHANGED <<file, copy, named>>
      BY <1>6 DEF Sample, store, told
    <2>2. \A x \in Dashboards : \/ collect'[x] = collect[x]
                                \/ collect'[x].got = NoEntry /\ NoEntry.n = 0
      BY <1>6 DEF Sample, TypeOK, NoCollection, NoEntry
    <2> QED BY <1>1, <1>2, <1>3, <2>1, <2>2 DEF Placed
  <1>7. ASSUME NEW d \in Dashboards, Read(d) PROVE Complete' /\ Placed'
    <2>1. UNCHANGED <<file, copy, named>>
      BY <1>7 DEF Read, store, told
    <2>2. PICK c \in Collections :
            /\ collect' = [collect EXCEPT ![d] = c]
            /\ c.whole = trusted /\ c.got = IF trusted THEN file ELSE NoEntry
      BY <1>7, ReadStep
    <2>3. c.got.n <= file.n /\ (~c.whole => c.got = NoEntry)
      BY <1>3, <2>2 DEF NoEntry
    <2>4. \A x \in Dashboards : collect'[x] = IF x = d THEN c ELSE collect[x]
      BY <2>2 DEF TypeOK
    <2> QED BY <1>1, <1>2, <2>1, <2>3, <2>4 DEF Placed
  <1>8. ASSUME NEW d \in Dashboards, Publish(d) PROVE Complete' /\ Placed'
    <2>1. /\ copy' = [copy EXCEPT ![d] = Entry(d)] /\ collect' = [collect EXCEPT ![d] = NoCollection]
          /\ UNCHANGED <<file, named>>
      BY <1>8 DEF Publish, store
    <2>2. /\ \A x \in Dashboards : copy'[x] = IF x = d THEN Entry(d) ELSE copy[x]
          /\ \A x \in Dashboards : collect'[x] = IF x = d THEN NoCollection ELSE collect[x]
      BY <2>1 DEF TypeOK
    <2>3. ~Live(Entry(d)) => Entry(d).n <= file.n
      BY <1>1 DEF Entry, Placed
    <2>4. NoCollection.got = NoEntry /\ NoEntry.n = 0
      BY DEF NoCollection, NoEntry
    <2>5. \A x \in Dashboards : /\ collect'[x].got.n <= file.n
                                /\ ~collect'[x].whole => collect'[x].got = NoEntry
      BY <1>1, <1>3, <2>2, <2>4 DEF Placed
    <2> QED BY <1>1, <1>2, <2>1, <2>2, <2>3, <2>5 DEF Placed
  <1>9. ASSUME NEW p \in Pages, Draw(p) PROVE Complete' /\ Placed'
    BY <1>1, <1>2, <1>9 DEF Draw, store, told, Placed
  <1>10. ASSUME UNCHANGED Shown PROVE Complete' /\ Placed'
    BY <1>1, <1>2, <1>10 DEF Shown, told, Placed
  <1>11. ~(Forget \/ \E d \in Dashboards : Evict(d))
    BY DEF Forget, Evict, Dropped
  <1> QED BY <1>4, <1>5, <1>6, <1>7, <1>8, <1>9, <1>10, <1>11, Kinds

\* The step, of the log, that each kind of step is.

LEMMA BoardMoves ==
  ASSUME TypeOK, NEW d \in Dashboards, NEW e, copy' = [copy EXCEPT ![d] = e]
  PROVE  [x \in Dashboards |-> Rev(copy'[x])]
           = [[x \in Dashboards |-> Rev(copy[x])] EXCEPT ![d] = Rev(e)]
  BY DEF TypeOK

LEMMA RevOf ==
  ASSUME NEW e \in Entries, Formed(e)
  PROVE  Rev(e) = <<e.n, e.words>> /\ (~Live(e) => e.words = None /\ Beside(e) = Log!Bare)
  BY DEF Rev, Formed, NoEntry, Entries, Beside, Log!Bare

LEMMA StoredRefines ==
  ASSUME TypeOK, Complete, OneText, OneText', NEW d \in Dashboards, NEW e \in Entries,
         Formed(e), Mutates(d, e, TRUE), UNCHANGED lapsed, Rev(file) \in named \/ ~Live(file)
  PROVE  Log!Next
  <1>1. /\ file' = e /\ named \subseteq named' /\ mine' = [mine EXCEPT ![d] = e.n]
        /\ copy' = [copy EXCEPT ![d] = e] /\ unstored' = unstored
        /\ Live(e) => Rev(e) \in named'
    BY DEF Mutates, Commit, Cache, Revs
  <1>2. [x \in Dashboards |-> Rev(copy'[x])]
           = [[x \in Dashboards |-> Rev(copy[x])] EXCEPT ![d] = <<e.n, e.words>>]
    BY <1>1, BoardMoves, RevOf
  <1>3. file.n \in Nat /\ Len(Revised) = file.n /\ Revised \in Seq(Words) /\ e.n \in Nat
    BY LogTyped, SettledNat
  <1>4. CASE Minted(e)
    <2>1. e.n = file.n + 1 /\ e.words \in Words /\ Live(e) /\ Beside(e) = Beside(file)
      BY <1>4 DEF Minted, Formed
    <2>2. Revised' = Append(Revised, e.words)
      BY <1>1, <2>1, LogAppends DEF Rev
    <2>3. Len(Revised') = e.n /\ Revised'[e.n] = e.words
      BY <1>3, <2>1, <2>2
    <2>4. Log!Stored(d)
      BY <1>1, <1>2, <2>1, <2>3 DEF Log!Stored
    <2>5. Log!Save(d, e.words)
      BY <1>1, <2>1, <2>2, <2>4 DEF Log!Save
    <2> QED BY <2>1, <2>5 DEF Log!Next
  <1>5. CASE Stands(e)
    <2>1. e.n = file.n /\ Revised' = Revised
      BY <1>1, <1>5, LogStands DEF Stands
    <2>2. CASE Live(e)
      <3>1. Live(file) /\ e.words = file.words /\ file.n > 0
        BY <1>5, <2>2 DEF Stands, TypeOK, Formed
      <3>2. file.n \in 1 .. file.n /\ <<file.n, file.words>> \in named /\ file.words \in Words
        <4>1. file.n \in 1 .. file.n
          BY <1>3, <3>1
        <4>2. file.words \in Words
          BY <3>1 DEF TypeOK, Formed
        <4> QED BY <3>1, <4>1, <4>2 DEF Rev
      <3>3. Revised[file.n] = file.words
        BY <3>2, TextOf DEF OneText, Revised
      <3>4. Log!Stored(d)
        BY <1>1, <1>2, <1>3, <2>1, <2>2, <3>1, <3>3 DEF Log!Stored
      <3>5. Carries(e)
        BY DEF Mutates, Grown
      <3>6. Log!Add(d)
        BY <1>1, <2>1, <2>2, <3>1, <3>4, <3>5 DEF Log!Add, Carries, Beside
      <3> QED BY <3>6 DEF Log!Next
    <2>3. CASE ~Live(e)
      <3>1. e.words = None /\ Beside(e) = Log!Bare
        BY <2>3, RevOf
      <3>2. Log!Stored(d)
        BY <1>1, <1>2, <1>3, <2>1, <2>3, <3>1 DEF Log!Stored
      <3>3. Log!Clear(d)
        BY <1>1, <2>1, <2>3, <3>1, <3>2 DEF Log!Clear
      <3> QED BY <3>3 DEF Log!Next
    <2> QED BY <2>2, <2>3
  <1> QED BY <1>4, <1>5 DEF Mutates, Grown

LEMMA UnstoredRefines ==
  ASSUME TypeOK, Complete, OneText, NEW d \in Dashboards, NEW e \in Entries,
         Formed(e), Mutates(d, e, FALSE), UNCHANGED lapsed, Rev(file) \in named \/ ~Live(file)
  PROVE  Log!Next
  <1>1. /\ UNCHANGED <<file, named, mine>> /\ copy' = [copy EXCEPT ![d] = e]
        /\ unstored' = unstored \cup Revs(e)
    BY DEF Mutates, Commit, Cache
  <1>2. [x \in Dashboards |-> Rev(copy'[x])]
           = [[x \in Dashboards |-> Rev(copy[x])] EXCEPT ![d] = <<e.n, e.words>>]
    BY <1>1, BoardMoves, RevOf
  <1>3. file.n \in Nat /\ Len(Revised) = file.n /\ Revised' = Revised
    BY <1>1, LogTyped DEF Revised
  <1>4. CASE Minted(e)
    <2>1. e.n = file.n + 1 /\ e.words \in Words /\ Revs(e) = {<<e.n, e.words>>}
      BY <1>4 DEF Minted, Formed, Revs, Rev
    <2>2. Log!Unstored(d)
      BY <1>1, <1>2, <1>3, <2>1 DEF Log!Unstored
    <2> QED BY <2>2 DEF Log!Next
  <1>5. CASE Stands(e) /\ Live(e)
    <2>1. /\ e.n = file.n /\ Live(file) /\ e.words = file.words /\ file.n > 0
          /\ Revs(e) = {<<e.n, e.words>>}
      BY <1>5 DEF Stands, TypeOK, Formed, Revs, Rev
    <2>2. file.n \in 1 .. file.n /\ <<file.n, file.words>> \in named
      BY <1>3, <2>1 DEF Rev
    <2>3. file.words \in Words
      BY <2>1 DEF TypeOK, Formed
    <2>4. Revised[file.n] = file.words
      BY <2>2, <2>3, TextOf DEF OneText, Revised
    <2>5. Log!Unstored(d)
      BY <1>1, <1>2, <1>3, <2>1, <2>4 DEF Log!Unstored
    <2> QED BY <2>5 DEF Log!Next
  <1>6. CASE Stands(e) /\ ~Live(e)
    <2>1. e.n = file.n /\ e.words = None /\ Revs(e) = {}
      BY <1>6, RevOf DEF Stands, Revs
    <2>2. Log!Unstored(d)
      BY <1>1, <1>2, <1>3, <2>1 DEF Log!Unstored
    <2> QED BY <2>2 DEF Log!Next
  <1> QED BY <1>4, <1>5, <1>6 DEF Mutates, Grown

\* A board takes an entry that the file held, no older than its own last write.
LEMMA ShowRefines ==
  ASSUME TypeOK, Complete, OneText, Highest, NEW d \in Dashboards, NEW e \in Entries, Formed(e),
         copy' = [copy EXCEPT ![d] = e], Live(e) => Rev(e) \in named, ~Live(e) => e.n <= file.n,
         e.n >= mine[d], UNCHANGED <<file, told, lapsed>>
  PROVE  Log!Next
  <1>1. [x \in Dashboards |-> Rev(copy'[x])]
           = [[x \in Dashboards |-> Rev(copy[x])] EXCEPT ![d] = Rev(e)]
    BY BoardMoves
  <1>2. /\ file.n \in Nat /\ Len(Revised) = file.n /\ DOMAIN Revised = 1 .. file.n
        /\ Revised' = Revised /\ e.n \in Nat
    BY LogTyped, SettledNat DEF told, Revised
  <1>3. Rev(e) \in Log!Revisions \cup Log!Withdrawn
    <2>1. CASE Live(e)
      <3>1. e.n \in 1 .. file.n /\ Rev(e) = <<e.n, Revised[e.n]>>
        BY <2>1, LogSays
      <3> QED BY <1>2, <3>1 DEF Log!Revisions
    <2>2. CASE ~Live(e)
      <3>1. e.n \in 0 .. Len(Revised) /\ e.words = None
        BY <1>2, <2>2, RevOf
      <3> QED BY <3>1, RevOf DEF Log!Withdrawn
    <2> QED BY <2>1, <2>2
  <1>4. Rev(e)[1] = e.n
    BY DEF Rev
  <1>5. Log!Show(d)
    BY <1>1, <1>2, <1>3, <1>4 DEF Log!Show, told
  <1> QED BY <1>5 DEF Log!Next

LEMMA LoseRefines ==
  ASSUME TypeOK, NEW d \in Dashboards, copy' = [copy EXCEPT ![d] = NoEntry],
         mine' = [mine EXCEPT ![d] = 0], UNCHANGED <<file, named, unstored, lapsed>>
  PROVE  Log!Next
  <1>1. [x \in Dashboards |-> Rev(copy'[x])]
           = [[x \in Dashboards |-> Rev(copy[x])] EXCEPT ![d] = Rev(NoEntry)]
    BY BoardMoves
  <1>2. Rev(NoEntry) = <<0, None>>
    BY DEF Rev, NoEntry
  <1>3. Revised' = Revised
    BY DEF Revised
  <1>4. Log!Lose(d)
    BY <1>1, <1>2, <1>3 DEF Log!Lose
  <1> QED BY <1>4 DEF Log!Next

LogIInv == TypeOK /\ Numbered /\ (lapsed \/ OwnSaves) /\ LogInv

LEMMA InitLogIInv == Init => LogIInv /\ Log!Init
  <1>1. ASSUME Init PROVE Numbered /\ OwnSaves /\ LogInv
    BY <1>1 DEF Init, Numbered, HeldRevs, OneText, Highest, Within, NoEntry, NoCollection, Blank,
                Live, OwnSaves, LogInv, Complete, Placed
  <1>2. ASSUME Init PROVE Log!Init
    <2>1. file.n = 0 /\ ~Live(file) /\ Beside(file) = Log!Bare
      BY <1>2 DEF Init, NoEntry, Live, Beside, Log!Bare
    <2>2. Revised = <<>>
      BY <2>1 DEF Revised
    <2>3. [d \in Dashboards |-> Rev(copy[d])] = [d \in Dashboards |-> <<0, None>>]
      BY <1>2 DEF Init, NoEntry, Rev
    <2> QED BY <1>2, <2>1, <2>2, <2>3 DEF Init, Log!Init
  <1> QED BY <1>1, <1>2, InitTyped DEF LogIInv

LEMMA NextLogIInv == LogIInv /\ [Next]_vars => LogIInv'
  BY NextTyped, NextNumbered, NextOwn, NextLog, LapseKept DEF LogIInv

LEMMA NextRefinesLog == LogIInv /\ LogIInv' /\ [Next]_vars => [Log!Next]_(Log!vars)
  <1> SUFFICES ASSUME LogIInv, LogIInv', [Next]_vars, ~lapsed'
               PROVE  Log!Next \/ UNCHANGED Log!vars
    BY DEF Log!Next, Log!Lapse
  <1>1. /\ TypeOK /\ Complete /\ Placed /\ OneText /\ Highest /\ OneText' /\ OwnSaves /\ HeldRevs
        /\ ~lapsed
    BY LapseKept DEF LogIInv, LogInv, Numbered
  <1>2. Live(file) => Rev(file) \in named
    BY <1>1 DEF HeldRevs, Within
  <1>3. ASSUME UNCHANGED <<file, copy, named, unstored, mine, lapsed>>
        PROVE  UNCHANGED Log!vars
    BY <1>3 DEF Log!vars, Revised
  <1>4. ASSUME NEW d \in Dashboards, NEW e \in Entries, NEW ok \in BOOLEAN, Formed(e),
               Mutates(d, e, ok)
        PROVE  Log!Next
    <2>1. CASE ok
      <3>1. Mutates(d, e, TRUE)
        BY <1>4, <2>1
      <3> QED BY <1>1, <1>2, <1>4, <3>1, StoredRefines DEF Mutates
    <2>2. CASE ~ok
      <3>1. Mutates(d, e, FALSE)
        BY <1>4, <2>2
      <3> QED BY <1>1, <1>2, <1>4, <3>1, UnstoredRefines DEF Mutates
    <2> QED BY <2>1, <2>2
  <1>5. ASSUME NEW d \in Dashboards, Refreshes(d) PROVE Log!Next
    <2>1. copy' = [copy EXCEPT ![d] = file] /\ UNCHANGED <<file, told, lapsed>>
      BY <1>5 DEF Refreshes, Cache
    <2>2. file \in Entries /\ Formed(file) /\ file.n >= mine[d] /\ file.n <= file.n
      BY <1>1, SettledNat DEF TypeOK, OwnSaves
    <2> QED BY <1>1, <1>2, <2>1, <2>2, ShowRefines
  <1>6. ASSUME NEW d \in Dashboards, Publish(d) PROVE Log!Next \/ UNCHANGED Log!vars
    <2>1. /\ copy' = [copy EXCEPT ![d] = Entry(d)]
          /\ UNCHANGED <<file, named, unstored, lapsed>> /\ collect[d].at = "read"
          /\ mine' = IF collect[d].whole \/ collect[d].moved THEN mine ELSE [mine EXCEPT ![d] = 0]
      BY <1>6 DEF Publish, store, withdrawn
    <2>2. CASE collect[d].moved
      <3>1. copy' = copy /\ mine' = mine
        BY <1>1, <2>1, <2>2 DEF Entry, TypeOK
      <3> QED BY <1>3, <2>1, <3>1
    <2>3. CASE ~collect[d].moved /\ collect[d].whole
      <3> DEFINE e == collect[d].got
      <3>1. copy' = [copy EXCEPT ![d] = e] /\ mine' = mine
        BY <2>1, <2>3 DEF Entry
      <3>2. e \in Entries /\ Formed(e) /\ e.n >= mine[d] /\ e.n <= file.n
        BY <1>1, <2>1, <2>3 DEF TypeOK, Collections, OwnSaves, Placed
      <3>3. Live(e) => Rev(e) \in named
        BY <1>1 DEF HeldRevs, Within
      <3> HIDE DEF e
      <3> QED BY <1>1, <2>1, <3>1, <3>2, <3>3, ShowRefines DEF told
    <2>4. CASE ~collect[d].moved /\ ~collect[d].whole
      <3>1. copy' = [copy EXCEPT ![d] = NoEntry] /\ mine' = [mine EXCEPT ![d] = 0]
        BY <1>1, <2>1, <2>4 DEF Entry, Placed
      <3> QED BY <1>1, <2>1, <3>1, LoseRefines
    <2> QED BY <2>2, <2>3, <2>4
  <1>7. ASSUME NEW d \in Dashboards, Sample(d) \/ Read(d) PROVE UNCHANGED Log!vars
    BY <1>3, <1>7 DEF Sample, Read, store, told, withdrawn
  <1>8. ASSUME UNCHANGED Shown \/ \E p \in Pages : Draw(p) PROVE UNCHANGED Log!vars
    BY <1>3, <1>8 DEF Draw, Shown, store, told, withdrawn
  <1>9. ~(Forget \/ \E d \in Dashboards : Evict(d))
    BY DEF Forget, Evict, Dropped
  <1> QED BY <1>1, <1>4, <1>5, <1>6, <1>7, <1>8, <1>9, Kinds

\* The file's entry, written by any dashboard from whatever copies their boards show, is
\* the end of one log of revisions: a save, a clear, a reading's outcome or a refused
\* write is one step of it, a collection or a page's press at most a look at it, and what
\* a look shows is in the log, no older than the board's own last write (_commit, refresh).
THEOREM OneLog == Spec => Log!Spec
  <1> QED BY InitLogIInv, NextLogIInv, NextRefinesLog, PTL DEF Spec, Log!Spec

\* What the boards show of the log, at every moment.
LEMMA HonestKept ==
  ASSUME LogIInv, ~lapsed PROVE Log!Honest
  <1>1. /\ TypeOK /\ Complete /\ Placed /\ OneText /\ Highest /\ OwnSaves /\ HeldRevs
    BY DEF LogIInv, LogInv, Numbered
  <1>2. file.n \in Nat /\ Len(Revised) = file.n /\ DOMAIN Revised = 1 .. file.n
    BY <1>1, LogTyped
  <1> SUFFICES ASSUME NEW d \in Dashboards
               PROVE  /\ Rev(copy[d]) \in Log!Revisions \cup Log!Withdrawn \cup unstored
                      /\ mine[d] <= copy[d].n /\ mine[d] <= file.n
    BY <1>2 DEF Log!Honest, Rev
  <1>3. copy[d] \in Entries /\ Formed(copy[d]) /\ copy[d].n \in Nat /\ mine[d] \in Nat
    BY <1>1, SettledNat DEF TypeOK
  <1>4. mine[d] <= copy[d].n /\ mine[d] <= file.n
    BY <1>1, <1>2, <1>3 DEF OwnSaves
  <1>5. CASE Live(copy[d]) /\ Rev(copy[d]) \in named
    <2>1. copy[d].n \in 1 .. file.n /\ Rev(copy[d]) = <<copy[d].n, Revised[copy[d].n]>>
      BY <1>1, <1>3, <1>5, LogSays
    <2> QED BY <1>2, <1>4, <2>1 DEF Log!Revisions
  <1>6. CASE Live(copy[d]) /\ Rev(copy[d]) \notin named
    BY <1>1, <1>4, <1>6 DEF HeldRevs, Within
  <1>7. CASE ~Live(copy[d])
    <2>1. copy[d].n \in 0 .. Len(Revised) /\ copy[d].words = None
      BY <1>1, <1>2, <1>3, <1>7, RevOf DEF Placed
    <2> QED BY <1>3, <1>4, <2>1, RevOf DEF Log!Withdrawn
  <1> QED BY <1>5, <1>6, <1>7

\* Every board shows a revision that the file held under that number, or one of its own
\* that the file refused, and none older than the last it stored.
THEOREM BoardsHonest == Spec => []Log!Honest
  <1>1. LogIInv => Log!Honest
    BY HonestKept DEF Log!Honest
  <1> QED BY <1>1, InitLogIInv, NextLogIInv, PTL DEF Spec
=============================================================================
