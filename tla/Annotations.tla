------------------------------ MODULE Annotations ------------------------------
(***************************************************************************)
(* The annotation store (annotations.py): one session's entry in the file  *)
(* that every dashboard of a home shares, each dashboard's own copy of it, *)
(* the collections that refresh the copy, the pages that draw it and save  *)
(* over it, the readings that end in it, and the departure rows            *)
(* (departures.py) that quote it. A hold of the store's locks, across      *)
(* dashboards, is one action; a collection, a clear and a reading are      *)
(* several.                                                                *)
(***************************************************************************)
EXTENDS Integers, FiniteSets

CONSTANTS Dashboards,
          Pages, PageOn,   \* open pages, and the dashboard that serves each
          Words,           \* what a reader may type
          Jobs, JobOn,     \* readings, each started once, and their dashboard
          LaneOn,          \* the dashboards that run the unasked lane
          Moments,         \* the moments of later directions
          Faults,          \* what may befall: "store", "withdraw", "evict", "forget", "spoil"
          Collecting,      \* bound: the dashboards whose collections we watch
          MaxEvents        \* bound: what readers, the lane and the world do in all

None == "none"

ASSUME AnnotationsAssumption ==
  /\ PageOn \in [Pages -> Dashboards] /\ JobOn \in [Jobs -> Dashboards]
  /\ LaneOn \subseteq Collecting /\ Collecting \subseteq Dashboards
  /\ None \notin Words \cup Jobs
  /\ Moments \subseteq Nat \ {0}
  /\ Faults \subseteq {"store", "withdraw", "evict", "forget", "spoil"}
  /\ MaxEvents \in Nat

VARIABLES
  file,      \* the entry as the file holds it
  trusted,   \* whether the file can be read whole
  copy,      \* state.annotations: each dashboard's copy
  collect,   \* each dashboard's collection
  page,      \* what each page was drawn from
  job,       \* each reading a reader pressed for, and the revision it read
  lane,      \* the revisions the lane's readings under way are of
  quotes,    \* the departure store: revisions its rows quote
  owed,      \* dashboards whose clear has the departures yet to withdraw
  events,
  named,     \* history: every revision the file has held, number and words
  unstored,  \* history: revisions a dashboard kept that the file did not take
  replaced,  \* history: what each guarded save showed its reader and wrote over
  doubted,   \* history: readings a reader marked as not accurate
  gone,      \* history: the last revision withdrawn
  late,      \* history: revisions being read or handed over as they were withdrawn
  said,      \* history: a reader was told that the departures still quote the words
  lapsed,    \* history: the entry was evicted or its record swept
  lost,      \* history: readings whose outcome the store refused, failed or dropped
  mine,      \* history: the last revision each dashboard stored and has not unread
  blind      \* history: readings a board showed neither running nor ended

store == <<file, trusted>>
departed == <<quotes, owed, said>>
told == <<named, unstored, mine>>
withdrawn == <<gone, late, lapsed>>
vars == <<store, copy, collect, page, job, lane, departed, events, told, withdrawn,
          replaced, doubted, lost, blind>>

NoEntry == [is |-> "none", n |-> 0, words |-> None, settled |-> 0, read |-> None,
            mark |-> FALSE, jobs |-> {}]
Entries == [is: {"none", "live", "discarded"}, n: Nat, words: Words \cup {None},
            settled: Moments \cup {0}, read: Jobs \cup {None}, mark: BOOLEAN,
            jobs: SUBSET Jobs]
Blank == [n |-> 0, words |-> None, read |-> None]
Views == [n: Nat, words: Words \cup {None}, read: Jobs \cup {None}]
\* A collection: the readings that had ended before it, whether the copy's generation
\* has moved since, and the file as it read it.
NoCollection == [at |-> "idle", ended |-> {}, moved |-> FALSE, got |-> NoEntry, whole |-> TRUE]
Collections == [at: {"idle", "sampled", "read"}, ended: SUBSET Jobs, moved: BOOLEAN,
                got: Entries, whole: BOOLEAN]
NewJob == [at |-> "new", n |-> 0]
Named == Nat \X (Words \cup {None})

Live(e) == e.is = "live"

\* An entry holds words exactly while it is live: a discard record keeps its number and
\* nothing else.
Formed(e) == IF Live(e) THEN e.n > 0 /\ e.words \in Words
                        ELSE e = [NoEntry EXCEPT !.is = e.is, !.n = e.n]

\* Every variable has its type, and every entry its form.
TypeOK ==
  /\ file \in Entries /\ Formed(file) /\ trusted \in BOOLEAN
  /\ copy \in [Dashboards -> Entries] /\ collect \in [Dashboards -> Collections]
  /\ \A d \in Dashboards : Formed(copy[d]) /\ Formed(collect[d].got)
  /\ page \in [Pages -> Views]
  /\ job \in [Jobs -> [at: {"new", "reading", "recorded", "done"}, n: Nat]]
  /\ lane \subseteq Nat /\ quotes \subseteq Nat /\ owed \subseteq Dashboards /\ said \in BOOLEAN
  /\ events \in Nat
  /\ named \subseteq Named /\ unstored \subseteq Named /\ mine \in [Dashboards -> Nat]
  /\ gone \in Nat /\ late \subseteq Nat /\ lapsed \in BOOLEAN
  /\ replaced \subseteq Named \X Named
  /\ doubted \subseteq Jobs /\ lost \subseteq Jobs /\ blind \subseteq Jobs

\* A home where nobody has typed anything, and dashboards that have read it.
Init ==
  /\ file = NoEntry /\ trusted = TRUE
  /\ copy = [d \in Dashboards |-> NoEntry]
  /\ collect = [d \in Dashboards |-> NoCollection]
  /\ page = [p \in Pages |-> Blank]
  /\ job = [j \in Jobs |-> NewJob]
  /\ lane = {} /\ quotes = {} /\ owed = {} /\ said = FALSE
  /\ events = 0
  /\ named = {} /\ unstored = {} /\ mine = [d \in Dashboards |-> 0]
  /\ gone = 0 /\ late = {} /\ lapsed = FALSE
  /\ replaced = {} /\ doubted = {} /\ lost = {} /\ blind = {}

-----------------------------------------------------------------------------
\* A hold of the store's locks.

\* The number and words of an entry, as a revision and as a page shows it.
Rev(e) == <<e.n, e.words>>
Revs(e) == IF Live(e) THEN {Rev(e)} ELSE {}
View(e) == IF Live(e) THEN [n |-> e.n, words |-> e.words, read |-> e.read] ELSE Blank

\* Slip: a mutator builds on the copy its dashboard already has.
SlipLatest(d) == copy[d]

\* The entry a mutator builds on, read from disk under the lock.
Latest(d) == file

\* _cache: the copy is what was read or built under the lock, and its generation moves.
Cache(d, e) == /\ copy' = [copy EXCEPT ![d] = e]
               /\ collect' = [collect EXCEPT ![d].moved = collect[d].at # "idle"]

Event == events < MaxEvents /\ events' = events + 1

\* _commit: the copy first, whether or not the file then takes it.
Commit(d, e, ok) ==
  /\ (ok \/ "store" \in Faults) /\ Cache(d, e)
  /\ file' = IF ok THEN e ELSE file
  /\ named' = IF ok THEN named \cup Revs(e) ELSE named
  /\ unstored' = IF ok THEN unstored ELSE unstored \cup Revs(e)
  /\ mine' = IF ok THEN [mine EXCEPT ![d] = e.n] ELSE mine
  /\ UNCHANGED trusted

-----------------------------------------------------------------------------
\* The pages.

\* A page draws its dashboard's copy, and shows it until it draws again.
Draw(p) ==
  /\ page' = [page EXCEPT ![p] = View(copy[PageOn[p]])]
  /\ UNCHANGED <<store, copy, collect, job, lane, departed, events, told, withdrawn,
                 replaced, doubted, lost, blind>>

\* Slip: a stale revision is no reason to refuse.
SlipStale(p, e, guarded) == FALSE

\* _save_refused: a save that names the revision it was drafted against.
Stale(p, e, guarded) == guarded /\ page[p].n # View(e).n

\* Slip: a save over a discard record starts its numbers again.
SlipAnnotated(e, w) == IF Live(e) THEN [e EXCEPT !.n = @ + 1, !.words = w]
                       ELSE [NoEntry EXCEPT !.is = "live", !.n = 1, !.words = w]

\* Slip: a save carries the readings over and forgets what was settled.
SlipCarried(e, w) == [e EXCEPT !.is = "live", !.n = @ + 1, !.words = w, !.settled = 0]

\* _annotate: the words under the next number, a discard record's included, with
\* everything else a live entry holds carried over (_carried).
Annotated(e, w) == [e EXCEPT !.is = "live", !.n = @ + 1, !.words = w]

\* _annotate. Words already stored mint nothing, and meet no guard.
Save(p, w, guarded) ==
  LET d == PageOn[p]
      e == Latest(d)
  IN /\ trusted /\ Event
     /\ IF Live(e) /\ e.words = w
        THEN Cache(d, e) /\ UNCHANGED <<store, told, replaced>>
        ELSE /\ ~Stale(p, e, guarded)
             /\ \E ok \in BOOLEAN :
                  /\ Commit(d, Annotated(e, w), ok)
                  /\ replaced' = IF ok /\ guarded /\ Live(e)
                                 THEN replaced \cup {<<Rev(page[p]), Rev(e)>>} ELSE replaced
     /\ UNCHANGED <<page, job, lane, departed, withdrawn, doubted, lost, blind>>

\* _settlement_at: never earlier than one already given.
Settlement(e, m) == [e EXCEPT !.settled = IF m > @ THEN m ELSE @]

\* settle: the reader has answered the directions up to a moment.
Settle(p, m, guarded) ==
  LET d == PageOn[p]
      e == Latest(d)
  IN /\ trusted /\ Event /\ Live(e) /\ ~Stale(p, e, guarded)
     /\ \E ok \in BOOLEAN : Commit(d, Settlement(e, m), ok)
     /\ UNCHANGED <<page, job, lane, departed, withdrawn, replaced, doubted, lost, blind>>

\* mark_not_accurate: set or removed, on the reading the page shows or not at all.
Mark(p, on) ==
  LET d == PageOn[p]
      e == Latest(d)
  IN /\ trusted /\ Event /\ e.read # None /\ e.read = page[p].read /\ e.mark # on
     /\ \E ok \in BOOLEAN : Commit(d, [e EXCEPT !.mark = on], ok)
     /\ doubted' = IF on THEN doubted \cup {e.read} ELSE doubted
     /\ UNCHANGED <<page, job, lane, departed, withdrawn, replaced, lost, blind>>

-----------------------------------------------------------------------------
\* A clear, which is one act over two stores.

\* The record of a discard keeps the number and nothing else.
Discarded(e) == IF Live(e) THEN [NoEntry EXCEPT !.is = "discarded", !.n = e.n] ELSE e

\* The revisions some reading or some collection still holds.
Underway ==
  lane \cup {job[j].n : j \in {i \in Jobs : job[i].at = "reading"}}
       \cup {collect[d].got.n : d \in {x \in Dashboards : collect[x].at = "read"}}
       \cup {copy[d].n : d \in {x \in Dashboards : collect[x].moved}}

\* clear: the record keeps the number. A clear of nothing is stored all the same.
Clear(p) ==
  LET d == PageOn[p]
      e == Latest(d)
  IN /\ trusted /\ Event
     /\ \E ok \in BOOLEAN :
          /\ Commit(d, Discarded(e), ok)
          /\ IF ok
             THEN /\ owed' = owed \cup {d}
                  /\ gone' = IF Live(e) THEN e.n ELSE gone
                  /\ late' = late \cup Underway
                  /\ lost' = lost \cup e.jobs
             ELSE UNCHANGED <<owed, gone, late, lost>>
     /\ UNCHANGED <<page, job, lane, quotes, said, lapsed, replaced, doubted, blind>>

\* Slip: only the rows of the last words are blanked.
SlipBlanked == quotes \ {gone}

\* departures.withdraw: every row of the session.
Blanked == {}

\* _withdraw_raises, after a clear that was stored; the reply says when it failed.
Withdraw(d) ==
  /\ d \in owed /\ owed' = owed \ {d}
  /\ \/ quotes' = Blanked /\ said' = FALSE
     \/ "withdraw" \in Faults /\ said' = TRUE /\ UNCHANGED quotes
  /\ UNCHANGED <<store, copy, collect, page, job, lane, events, told, withdrawn,
                 replaced, doubted, lost, blind>>

-----------------------------------------------------------------------------
\* A reading a reader presses for (ReadingJobs.tla has the job in detail).

Running(d) == {j \in Jobs : JobOn[j] = d /\ job[j].at \in {"reading", "recorded"}}
Ended(d) == {j \in Jobs : JobOn[j] = d /\ job[j].at = "done"}

\* _reading_press and _send_reading: fresh sets the copy, and the job is handed the
\* entry only if it is the revision the page showed.
Press(p, j) ==
  LET d == PageOn[p]
  IN /\ JobOn[j] = d /\ job[j].at = "new" /\ Running(d) = {} /\ trusted /\ Event
     /\ Cache(d, file)
     /\ job' = IF Live(file) /\ page[p].n = file.n
               THEN [job EXCEPT ![j] = [at |-> "reading", n |-> file.n]] ELSE job
     /\ UNCHANGED <<store, page, lane, departed, told, withdrawn,
                    replaced, doubted, lost, blind>>

\* Slip: the mark outlives the reading it was about.
SlipAssessed(e, j) == [e EXCEPT !.read = j, !.jobs = @ \cup {j}]

\* A new reading leaves the mark of the one before behind (_carried).
Assessed(e, j) == [e EXCEPT !.read = j, !.jobs = @ \cup {j}, !.mark = FALSE]
\* A withheld reading leaves the one before standing.
WithheldAt(e, j) == [e EXCEPT !.jobs = @ \cup {j}]

\* _record: an outcome for a live entry, of whatever revision by now; or the store is
\* untrusted, has nothing to hold it, or its locks stay busy.
Record(j) ==
  LET d == JobOn[j]
      e == Latest(d)
  IN /\ job[j].at = "reading" /\ job' = [job EXCEPT ![j].at = "recorded"]
     /\ \/ /\ trusted /\ Live(e)
           /\ \E ok \in BOOLEAN, out \in {Assessed(e, j), WithheldAt(e, j)} :
                /\ Commit(d, out, ok)
                /\ lost' = IF ok THEN lost ELSE lost \cup {j}
        \/ /\ ~trusted \/ ~Live(e) \/ "store" \in Faults
           /\ lost' = lost \cup {j} /\ UNCHANGED <<store, copy, collect, told>>
     /\ UNCHANGED <<page, lane, departed, events, withdrawn, replaced, doubted, blind>>

\* end_job, after the outcome.
Leave(j) ==
  /\ job[j].at = "recorded" /\ job' = [job EXCEPT ![j].at = "done"]
  /\ UNCHANGED <<store, copy, collect, page, lane, departed, events, told, withdrawn,
                 replaced, doubted, lost, blind>>

-----------------------------------------------------------------------------
\* A collection.

\* What a collection does first: the readings under way, and then, by refresh, the
\* copy's generation. A reading that ends between the two is shown running.
Sample(d) ==
  /\ d \in Collecting /\ collect[d].at = "idle"
  /\ collect' = [collect EXCEPT ![d] = [NoCollection EXCEPT !.at = "sampled", !.ended = Ended(d)]]
  /\ UNCHANGED <<store, copy, page, job, lane, departed, events, told, withdrawn,
                 replaced, doubted, lost, blind>>

\* refresh: the file, outside every lock, ...
Read(d) ==
  /\ collect[d].at = "sampled"
  /\ collect' = [collect EXCEPT ![d].at = "read", ![d].whole = trusted,
                                ![d].got = IF trusted THEN file ELSE NoEntry]
  /\ UNCHANGED <<store, copy, page, job, lane, departed, events, told, withdrawn,
                 replaced, doubted, lost, blind>>

\* Slip: the older read is assigned over a newer copy.
SlipEntry(d) == collect[d].got

\* ... and the copy, unless it moved meanwhile.
Entry(d) == IF collect[d].moved THEN copy[d] ELSE collect[d].got

\* The readings the board shows neither running, as of the sample, nor ended, beside
\* words to show them with.
Missed(d, e) == {j \in collect[d].ended : Live(e) /\ j \notin e.jobs}

\* The rest of the collection works on what refresh returned: the board shows it, and
\* the lane may start a reading of it (Unasked.tla has the lane in detail).
Publish(d) ==
  LET e == Entry(d)
  IN /\ collect[d].at = "read" /\ collect' = [collect EXCEPT ![d] = NoCollection]
     /\ copy' = [copy EXCEPT ![d] = e]
     /\ mine' = IF collect[d].whole \/ collect[d].moved THEN mine ELSE [mine EXCEPT ![d] = 0]
     /\ blind' = blind \cup (Missed(d, e) \ lost)
     /\ \/ UNCHANGED <<lane, events>>
        \/ /\ d \in LaneOn /\ Live(e) /\ Event
           /\ lane' = lane \cup {e.n}
     /\ UNCHANGED <<store, page, job, departed, named, unstored,
                    withdrawn, replaced, doubted, lost>>

\* departures.record, or a reading of the lane's that found nothing.
LaneRecord(n) ==
  /\ n \in lane /\ lane' = lane \ {n}
  /\ quotes' \in {quotes, quotes \cup {n}}
  /\ UNCHANGED <<store, copy, collect, page, job, owed, said, events, told, withdrawn,
                 replaced, doubted, lost, blind>>

-----------------------------------------------------------------------------
\* What else befalls the entry.

Dropped(f) ==
  /\ f \in Faults /\ Event /\ trusted
  /\ file' = NoEntry /\ lapsed' = TRUE /\ lost' = lost \cup file.jobs
  /\ UNCHANGED <<trusted, page, job, lane, departed, named, unstored, gone, late, replaced,
                 doubted, blind>>

\* _kept, in a dashboard's write to another session: this entry is over the cap.
Evict(d) == file.is # "none" /\ Dropped("evict") /\ Cache(d, NoEntry) /\ UNCHANGED mine

\* forget: the sweep of discard records, by no dashboard.
Forget == file.is = "discarded" /\ Dropped("forget") /\ UNCHANGED <<copy, collect, mine>>

\* The file is past its cap, malformed or unreadable, and as it was again. Its words
\* are on disk throughout.
Spoil ==
  /\ trusted /\ "spoil" \in Faults /\ Event /\ trusted' = FALSE
  /\ UNCHANGED <<file, copy, collect, page, job, lane, departed, told,
                 withdrawn, replaced, doubted, lost, blind>>

Mend ==
  /\ ~trusted /\ trusted' = TRUE
  /\ UNCHANGED <<file, copy, collect, page, job, lane, departed, events, told,
                 withdrawn, replaced, doubted, lost, blind>>

Next ==
  \/ \E p \in Pages : \/ Draw(p) \/ Clear(p)
                      \/ \E on \in BOOLEAN : Mark(p, on)
                      \/ \E guarded \in BOOLEAN : \/ \E w \in Words : Save(p, w, guarded)
                                                  \/ \E m \in Moments : Settle(p, m, guarded)
                      \/ \E j \in Jobs : Press(p, j)
  \/ \E j \in Jobs : Record(j) \/ Leave(j)
  \/ \E d \in Dashboards : \/ Sample(d) \/ Read(d) \/ Publish(d)
                           \/ Withdraw(d) \/ Evict(d)
  \/ \E n \in lane : LaneRecord(n)
  \/ Forget \/ Spoil \/ Mend

Spec == Init /\ [][Next]_vars
-----------------------------------------------------------------------------
\* "so a second tab or a page older than the checklist cannot silently undo the first
\* one's edits" (annotate): a save that names a revision replaces only the words its
\* page showed, whichever dashboard stored them. Not for a page drawn from a copy the
\* file never took: another dashboard may since have given that number to other words.
NoSilentOverwrite ==
  \A r \in replaced : r[1] = r[2] \/ r[1] \in unstored \/ lapsed

\* A revision's number names one text for good, over discards and rebirths, across
\* dashboards (discarded_revision): what a row or a reading says it read is what it read.
NumbersNameOneText == lapsed \/ \A a, b \in named : a[1] = b[1] => a = b

\* A dashboard never shows older words than those it stored: a read of the file that
\* began before the save does not undo it (refresh).
CopyKeepsSave == lapsed \/ \A d \in Dashboards : copy[d].n >= mine[d]

\* Nothing a reader or a reading left beside live words is lost to a write of another
\* dashboard, to a save, or to a file that could not be read: it goes when they are
\* cleared (_carried, and the read under the lock).
NothingForgotten ==
  [][Live(file) /\ Live(file') =>
       /\ file'.n >= file.n /\ file'.settled >= file.settled
       /\ file.jobs \subseteq file'.jobs /\ (file.read # None => file'.read # None)]_vars

\* A mark is on the reading its reader was shown, never on a newer one that landed in
\* its place (mark_not_accurate).
MarkOnShown == file.mark => file.read \in doubted

\* "words withdrawn with a clear are gone" (departures.withdraw): no row and no reading
\* quotes them once the withdrawal is done, unless its reader was told that it failed.
\* Not for words that were being read at the clear: that reading still lands its row.
WithdrawnStayGone ==
  \/ lapsed \/ said \/ owed # {}
  \/ \A n \in quotes \cup {job[j].n : j \in {file.read} \ {None}} : n > gone \/ n \in late

\* "a collection shows either the job or its outcome, never neither" (collect), unless
\* the store did not take the outcome or has dropped it since.
NeverNeither == blind = {}

-----------------------------------------------------------------------------
\* The store keeps RevisionLog's promise: the file's entry is the end of a log of all
\* it ever held, the boards' copies places in it.
TextIn(revisions, n) == CHOOSE w \in Words : <<n, w>> \in revisions
Revised == [n \in 1 .. file.n |-> TextIn(named, n)]
Beside(e) == [settled |-> e.settled, read |-> e.read, jobs |-> e.jobs]

Log == INSTANCE RevisionLog
         WITH log <- Revised, live <- Live(file), beside <- Beside(file), saved <- mine,
              shown <- [d \in Dashboards |-> Rev(copy[d])], forks <- unstored
=============================================================================
