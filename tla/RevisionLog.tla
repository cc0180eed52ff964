---------------------------- MODULE RevisionLog ----------------------------
(***************************************************************************)
(* What the annotation store promises, however many dashboards share its   *)
(* file: the words ever saved for a session are one log, a revision's      *)
(* number its place there, whether they were withdrawn since or not; what  *)
(* stands beside live words only grows; and a board shows some revision of *)
(* the log, never one from before its own last write, or words it could    *)
(* not store. All of it until the entry lapses, evicted or swept.          *)
(* Annotations implements it.                                              *)
(***************************************************************************)
EXTENDS Integers, Sequences

CONSTANTS Dashboards, Words,
          None        \* what a withdrawn revision shows for words

VARIABLES log,     \* the words of every revision, in order
          live,    \* whether the last of them stand
          beside,  \* what stands with them: what was settled, what was read of them
          saved,   \* how much of the log each dashboard's last write left
          shown,   \* the revision each dashboard's board shows, number and words
          forks,   \* revisions a dashboard shows and could not store
          lapsed

vars == <<log, live, beside, saved, shown, forks, lapsed>>

Bare == [settled |-> 0, read |-> None, jobs |-> {}]

Init ==
  /\ log = <<>> /\ live = FALSE /\ beside = Bare
  /\ saved = [d \in Dashboards |-> 0] /\ shown = [d \in Dashboards |-> <<0, None>>]
  /\ forks = {} /\ lapsed = FALSE

Revisions == {<<n, log[n]>> : n \in DOMAIN log}
Withdrawn == (0 .. Len(log)) \X {None}

\* A write is of the log's end, and its own board shows it.
Stored(d) ==
  /\ saved' = [saved EXCEPT ![d] = Len(log')]
  /\ shown' = [shown EXCEPT ![d] = <<Len(log'), IF live' THEN log'[Len(log')] ELSE None>>]
  /\ UNCHANGED <<forks, lapsed>>

\* A save: the next revision, and what stands beside the words stands with the new ones.
Save(d, w) == log' = Append(log, w) /\ live' /\ beside' = beside /\ Stored(d)

\* An answer, a reading or an outcome joins what stands beside live words.
Add(d) ==
  /\ live /\ UNCHANGED <<log, live>> /\ Stored(d)
  /\ beside'.settled >= beside.settled /\ beside.jobs \subseteq beside'.jobs
  /\ beside.read # None => beside'.read # None

\* A clear: the log keeps its revisions, and nothing stands.
Clear(d) == UNCHANGED log /\ ~live' /\ beside' = Bare /\ Stored(d)

\* A write that the file did not take is shown by its own board alone.
Unstored(d) ==
  /\ \/ \E w \in Words : /\ forks' = forks \cup {<<Len(log) + 1, w>>}
                         /\ shown' = [shown EXCEPT ![d] = <<Len(log) + 1, w>>]
     \/ /\ live /\ forks' = forks \cup {<<Len(log), log[Len(log)]>>}
        /\ shown' = [shown EXCEPT ![d] = <<Len(log), log[Len(log)]>>]
     \/ shown' = [shown EXCEPT ![d] = <<Len(log), None>>] /\ UNCHANGED forks
  /\ UNCHANGED <<log, live, beside, saved, lapsed>>

\* A board shows what a read of the file found, as old as it may be.
Show(d) ==
  /\ \E v \in Revisions \cup Withdrawn :
       v[1] >= saved[d] /\ shown' = [shown EXCEPT ![d] = v]
  /\ UNCHANGED <<log, live, beside, saved, forks, lapsed>>

\* Or that the file cannot be read, and from then on whatever it reads.
Lose(d) ==
  /\ shown' = [shown EXCEPT ![d] = <<0, None>>] /\ saved' = [saved EXCEPT ![d] = 0]
  /\ UNCHANGED <<log, live, beside, forks, lapsed>>

\* Once the entry has left the file the numbers may start again, and the promise ends.
Lapse == lapsed'

Next ==
  \/ \E d \in Dashboards : \/ Add(d) \/ Clear(d) \/ Unstored(d) \/ Show(d) \/ Lose(d)
                           \/ \E w \in Words : Save(d, w)
  \/ Lapse

Spec == Init /\ [][Next]_vars

\* What follows for a reader at a board: it shows a revision the log has, words and
\* number, or one that this store refused, and nothing older than was saved from it.
Honest ==
  lapsed \/ \A d \in Dashboards :
              /\ shown[d] \in Revisions \cup Withdrawn \cup forks
              /\ saved[d] <= shown[d][1] /\ saved[d] <= Len(log)
=============================================================================
