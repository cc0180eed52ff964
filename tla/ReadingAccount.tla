--------------------------- MODULE ReadingAccount ---------------------------
(***************************************************************************)
(* What a reader is promised of a reading they press, whatever stops or    *)
(* dies meanwhile: nothing is charged before the commit point, and nothing *)
(* passes that point once the Cancel is accepted; one outcome is told, for *)
(* good, no reading after a Cancel, and it counts the charge; and a charge *)
(* not yet told, or refused for a discarded entry, still is owed when the  *)
(* job's thread is gone. ReadingJobs implements it.                        *)
(***************************************************************************)
CONSTANTS Jobs,
          Outcomes,    \* records of why and spent
          NoOutcome

VARIABLES phase,     \* idle; running, committed to the charge, running on; its
                     \* thread gone and the recovery owed, or all over
          charged,
          cancelled,
          outcome,     \* what the store tells of the job
          refused,     \* outcomes the store has no entry left for
          doubted      \* counted although nobody can say that they were charged

vars == <<phase, charged, cancelled, outcome, refused, doubted>>

Init ==
  /\ phase = [j \in Jobs |-> "idle"] /\ outcome = [j \in Jobs |-> NoOutcome]
  /\ charged = {} /\ cancelled = {} /\ refused = {} /\ doubted = {}

Untold(j) == outcome[j] = NoOutcome /\ j \notin refused

\* The reader need not be told any more of it.
Settled(j) == j \in charged => outcome[j].spent \/ j \in refused

Moves(j, from, to) == phase[j] = from /\ phase' = [phase EXCEPT ![j] = to]

Start(j) ==
  /\ Moves(j, "idle", "running") \/ Moves(j, "idle", "over")
  /\ UNCHANGED <<charged, cancelled, outcome, refused, doubted>>

Commit(j) ==
  /\ Moves(j, "running", "committed")
  /\ Untold(j) /\ j \notin charged \cup cancelled
  /\ UNCHANGED <<charged, cancelled, outcome, refused, doubted>>

\* The one charge of a job, or the ledger, or a stop, does not allow it.
Charge(j) ==
  /\ Moves(j, "committed", "running")
  /\ charged' \in {charged, charged \cup {j}}
  /\ UNCHANGED <<cancelled, outcome, refused, doubted>>

\* Accepted while the outcome may still be the Cancel's.
Cancel(j) ==
  /\ phase[j] \in {"running", "committed"} /\ Untold(j)
  /\ cancelled' = cancelled \cup {j}
  /\ UNCHANGED <<phase, charged, outcome, refused, doubted>>

Tell(j, o) ==
  /\ Untold(j) /\ o # NoOutcome
  /\ outcome' = [outcome EXCEPT ![j] = o]
  /\ j \in charged => o.spent
  /\ UNCHANGED <<charged, cancelled, refused>>

\* The job's thread tells what became of it, and knows what it was charged.
Answer(j, o) ==
  /\ phase[j] = "running" /\ Tell(j, o)
  /\ o.spent => j \in charged
  /\ o.why = "reading" => j \in charged \ cancelled
  /\ UNCHANGED <<phase, doubted>>

\* A later start tells what it can of a thread that is gone. It has no reading, and
\* counts an attempt that nobody can say was not made.
Recover(j, o) ==
  /\ Moves(j, "owed", "owed") \/ Moves(j, "owed", "over")
  /\ Tell(j, o) /\ o.why # "reading"
  /\ doubted' = IF o.spent /\ j \notin charged THEN doubted \cup {j} ELSE doubted

Refuse(j) ==
  /\ outcome[j] = NoOutcome /\ refused' = refused \cup {j}
  /\ \/ phase[j] = "running" /\ UNCHANGED phase
     \/ Moves(j, "owed", "owed") \/ Moves(j, "owed", "over")
  /\ UNCHANGED <<charged, cancelled, outcome, doubted>>

\* Threads end, one or all at once, and an owed recovery ends: nothing is over that
\* is charged and not settled.
Leave ==
  /\ phase' = [j \in Jobs |-> phase'[j]]
  /\ \A j \in Jobs : \/ phase'[j] = phase[j]
                     \/ phase[j] \in {"running", "committed"} /\ phase'[j] = "owed"
                     \/ phase[j] \in {"running", "committed", "owed"}
                        /\ phase'[j] = "over" /\ Settled(j)
  /\ UNCHANGED <<charged, cancelled, outcome, refused, doubted>>

Next ==
  \/ \E j \in Jobs : \/ Start(j) \/ Commit(j) \/ Charge(j) \/ Cancel(j) \/ Refuse(j)
                     \/ \E o \in Outcomes : Answer(j, o) \/ Recover(j, o)
  \/ Leave

Spec == Init /\ [][Next]_vars

\* What follows for the bill: what the store tells is the charge, a reading was paid
\* for and not cancelled, and nobody forgets a charge.
Honest ==
  \A j \in Jobs :
    /\ outcome[j] # NoOutcome /\ j \notin doubted => (outcome[j].spent <=> j \in charged)
    /\ outcome[j].why = "reading" => j \in charged \ cancelled
    /\ phase[j] \in {"idle", "over"} => Settled(j)
=============================================================================
