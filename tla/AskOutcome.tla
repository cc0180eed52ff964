----------------------------- MODULE AskOutcome -----------------------------
(***************************************************************************)
(* What the ask lane promises, whatever its threads do: a question comes   *)
(* to one outcome for good, a click said to count is that outcome, and the *)
(* asking session hears once, of the outcome or of an unknown id, the      *)
(* latter alone when the lane has let the question go. asks.py's own       *)
(* comments promise it; Asks implements it.                                *)
(***************************************************************************)
CONSTANTS Asks, Options,
          Open, Declined, Expired, Answered(_),  \* the outcomes
          Nothing, UnknownId                     \* what a poll may hear besides

VARIABLES held,      \* the questions the lane still holds
          asked,     \* the questions it ever took in
          outcome,   \* each question's outcome
          told,      \* the clicks said to have counted
          delivered  \* what each asking session heard

vars == <<held, asked, outcome, told, delivered>>

Init ==
  /\ held = {} /\ asked = {} /\ told = {}
  /\ outcome = [a \in Asks |-> Open]
  /\ delivered = [a \in Asks |-> Nothing]

Ask(a) ==
  /\ a \notin asked
  /\ asked' = asked \cup {a} /\ held' = held \cup {a}
  /\ UNCHANGED <<outcome, told, delivered>>

LetGo(some) ==
  /\ some \subseteq held /\ held' = held \ some
  /\ UNCHANGED <<asked, outcome, told, delivered>>

\* The one outcome: the reader's answer, or nobody's.
Settle(a) ==
  /\ a \in asked /\ outcome[a] = Open
  /\ \/ \E o \in {Declined, Expired} :
          outcome' = [outcome EXCEPT ![a] = o] /\ UNCHANGED told
     \/ \E i \in Options :
          outcome' = [outcome EXCEPT ![a] = Answered(i)] /\ told' = told \cup {<<a, i>>}
  /\ UNCHANGED <<held, asked, delivered>>

\* The session hears the outcome, and the lane is done with the question ...
Deliver(a) ==
  /\ a \in asked /\ outcome[a] # Open /\ delivered[a] = Nothing
  /\ delivered' = [delivered EXCEPT ![a] = outcome[a]]
  /\ held' = held \ {a}
  /\ UNCHANGED <<asked, outcome, told>>

\* ... or hears that there is no such question.
Refuse(a) ==
  /\ a \in asked \ held /\ delivered[a] = Nothing
  /\ delivered' = [delivered EXCEPT ![a] = UnknownId]
  /\ UNCHANGED <<held, asked, outcome, told>>

Next ==
  \/ \E a \in Asks : Ask(a) \/ Settle(a) \/ Deliver(a) \/ Refuse(a)
  \/ \E some \in SUBSET held : LetGo(some)

Safe == Init /\ [][Next]_vars

\* Nobody waits for ever: a question asked is settled.
Spec == Safe /\ \A a \in Asks : WF_vars(Settle(a))

\* What follows for a reader and a session: the click said to have counted is the
\* outcome, and what the session heard of an outcome is that outcome.
OneTruth ==
  /\ \A t \in told : outcome[t[1]] = Answered(t[2])
  /\ \A a \in Asks : delivered[a] \in {Nothing, UnknownId, outcome[a]}
=============================================================================
