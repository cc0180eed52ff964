-------------------------------- MODULE Asks --------------------------------
(***************************************************************************)
(* The ask lane (asks.py and its routes in http_api.py): the table of      *)
(* outstanding questions behind one lock, each question's one-slot outcome *)
(* behind its own condition, and the request threads that take the two one *)
(* after the other: registrations, polls, clicks, withdrawals, collections *)
(* and the stop. Whatever a call has taken out of the table under the lock *)
(* and has yet to settle outside it is in `stale` or `condemned`.          *)
(***************************************************************************)
EXTENDS Integers, FiniteSets

CONSTANTS Asks,       \* ask ids, each registered once
          Clickers,   \* request threads of /api/answer
          Options,    \* the options every question was registered with
          Indices,    \* the indices a click may send
          Limit,      \* ask_max_pending
          Deadline,   \* ask_deadline_sec
          Retention,  \* ask_retention_sec
          MaxTime     \* bound: the application's clock, which every question
                      \* asked here sees to the end of its deadline

ASSUME AsksAssumption ==
  /\ IsFiniteSet(Asks)
  /\ Options \subseteq Indices /\ Indices \subseteq Int
  /\ Limit \in Nat /\ Deadline \in Nat /\ Retention \in Nat /\ MaxTime \in Nat

VARIABLES
  now,         \* the application's clock
  table,       \* AskRegistry._asks
  outcome,     \* PendingAsk._outcome
  created,     \* PendingAsk.created
  settledSeen, \* PendingAsk.settled_seen
  reg,         \* each ask's registration: where its thread is
  stale,       \* what a sweep took out, by the registration or board that swept
  condemned,   \* popped by a withdrawal or the stop, the decline still owed
  click,       \* each clicker: the ask it fetched and the index it carries
  poll,        \* each ask's poller: parked in wait() or not
  delivered,   \* what the asking session was told
  told,        \* history: clicks answered `answered: true`
  taken        \* history: asks popped by a withdrawal or the stop

vars == <<now, table, outcome, created, settledSeen, reg, stale, condemned,
          click, poll, delivered, told, taken>>

\* An outcome is a state name and, for an answer alone, the index chosen.
Open == <<"open">>
Answered(i) == <<"answered", i>>
Declined == <<"declined">>
Expired == <<"expired">>
Outcomes == {Answered(i) : i \in Options} \cup {Declined, Expired}
\* What a poll may be told of besides an outcome: nothing yet, or a 404.
Nothing == <<"nothing">>
UnknownId == <<"unknown id">>
Never == -1
Board == "board"
Sweepers == Asks \cup {Board}
NoClick == [ask |-> "none", index |-> 0]
Clicks == [ask: Asks, index: Indices] \cup {NoClick}
Times == 0 .. MaxTime

Unresolved == {a \in table : outcome[a] = Open}

\* Every variable has its type, and the budget holds: what registrations have
\* stored and nobody has settled never outgrows ask_max_pending.
TypeOK ==
  /\ now \in Times
  /\ table \subseteq Asks
  /\ outcome \in [Asks -> Outcomes \cup {Open}]
  /\ created \in [Asks -> Times \cup {Never}]
  /\ settledSeen \in [Asks -> Times \cup {Never}]
  /\ reg \in [Asks -> {"new", "swept", "stored", "refused"}]
  /\ stale \in [Sweepers -> SUBSET Asks]
  /\ condemned \subseteq Asks /\ taken \subseteq Asks
  /\ click \in [Clickers -> Clicks]
  /\ poll \in [Asks -> {"idle", "parked"}]
  /\ delivered \in [Asks -> Outcomes \cup {Nothing, UnknownId}]
  /\ told \subseteq Asks \X Options
  /\ Cardinality(Unresolved) <= Limit

Init ==
  /\ now = 0 /\ table = {}
  /\ outcome = [a \in Asks |-> Open]
  /\ created = [a \in Asks |-> Never] /\ settledSeen = [a \in Asks |-> Never]
  /\ reg = [a \in Asks |-> "new"]
  /\ stale = [s \in Sweepers |-> {}]
  /\ condemned = {} /\ taken = {}
  /\ click = [c \in Clickers |-> NoClick]
  /\ poll = [a \in Asks |-> "idle"]
  /\ delivered = [a \in Asks |-> Nothing]
  /\ told = {}

-----------------------------------------------------------------------------
\* Slip: the age test comes first, so a late answer is deleted with its question.
SlipSweep(s, t) ==
  LET old == {a \in table : t - created[a] > Deadline}
  IN /\ table' = table \ old
     /\ stale' = [stale EXCEPT ![s] = @ \cup {a \in old : outcome[a] = Open}]
     /\ settledSeen' = [a \in Asks |->
          IF a \in table \ Unresolved /\ settledSeen[a] = Never THEN t ELSE settledSeen[a]]

\* _sweep, one hold of the table lock, measured at time t by caller s.
Sweep(s, t) ==
  LET settled == table \ Unresolved
      late == {a \in Unresolved : t - created[a] > Deadline}
      kept == {a \in settled : settledSeen[a] # Never /\ t - settledSeen[a] > Retention}
  IN /\ table' = table \ (late \cup kept)
     /\ stale' = [stale EXCEPT ![s] = @ \cup late]
     /\ settledSeen' = [a \in Asks |->
          IF a \in settled /\ settledSeen[a] = Never THEN t ELSE settledSeen[a]]

\* _ask: the question is made, and register sweeps on its own creation time.
Register(a) ==
  /\ reg[a] = "new" /\ now + Deadline < MaxTime
  /\ reg' = [reg EXCEPT ![a] = "swept"]
  /\ created' = [created EXCEPT ![a] = now]
  /\ Sweep(a, now)
  /\ UNCHANGED <<now, outcome, condemned, click, poll, delivered, told, taken>>

\* Slip: the room is counted before this registration's turn of the lock.
SlipDecide(a) ==
  /\ reg[a] = "swept"
  /\ IF Cardinality(Unresolved) <= Limit
     THEN table' = table \cup {a} /\ reg' = [reg EXCEPT ![a] = "stored"]
     ELSE reg' = [reg EXCEPT ![a] = "refused"] /\ UNCHANGED table
  /\ UNCHANGED <<now, outcome, created, settledSeen, stale, condemned, click, poll,
                 delivered, told, taken>>

\* The second hold of register: the budget and the store in one.
Decide(a) ==
  /\ reg[a] = "swept"
  /\ IF Cardinality(Unresolved) < Limit
     THEN table' = table \cup {a} /\ reg' = [reg EXCEPT ![a] = "stored"]
     ELSE reg' = [reg EXCEPT ![a] = "refused"] /\ UNCHANGED table
  /\ UNCHANGED <<now, outcome, created, settledSeen, stale, condemned, click, poll,
                 delivered, told, taken>>

\* A collection's pending(): one board sweep at a time, under the collect lock.
BoardSweep ==
  /\ stale[Board] = {}
  /\ Sweep(Board, now)
  /\ UNCHANGED <<now, outcome, created, reg, condemned, click, poll, delivered, told, taken>>

\* Slip: the last outcome to land wins.
SlipSettled(a, o) == [outcome EXCEPT ![a] = o]

\* PendingAsk._settle: the first outcome to land wins.
Settled(a, o) == [outcome EXCEPT ![a] = IF @ = Open THEN o ELSE @]

\* Slip: what was swept is forgotten without a word to its poller.
SlipExpire(s, a) ==
  /\ a \in stale[s] /\ (s # Board => reg[s] # "swept")
  /\ stale' = [stale EXCEPT ![s] = @ \ {a}]
  /\ UNCHANGED <<now, table, outcome, created, settledSeen, reg, condemned, click, poll,
                 delivered, told, taken>>

\* The sweeper's expire, outside the table lock; register's comes after its decision.
Expire(s, a) ==
  /\ a \in stale[s] /\ (s # Board => reg[s] # "swept")
  /\ stale' = [stale EXCEPT ![s] = @ \ {a}]
  /\ outcome' = Settled(a, Expired)
  /\ UNCHANGED <<now, table, created, settledSeen, reg, condemned, click, poll,
                 delivered, told, taken>>

\* withdraw and decline_all: out of the table under the lock, declined outside it.
Pop(some) ==
  /\ table' = table \ some
  /\ condemned' = condemned \cup some
  /\ taken' = taken \cup some
  /\ UNCHANGED <<now, outcome, created, settledSeen, reg, stale, click, poll, delivered, told>>

Withdraw(a) == a \in table /\ Pop({a})
DeclineAll == table # {} /\ Pop(table)

\* Slip: a decline that only drops the row.
SlipDecline(a) ==
  /\ a \in condemned
  /\ condemned' = condemned \ {a}
  /\ UNCHANGED <<now, table, outcome, created, settledSeen, reg, stale, click, poll,
                 delivered, told, taken>>

Decline(a) ==
  /\ a \in condemned
  /\ condemned' = condemned \ {a}
  /\ outcome' = Settled(a, Declined)
  /\ UNCHANGED <<now, table, created, settledSeen, reg, stale, click, poll,
                 delivered, told, taken>>

\* answer: the ask is fetched under the table lock ...
Fetch(c, a, i) ==
  /\ click[c] = NoClick /\ a \in table
  /\ click' = [click EXCEPT ![c] = [ask |-> a, index |-> i]]
  /\ UNCHANGED <<now, table, outcome, created, settledSeen, reg, stale, condemned,
                 poll, delivered, told, taken>>

\* ... and resolved under its own condition, when nobody was first and the index
\* is one the session offered. The reply says whether it was.
Resolve(c) ==
  /\ click[c] # NoClick
  /\ LET a == click[c].ask
         i == click[c].index
     IN IF outcome[a] = Open /\ i \in Options
        THEN outcome' = [outcome EXCEPT ![a] = Answered(i)] /\ told' = told \cup {<<a, i>>}
        ELSE UNCHANGED <<outcome, told>>
  /\ click' = [click EXCEPT ![c] = NoClick]
  /\ UNCHANGED <<now, table, created, settledSeen, reg, stale, condemned, poll,
                 delivered, taken>>

\* _ask_poll: an id the table does not hold is a 404; any other poll parks.
Poll(a) ==
  /\ reg[a] = "stored" /\ poll[a] = "idle" /\ delivered[a] = Nothing
  /\ IF a \in table
     THEN poll' = [poll EXCEPT ![a] = "parked"] /\ UNCHANGED delivered
     ELSE delivered' = [delivered EXCEPT ![a] = UnknownId] /\ UNCHANGED poll
  /\ UNCHANGED <<now, table, outcome, created, settledSeen, reg, stale, condemned,
                 click, told, taken>>

\* The parked poll holds the ask itself, in the table or not. With no outcome its
\* wait runs out and it asks again; with one it releases the row, then replies.
Wake(a) ==
  /\ poll[a] = "parked"
  /\ poll' = [poll EXCEPT ![a] = "idle"]
  /\ IF outcome[a] = Open
     THEN UNCHANGED <<table, delivered>>
     ELSE table' = table \ {a} /\ delivered' = [delivered EXCEPT ![a] = outcome[a]]
  /\ UNCHANGED <<now, outcome, created, settledSeen, reg, stale, condemned, click, told, taken>>

Tick ==
  /\ now < MaxTime /\ now' = now + 1
  /\ UNCHANGED <<table, outcome, created, settledSeen, reg, stale, condemned, click,
                 poll, delivered, told, taken>>

Next ==
  \/ \E a \in Asks : Register(a) \/ Decide(a) \/ Withdraw(a) \/ Decline(a) \/ Poll(a) \/ Wake(a)
  \/ \E s \in Sweepers, a \in Asks : Expire(s, a)
  \/ \E c \in Clickers : Resolve(c) \/ \E a \in Asks, i \in Indices : Fetch(c, a, i)
  \/ BoardSweep \/ DeclineAll \/ Tick

\* Started calls return, the clock runs, and an outstanding question forces
\* collections while it lasts (observation._due reads the registry's count).
Fairness ==
  /\ \A a \in Asks : WF_vars(Decide(a)) /\ WF_vars(Decline(a))
  /\ \A s \in Sweepers, a \in Asks : WF_vars(Expire(s, a))
  /\ WF_vars(Tick) /\ WF_vars(Unresolved # {} /\ BoardSweep)
Spec == Init /\ [][Next]_vars
FairSpec == Spec /\ Fairness
-----------------------------------------------------------------------------
\* No asking session is left waiting on a question nobody can settle any more: one
\* that left the table unresolved is in the hands of a call that will settle it.
NoOrphan ==
  \A a \in Asks : reg[a] = "stored" /\ a \notin table /\ outcome[a] = Open
                  => a \in condemned \cup UNION {stale[s] : s \in Sweepers}

\* The lane keeps AskOutcome's promise: one outcome for each question, first come
\* and for good; a click told as counted is it; the session hears that outcome once,
\* or of an unknown id when the table has let the question go; and each settles.
Outcome == INSTANCE AskOutcome
             WITH held <- table, asked <- {a \in Asks : reg[a] = "stored"}
Promise == Outcome!Spec

\* An outcome leaves the table unread only by a withdrawal, the stop, or the end
\* of the retention a first sweep began.
SettledKept ==
  \A a \in Asks : settledSeen[a] # Never /\ a \notin table \cup taken
                  => delivered[a] # Nothing \/ now - settledSeen[a] > Retention

\* "So an outcome, once set, survives the retention window" (asks.py, _sweep): a
\* click the reader was told had counted can still be collected.
AnswerSurvives ==
  \A t \in told : t[1] \notin table \cup taken
                  => delivered[t[1]] # Nothing \/ settledSeen[t[1]] # Never
=============================================================================
