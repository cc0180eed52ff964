-------------------------------- MODULE Alerts --------------------------------
(***************************************************************************)
(* When a session that waits on its reader raises a banner                 *)
(* (notifications.py). Two lanes decide it over the same state: a request  *)
(* thread that handles a Claude notification hook, and the collection,     *)
(* which judges every row it has read. Both ask the dismissals first, and  *)
(* share one floor per session and one for the machine. One action is one  *)
(* hold of the hook lock with the reads just before it, or one read of     *)
(* what is on disk. Time is the ages of things, and an age stops growing   *)
(* once nothing asks for more.                                             *)
(***************************************************************************)
EXTENDS Dismissals

CONSTANTS Notices,    \* request threads of /api/notify
          Hooked,     \* sessions whose harness posts hooks: Claude's
          Shown,      \* sessions whose record, or off Claude an overlay, shows their waits
          Cooldown,   \* popup_cooldown_sec, in ticks
          Floor,      \* global_popup_cooldown_sec
          Working,    \* working_threshold_sec
          MaxEvents,  \* bound: what sessions, readers and the hour do
          None        \* no hook, no state, no notification

ASSUME AlertsAssumption ==
  /\ Hooked \subseteq Sessions /\ Shown \subseteq Sessions
  /\ {Cooldown, Floor, Working, MaxEvents} \subseteq Nat
  /\ None \notin Sessions

VARIABLES
  asking,   \* sessions that wait on their reader
  typed,    \* each session's newest user record, by its clock
  quietFor, \* each record's age since its last write
  post,     \* the notification each session has on the way
  hook,     \* state.hook_notifications
  gen,      \* state.hook_generation
  last,     \* state.last_session_state; of, told: history, the generation it was
            \*   learnt in, and whether its wait was raised or dropped by the own floor
  since,    \* state.last_popup: the age of each session's floor,
  floor,    \*   and of the machine-wide one
  said,     \* state.last_popup_message: sessions with one
  quiet,    \* whether these are quiet hours
  notice,   \* each request thread
  coll,     \* the collection
  events,   \* how much sessions, readers and the hour have done
  rung,     \* history: sessions whose present wait was raised
  raised    \* history: what is wrong with the raises so far

session == <<asking, typed, quietFor, writes>>
hooks == <<hook, gen, last>>
floors == <<since, floor, said, rung, raised>>
vars == <<dismissals, session, post, hooks, floors, quiet, notice, coll, events>>

Kinds == {"prompt", "idle"}
Rows == [act: Nat, user: Nat, of: Nat, waits: BOOLEAN, fresh: BOOLEAN]
NoRow == [act |-> 0, user |-> 0, of |-> 0, waits |-> FALSE, fresh |-> FALSE]
NoColl == [at |-> "idle", marks |-> NoMarks, gens |-> [s \in Sessions |-> 0],
           rows |-> [s \in Sessions |-> NoRow], left |-> {}, clicked |-> FALSE]
NoNotice == [at |-> "idle", s |-> None, kind |-> "idle", user |-> 0, gen |-> 0, of |-> 0]

\* Every variable has its type.
TypeOK ==
  /\ DismissalsTyped
  /\ asking \subseteq Sessions
  /\ typed \in [Hooked -> Nat]
  /\ quietFor \in [Hooked -> 0..Working]
  /\ post \in [Hooked -> Kinds \cup {None}]
  /\ hook \in [Hooked -> [user: Nat, of: Nat] \cup {None}]
  /\ gen \in [Sessions -> Nat]
  /\ last \in [Sessions -> [waits: BOOLEAN, of: Nat, told: BOOLEAN] \cup {None}]
  /\ since \in [Sessions -> 0..Cooldown] /\ floor \in 0..Floor
  /\ said \subseteq Sessions /\ rung \subseteq Sessions
  /\ raised \subseteq {"ended", "hidden", "twice"}
  /\ quiet \in BOOLEAN
  /\ notice \in [Notices -> [at: {"idle", "apply"}, s: Sessions \cup {None}, kind: Kinds,
                             user: Nat, gen: Nat, of: Nat]]
  /\ events \in Nat
  /\ coll \in [at: {"idle", "assign", "read", "retire", "judge"}, marks: Marks,
               gens: [Sessions -> Nat], rows: [Sessions -> Rows],
               left: SUBSET Sessions, clicked: BOOLEAN]

Init ==
  /\ DismissalsInit
  /\ asking = {} /\ typed = [s \in Hooked |-> 1]
  /\ quietFor = [s \in Hooked |-> 0]
  /\ post = [s \in Hooked |-> None]
  /\ hook = [s \in Hooked |-> None] /\ gen = [s \in Sessions |-> 0]
  /\ last = [s \in Sessions |-> None]
  /\ since = [s \in Sessions |-> Cooldown] /\ floor = Floor
  /\ said = {} /\ rung = {} /\ raised = {} /\ quiet = FALSE
  /\ notice = [n \in Notices |-> NoNotice]
  /\ coll = NoColl /\ events = 0

-----------------------------------------------------------------------------
Happens == events < MaxEvents /\ events' = events + 1

\* The sessions themselves: a wait begins, its record written with it or not yet, and a
\* hook sets out to say so, in the place of one still on the way; it ends with a new
\* user record, or with a permission that writes nothing yet.
Writes(s) ==
  /\ writes' = [writes EXCEPT ![s] = @ + 1]
  /\ quietFor' = [h \in Hooked |-> IF h = s THEN 0 ELSE quietFor[h]]

Ask(s) ==
  /\ Happens /\ s \notin asking
  /\ asking' = asking \cup {s} /\ rung' = rung \ {s}
  /\ post' = IF s \in Hooked THEN [post EXCEPT ![s] = "prompt"] ELSE post
  /\ Writes(s) \/ UNCHANGED <<writes, quietFor>>
  /\ UNCHANGED <<dismissals, typed, hooks, since, floor, said, raised, quiet, notice, coll>>

Answer(s) ==
  /\ Happens /\ s \in asking /\ asking' = asking \ {s}
  /\ \/ /\ Writes(s)
        /\ typed' = [h \in Hooked |-> IF h = s THEN writes[s] + 1 ELSE typed[h]]
     \/ UNCHANGED <<writes, typed, quietFor>>
  /\ UNCHANGED <<dismissals, post, hooks, floors, quiet, notice, coll>>

\* Claude repeats a notification for as long as the session waits, and nudges an
\* idle one.
Repeat(s) ==
  /\ Happens /\ s \in Hooked /\ post[s] = None
  /\ post' = [post EXCEPT ![s] = IF s \in asking THEN "prompt" ELSE "idle"]
  /\ UNCHANGED <<dismissals, session, hooks, floors, quiet, notice, coll>>

\* clear_session: a SessionEnd retires what stands and opens a new generation.
End(s) ==
  /\ Happens /\ s \in Hooked
  /\ asking' = asking \ {s}
  /\ hook' = [hook EXCEPT ![s] = None] /\ last' = [last EXCEPT ![s] = None]
  /\ gen' = [gen EXCEPT ![s] = @ + 1]
  /\ UNCHANGED <<dismissals, typed, quietFor, writes, post, floors, quiet, notice, coll>>

Older(age, cap) == IF age < cap THEN age + 1 ELSE age

Tick ==
  /\ coll.at = "idle"
  /\ quietFor' = [s \in Hooked |-> Older(quietFor[s], Working)]
  /\ since' = [s \in Sessions |-> Older(since[s], Cooldown)]
  /\ floor' = Older(floor, Floor)
  /\ UNCHANGED <<dismissals, asking, typed, writes, post, hooks, said, rung, raised,
                 quiet, notice, coll, events>>

QuietHours ==
  /\ Happens /\ quiet' = ~quiet
  /\ UNCHANGED <<dismissals, session, post, hooks, floors, notice, coll>>

\* The dismiss route beside all this.
Click(c, s) ==
  /\ \/ Happens /\ \E mark \in {0, writes[s]} : Hold(c, s, mark)
     \/ Save(c, s) /\ UNCHANGED events
  /\ coll' = [coll EXCEPT !.clicked = @ \/ (c \in Here /\ coll.at # "idle")]
  /\ UNCHANGED <<asking, typed, quietFor, post, hooks, floors, quiet, notice>>

-----------------------------------------------------------------------------
\* A raise spends both floors before the call; "wrong" says what a raise must not be.
Raise(s, wrong) ==
  /\ since' = [since EXCEPT ![s] = 0] /\ floor' = 0
  /\ rung' = IF s \in asking THEN rung \cup {s} ELSE rung
  /\ raised' = raised \cup wrong
Hush == UNCHANGED <<since, floor, rung, raised>>
Late(s, of) == IF of # gen[s] THEN {"ended"} ELSE {}

\* handle_payload up to its hold: the generation it samples first, then the user
\* record its transcript ends in. An agent's session is answered and dropped.
Arrive(n, s) ==
  /\ notice[n].at = "idle" /\ s \in Hooked /\ post[s] # None
  /\ notice' = [notice EXCEPT ![n] = [at |-> "apply", s |-> s, kind |-> post[s],
                                      user |-> typed[s], gen |-> gen[s], of |-> gen[s]]]
  /\ post' = [post EXCEPT ![s] = None]
  /\ UNCHANGED <<dismissals, session, hooks, floors, quiet, coll, events>>

\* A prompt is stored, a nudge retires what stood.
Stored(r) ==
  IF r.kind = "prompt"
  THEN /\ hook' = [hook EXCEPT ![r.s] = [user |-> r.user, of |-> r.of]] /\ UNCHANGED last
  ELSE /\ hook' = [hook EXCEPT ![r.s] = None] /\ last' = [last EXCEPT ![r.s] = None]

\* Slip: the generation is read at the decision and compared with itself.
SlipSuperseded(r) == FALSE
\* The session ended while its notification was being processed.
Superseded(r) == gen[r.s] # r.gen

\* The hold: nothing from before a SessionEnd; both floors open, no repeat of the
\* last message, no mark over the transcript, no quiet hours, or no banner.
Apply(n) ==
  LET r == notice[n]
      open == /\ since[r.s] = Cooldown /\ floor = Floor
              /\ ~Holds(copy, r.s, writes[r.s]) /\ ~quiet
  IN
  /\ r.at = "apply"
  /\ IF Superseded(r)
     THEN UNCHANGED <<hook, last, floors>>
     ELSE /\ Stored(r)
          /\ \/ /\ open
                /\ Raise(r.s, Late(r.s, r.of)) /\ said' = said \cup {r.s}
             \/ /\ ~open \/ r.s \in said
                /\ Hush /\ UNCHANGED said
  /\ notice' = [notice EXCEPT ![n] = NoNotice]
  /\ UNCHANGED <<dismissals, session, post, gen, quiet, coll, events>>

-----------------------------------------------------------------------------
\* A collection refreshes the marks, then samples the generations,
Load ==
  /\ coll.at = "idle"
  /\ \E marks \in Loads : coll' = [coll EXCEPT !.at = "assign", !.marks = marks]
  /\ UNCHANGED <<dismissals, session, post, hooks, floors, quiet, notice, events>>

\* Slip: a refresh that answers what it read and leaves the process's copy alone.
SlipAssign ==
  /\ coll.at = "assign"
  /\ coll' = [coll EXCEPT !.at = "read", !.gens = gen, !.clicked = FALSE]
  /\ UNCHANGED <<dismissals, session, post, hooks, floors, quiet, notice, events>>

Assign ==
  /\ coll.at = "assign"
  /\ copy' = coll.marks
  /\ coll' = [coll EXCEPT !.at = "read", !.gens = gen, !.clicked = FALSE]
  /\ UNCHANGED <<file, click, unsaved, session, post, hooks, floors, quiet, notice, events>>

\* and only then reads the records.
Read ==
  /\ coll.at = "read"
  /\ coll' = [coll EXCEPT !.at = "retire",
       !.rows = [s \in Sessions |->
          [act |-> writes[s], of |-> gen[s], waits |-> s \in Shown \cap asking,
           user |-> IF s \in Hooked THEN typed[s] ELSE 0,
           fresh |-> s \in Hooked /\ quietFor[s] < Working]]]
  /\ UNCHANGED <<dismissals, session, post, hooks, floors, quiet, notice, events>>

\* current_hook: a hook asked under another user record than the one read is retired.
Answered(s) == hook[s] # None /\ hook[s].user # coll.rows[s].user
Standing(s) == hook[s] # None /\ ~Answered(s)

\* A row waits if its record says so, or a hook stands and the record is quiet; not
\* if its session has ended since the read.
Retire ==
  /\ coll.at = "retire"
  /\ hook' = [s \in Hooked |-> IF Answered(s) THEN None ELSE hook[s]]
  /\ coll' = [coll EXCEPT !.at = "judge", !.left = Sessions,
       !.rows = [s \in Sessions |->
          [coll.rows[s] EXCEPT !.user = 0, !.fresh = FALSE,
             !.waits = /\ gen[s] = coll.rows[s].of
                       /\ @ \/ (s \in Hooked /\ Standing(s) /\ ~coll.rows[s].fresh)]]]
  /\ UNCHANGED <<dismissals, session, post, gen, last, floors, quiet, notice, events>>

Judged(s) == IF coll.left = {s} THEN NoColl ELSE [coll EXCEPT !.left = @ \ {s}]
Entering(s) == coll.rows[s].waits /\ (last[s] = None \/ ~last[s].waits)

\* What a raise of this row by the collection must not be.
Wrong(s) ==
  Late(s, coll.rows[s].of)
  \cup (IF Holds(coll.marks, s, coll.rows[s].act) /\ ~coll.clicked THEN {"hidden"} ELSE {})
  \cup (IF s \in rung \cap asking THEN {"twice"} ELSE {})

\* Slip: the collection does not look whether the session has ended since.
SlipOver(s) == FALSE
Over(s) == gen[s] # coll.gens[s]

\* Slip: a wait the machine-wide floor holds back is recorded as one that was raised.
SlipDeferred(s) == FALSE
Deferred(s) == Entering(s) /\ since[s] = Cooldown /\ floor < Floor
Raises(s) == Entering(s) /\ since[s] = Cooldown /\ floor = Floor
Recorded(s) ==
  [waits |-> coll.rows[s].waits, of |-> coll.rows[s].of,
   told |-> coll.rows[s].waits /\ IF Entering(s) THEN Raises(s) \/ since[s] < Cooldown
                                                 ELSE last[s].told]

\* maybe_popup: a wait the machine-wide floor alone holds back is left unrecorded,
\* so that the next collection finds it again.
Judge(s) ==
  LET row == coll.rows[s] IN
  /\ coll.at = "judge" /\ s \in coll.left
  /\ coll' = Judged(s)
  /\ IF quiet \/ Holds(copy, s, row.act) \/ Over(s) \/ Deferred(s)
     THEN UNCHANGED last /\ Hush
     ELSE /\ last' = [last EXCEPT ![s] = Recorded(s)]
          /\ IF Raises(s) THEN Raise(s, Wrong(s)) ELSE Hush
  /\ UNCHANGED <<dismissals, session, post, hook, gen, said, quiet, notice, events>>

-----------------------------------------------------------------------------
Collect == Load \/ Assign \/ Read \/ Retire \/ \E s \in Sessions : Judge(s)

Next ==
  \/ \E s \in Sessions : \/ Ask(s) \/ Answer(s) \/ Repeat(s) \/ End(s)
                         \/ \E c \in Clicks : Click(c, s)
                         \/ \E n \in Notices : Arrive(n, s)
  \/ \E n \in Notices : Apply(n)
  \/ Collect \/ Tick \/ QuietHours

\* Time passes, and the coordinator's reconcile keeps collecting.
Fairness == SF_vars(Tick) /\ WF_vars(Collect)
Spec == Init /\ [][Next]_vars
FairSpec == Spec /\ Fairness

-----------------------------------------------------------------------------
\* Nothing learnt before a SessionEnd outlives it: no hook, no remembered state and
\* no banner, whichever lane was under way when it came (clear_session).
EndedStaysSilent ==
  /\ \A s \in Hooked : hook[s] # None => hook[s].of = gen[s]
  /\ \A s \in Sessions : last[s] # None => last[s].of = gen[s]
  /\ "ended" \notin raised

\* A collection raises nothing for a row that the same collection takes off the
\* board, unless a click landed in between (collect's order, design D-3).
BoardAgrees == "hidden" \notin raised

\* The machine-wide floor delays a banner and never destroys one: a wait that stands
\* outside quiet hours, on no marked row, does not stay for ever one that no collection
\* raised; what the session's own floor holds is dropped on purpose (maybe_popup).
Unheard(s) ==
  /\ s \in Shown \cap asking \/ (s \in Hooked /\ hook[s] # None
                                 /\ hook[s].user = typed[s] /\ quietFor[s] = Working)
  /\ last[s] = None \/ ~last[s].told
  /\ ~Holds(file, s, writes[s]) /\ ~Holds(copy, s, writes[s]) /\ ~quiet
DelayedNotLost == \A s \in Sessions : ~<>[]Unheard(s)

\* A standing wait is raised once: what the hook raised, the collection that finds
\* the same wait later does not raise again (maybe_popup's shared key).
OneGateOnePopup == "twice" \notin raised
=============================================================================
