---------------------------- MODULE LiveEstimate ----------------------------
(***************************************************************************)
(* The live estimate of one session (live_estimate.py): a session and one  *)
(* subagent append to their transcripts while requests read them, from the *)
(* end and no further than a budget, and answer the level read off them    *)
(* and the call it rose at. A replay is kept and the next one begins from  *)
(* it: from its end when calls were only added, from its base when the     *)
(* head it no longer reads can be taken out of that, else from nothing.    *)
(* The folders the saved intent names come and go on the disk meanwhile,   *)
(* and no size tells of it.                                                *)
(***************************************************************************)
EXTENDS ToolReports

CONSTANTS Readers,      \* request threads asking for this session
          Menu,         \* what a call of the session may be: [does, of, ends]
          ChildMenu,    \* and of the subagent
          Budget,       \* turn_scan_max_bytes, in records
          ReplaySteps,  \* LIVE_REPLAY_STEPS
          MaxRecords, MaxChild, \* bounds: records in the two transcripts, in the second
          MaxTime,      \* bound: recorded times
          MaxBehind,    \* bound: lines written while a request is under way
          MaxStale,     \* bound: lines written past the replay that is kept
          Removed       \* bound: named folders that may leave the disk again

ASSUME LiveEstimateAssumption ==
  /\ Budget \in Nat \ {0} /\ ReplaySteps \in Nat \ {0}
  /\ MaxBehind \in Nat /\ MaxStale \in Nat
  /\ MaxRecords \in Nat /\ MaxChild \in Nat /\ MaxTime \in Nat \ {0}
  /\ \A entry \in Menu \cup ChildMenu :
       entry.does \in Deeds /\ (Tests(entry) => entry.of \in Checks)

VARIABLES
  now,      \* the time a record is stamped with
  parent,   \* the session's transcript: calls and the person's messages
  child,    \* its subagent's transcript
  touched,  \* when the subagent's file was last written
  done,     \* the launches whose completion a transcript records
  there,    \* the named folders that are directories on the disk
  cache,    \* _cache: the replay kept for this session, or Nothing
  flight    \* each reader: where its request is, what it has read or was answered

records == <<now, parent, child, touched, done>>
files == <<records, there>>
vars == <<files, cache, flight>>

Person == [does |-> "person", of |-> "", ends |-> {}]
Results(s) == Cardinality({i \in DOMAIN s : s[i].says # "nothing"})

\* _live_signature: the two files' sizes. They only grow. The disk is not in it.
Signature == <<Len(parent) + Results(parent) + Cardinality(done), Len(child) + Results(child)>>
Lines(signature) == signature[1] + signature[2]
Moved == <<>>
Nothing == [signature |-> Moved]
Idle == [at |-> "idle"]
UnderWay == {"asked", "reading", "replayed"}

Init ==
  /\ now = 1 /\ parent = <<>> /\ child = <<>> /\ touched = None /\ done = {}
  /\ there \in SUBSET DOMAIN Inside
  /\ cache = Nothing
  /\ flight = [r \in Readers |-> Idle]

-----------------------------------------------------------------------------
\* The transcripts grow: a record, a result of one, a completion. The session writes
\* in the order of its clock; the subagent may write out a record some time after.
Record(entry, at) ==
  [at |-> at, id |-> Len(parent) + Len(child) + 1, does |-> entry.does, of |-> entry.of,
   says |-> "nothing", told |-> None]

Grows ==
  /\ \A r \in {q \in Readers : flight[q].at \in UnderWay} :
       Lines(Signature) < Lines(flight[r].signature) + MaxBehind
  /\ \A kept \in {cache} \ {Nothing} : Lines(Signature) < Lines(kept.signature) + MaxStale
  /\ now' \in {now, now + 1} \cap (1 .. MaxTime)
  /\ flight' = [r \in Readers |-> IF flight[r].at \in UnderWay THEN flight[r] ELSE Idle]
  /\ UNCHANGED <<there, cache>>

SessionWrites ==
  /\ Grows /\ Len(parent) + Len(child) < MaxRecords
  /\ \E entry \in Menu \cup {Person} : parent' = Append(parent, Record(entry, now'))
  /\ UNCHANGED <<child, touched, done>>

SubagentWrites ==
  /\ Grows /\ Len(parent) + Len(child) < MaxRecords /\ Len(child) < MaxChild
  /\ \E entry \in ChildMenu, at \in 1 .. now' :
       /\ child # <<>> => at >= Last(child).at
       /\ child' = Append(child, Record(entry, at))
  /\ touched' = now'
  /\ UNCHANGED <<parent, done>>

\* What a call of this kind may come back with.
Ends(c) == UNION {entry.ends : entry \in {e \in Menu \cup ChildMenu : e.does = c.does /\ e.of = c.of}}

ResultInSession ==
  /\ Grows
  /\ \E i \in DOMAIN parent, says \in Says \ {"nothing"} :
       /\ parent[i].says = "nothing" /\ says \in Ends(parent[i])
       /\ parent' = [parent EXCEPT ![i].says = says, ![i].told = now']
  /\ UNCHANGED <<child, touched, done>>

ResultInSubagent ==
  /\ Grows
  /\ \E i \in DOMAIN child, says \in Says \ {"nothing"} :
       /\ child[i].says = "nothing" /\ says \in Ends(child[i])
       /\ child' = [child EXCEPT ![i].says = says, ![i].told = now']
  /\ touched' = now'
  /\ UNCHANGED <<parent, done>>

Completes ==
  /\ Grows
  /\ \E c \in ToSet(parent) \cup ToSet(child) :
       /\ c.does \in {"launch", "background-check"} /\ ~Refused(c) /\ c.id \notin done
       /\ done' = done \cup {c.id}
  /\ UNCHANGED <<parent, child, touched>>

\* Named folders are made on the disk, or removed.
FolderMoves ==
  /\ there' \in SUBSET DOMAIN Inside /\ there' # there /\ there \ there' \subseteq Removed
  /\ flight' = [r \in Readers |-> IF flight[r].at \in UnderWay THEN flight[r] ELSE Idle]
  /\ UNCHANGED <<records, cache>>

-----------------------------------------------------------------------------
\* _live_check_scan: the end of the parent, then of the child with what is left of
\* the budget, and what may lie outside that: nothing before the horizon was read
\* whole, and a child the parent names may not have been read at all.
Newest(s, n) == SubSeq(s, Len(s) + 1 - Min({n, Len(s)}), Len(s))
ReadOf(p) == Newest(p, Budget)
ReadAfter(p, c) == Newest(c, Budget - Len(ReadOf(p)))

Context(p, c, mtime, completed, moving) ==
  LET seen == ReadOf(p)
      seenChild == ReadAfter(p, c)
      named == \E r \in ToSet(seen) : r.does = "launch" /\ r.says = "passed"
      people == {r.at : r \in {m \in ToSet(seen) : m.does = "person"}}
      cut == (IF Len(p) > Budget THEN {Head(seen).at} ELSE {})
               \cup (IF c # <<>> /\ seenChild = <<>> THEN {mtime} ELSE {})
               \cup (IF seenChild # <<>> /\ seenChild # c THEN {Head(seenChild).at} ELSE {})
  IN [from |-> Max(cut \cup {None}), person |-> Max(people \cup {None}),
      unread |-> moving \/ (named /\ seenChild = <<>>),
      missing |-> seenChild = <<>> /\ (named \/ c # <<>>),
      children |-> seenChild # <<>>, done |-> completed]

\* _merged_check_calls: in call time, the parent's first at a tie.
Before(x, y) ==
  \/ x[1] < y[1]
  \/ x[1] = y[1] /\ x[2] < y[2]
  \/ x[1] = y[1] /\ x[2] = y[2] /\ x[3] < y[3]
Keyed(s, n) ==
  {<<s[i].at, n, i, s[i]>> : i \in {j \in DOMAIN s : s[j].does # "person"}}
InOrder(keyed) ==
  [n \in 1 .. Cardinality(keyed) |->
     CHOOSE x \in keyed : Cardinality({y \in keyed : Before(y, x)}) = n - 1]
Merged(p, c) ==
  LET order == InOrder(Keyed(p, 1) \cup Keyed(c, 2))
  IN [n \in DOMAIN order |-> order[n][4]]
Calls(p, c) == Merged(ReadOf(p), ReadAfter(p, c))

-----------------------------------------------------------------------------
First(calls) == Max({0, Len(calls) - ReplaySteps})

\* A step is the level after a call. The folders on the disk as it was asked, `on`, are
\* history: no code reads them, the properties do.
Step(level, on) == [level |-> level, on |-> on]

\* rose_from and _found_from_steps: the call the last level began at, when it is a
\* rise and the list shows that call once.
Rose(steps, calls, rows) ==
  LET n == Len(calls)
      level[i \in DOMAIN steps] == steps[i].level
      same == {i \in First(calls) .. n : \A j \in i .. n : level[j] = level[n]}
      start == Min(same)
      subject == IF calls[start].does = "write" THEN "write" ELSE "check"
  IN IF \/ level[n] = NotEnough \/ start = First(calls)
        \/ level[start - 1] = NotEnough \/ Degree(level[start - 1]) >= Degree(level[n])
        \/ Cardinality({e \in rows : e.id = calls[start].id /\ e.subject = subject}) # 1
     THEN <<>>
     ELSE <<level[start - 1], calls[start].id>>

\* Slip: a check that a fixer follows in its own command may be dropped too.
SlipEffect(t, after) ==
  LET k == {i \in Checks : after.runs[i] # t.runs[i]}
  IN IF /\ Cardinality(k) = 1 /\ after.launches = t.launches
        /\ \A i \in k : Last(after.runs[i]).result = "passed"
     THEN [check |-> CHOOSE i \in k : TRUE, seq |-> after.seq]
     ELSE [check |-> "none"]

\* _safe_head_effect: what a call added, when that can be taken out again.
Effect(t, after) ==
  LET k == {i \in Checks : after.runs[i] # t.runs[i]}
  IN IF /\ Cardinality(k) = 1
        /\ <<after.launches, after.writes, after.outside, after.writeCalls, after.changing>>
             = <<t.launches, t.writes, t.outside, t.writeCalls, t.changing>>
        /\ \A i \in k : LET run == Last(after.runs[i])
                        IN run.result = "passed" /\ ~run.background /\ ~run.fixes
                             /\ ~run.changesLater
     THEN [check |-> CHOOSE i \in k : TRUE, seq |-> after.seq]
     ELSE [check |-> "none"]

\* _drop_safe_head: a dropped run must have been its check's only one, or the check
\* would keep an earlier place in the list than a fresh read gives it.
Droppable(t, effects) ==
  \A i \in DOMAIN effects :
    /\ effects[i].check # "none" /\ Len(t.runs[effects[i].check]) = 1
    /\ t.runs[effects[i].check][1].seq = effects[i].seq
Dropped(t, effects) ==
  LET gone == {effects[i].check : i \in DOMAIN effects}
  IN [t EXCEPT !.runs = [k \in Checks |-> IF k \in gone THEN <<>> ELSE @[k]],
               !.order = Among(@, Checks \ gone),
               !.entries = [k \in DOMAIN @ \ gone |-> @[k]]]

\* _prefix_replay: calls were only added, and what was kept reaches the new window.
Grown(old, calls, ctx) ==
  /\ old # Nothing /\ old.context = ctx
  /\ IsStrictPrefix(old.marks, calls) /\ First(calls) <= Len(old.marks)

\* The tallies from call `start` on, asked where the level is.
Tallies(t, calls, start, asking) ==
  LET at[i \in start .. Len(calls)] ==
        LET added == IF i = start THEN t ELSE Add(at[i - 1], calls[i])
        IN IF i \in asking THEN Asked(added) ELSE added
  IN at
\* What each call from there to `first` added.
Effects(at, start, first) ==
  [i \in 1 .. first - start |-> Effect(at[start + i - 1], at[start + i])]

\* Slip: the base stays where it was.
SlipSlid(old, calls) == [base |-> old.base, safe |-> old.safe]

\* The base moves up to the new window, noting what each call it takes in added.
Slid(old, calls) ==
  LET start == Len(old.safe)
      at == Tallies(old.base, calls, start, {})
  IN [base |-> at[First(calls)], safe |-> old.safe \o Effects(at, start, First(calls))]

FromEnd(old, calls) ==
  LET slid == Slid(old, calls)
  IN [start |-> Len(old.marks), tally |-> old.final,
      steps |-> [i \in DOMAIN old.steps \cap (First(calls) .. Len(old.marks)) |-> old.steps[i]],
      base |-> slid.base, safe |-> slid.safe]

\* Slip: the entries kept under the old horizon stay.
SlipRebased(old, n, ctx) == [Dropped(old.base, SubSeq(old.safe, 1, n)) EXCEPT !.ctx = ctx]

\* _shifted_checkpoint: the base without the n calls no longer read; a horizon that
\* moved makes every kept entry stale.
Rebased(old, n, ctx) ==
  [Dropped(old.base, SubSeq(old.safe, 1, n)) EXCEPT
     !.ctx = ctx, !.entries = IF old.context.from # ctx.from THEN << >> ELSE @]

\* _suffix_offset: where the old calls go on as the new ones, when in one place only.
Offsets(old, calls) ==
  {n \in 0 .. Len(old) - 1 : calls # <<>> /\ IsPrefix(SubSeq(old, n + 1, Len(old)), calls)}
Shifts(old, calls, ctx) ==
  {n \in Offsets(old.marks, calls) :
     /\ Cardinality(Offsets(old.marks, calls)) = 1
     /\ [old.context EXCEPT !.from = ctx.from] = ctx
     /\ n <= Len(old.safe) /\ Droppable(old.base, SubSeq(old.safe, 1, n))
     /\ Len(old.safe) - n <= First(calls)}

\* _reusable: the leading calls of the old replay that stand, results and all.
Reusable(old, calls) ==
  Max({0} \cup {n \in 1 .. Min({Len(old.marks), Len(calls)}) :
                  SubSeq(old.marks, 1, n) = SubSeq(calls, 1, n)})

\* Slip: the level after the last call is kept too, though a longer replay may have
\* left it, and what is published is the level asked last.
SlipKept(old, calls, ctx) ==
  IF old = Nothing \/ old.context # ctx THEN << >>
  ELSE [i \in DOMAIN old.steps \cap (First(calls) .. Len(old.marks)) |-> old.steps[i]]

\* The steps a replay from nothing need not ask again; the last is always asked.
Kept(old, calls, ctx) ==
  IF old = Nothing \/ old.context # ctx THEN << >>
  ELSE [i \in DOMAIN old.steps
              \cap (First(calls) .. Min({Reusable(old, calls), Len(calls) - 1}))
          |-> old.steps[i]]

FromBase(tally, safe, steps) ==
  [start |-> Len(safe), tally |-> tally, steps |-> steps, base |-> tally, safe |-> safe]

\* _replay, _replay_seed: where a replay begins, given what was kept.
Seed(old, calls, ctx) ==
  IF Grown(old, calls, ctx) THEN FromEnd(old, calls)
  ELSE IF old # Nothing /\ Shifts(old, calls, ctx) # {}
  THEN LET n == CHOOSE m \in Shifts(old, calls, ctx) : TRUE
       IN FromBase(Rebased(old, n, ctx), SubSeq(old.safe, n + 1, Len(old.safe)), << >>)
  ELSE FromBase(Blank(ctx), <<>>, Kept(old, calls, ctx))

\* The loop over the calls from there: the level is asked after each in the window,
\* unless it is kept, and the base is the tally where the window begins. A level asked
\* now goes by the folders now on the disk, a kept one by those of its time.
Loop(seed, calls, on) ==
  LET first == First(calls)
      last == Len(calls)
      asking == (Max({first, seed.start}) .. last) \ DOMAIN seed.steps
      at == Tallies(seed.tally, calls, seed.start, asking)
  IN [tally |-> at[last],
      base |-> IF first > seed.start \/ first \in asking THEN at[first] ELSE seed.base,
      steps |-> [i \in DOMAIN seed.steps \cup asking |->
                   IF i \in asking THEN Step(LiveLevel(at[i], Listed(at[i]), on), on)
                   ELSE seed.steps[i]],
      safe |-> seed.safe \o Effects(at, seed.start, first)]

Found(end, calls, ctx) ==
  [signature |-> Moved, marks |-> calls, context |-> ctx,
   steps |-> end.steps, level |-> end.steps[Len(calls)].level,
   rose |-> Rose(end.steps, calls, Listed(end.tally)),
   base |-> end.base, safe |-> end.safe, final |-> end.tally]
Replayed(old, calls, ctx, on) ==
  IF old # Nothing /\ old.context = ctx /\ old.marks = calls THEN old
  ELSE Found(Loop(Seed(old, calls, ctx), calls, on), calls, ctx)

-----------------------------------------------------------------------------
\* for_session: the files' sizes are taken ...
Ask(r) ==
  /\ flight[r].at \notin UnderWay
  /\ flight' = [flight EXCEPT ![r] = [at |-> "asked", signature |-> Signature]]
  /\ UNCHANGED <<files, cache>>

Answered(found) ==
  [at |-> "answered", level |-> found.level, rose |-> found.rose, signature |-> found.signature,
   on |-> found.steps[Len(found.marks)].on]
Reading == \E r \in Readers : flight[r].at \in {"reading", "replayed"}

\* ... a replay kept under them is the answer ...
Hit(r) ==
  /\ flight[r].at = "asked" /\ cache.signature = flight[r].signature
  /\ flight' = [flight EXCEPT ![r] = Answered(cache)]
  /\ UNCHANGED <<files, cache>>

\* ... or one request replays, the parent read first, and the others wait for it and
\* begin again.
Lead(r) ==
  /\ flight[r].at = "asked" /\ cache.signature # flight[r].signature
  /\ flight' = IF Reading THEN [flight EXCEPT ![r] = Idle]
               ELSE [flight EXCEPT ![r] = [at |-> "reading", signature |-> @.signature,
                                           parent |-> parent, done |-> done]]
  /\ UNCHANGED <<files, cache>>

ReadChild(r) ==
  /\ flight[r].at = "reading"
  /\ LET f == flight[r]
         calls == Calls(f.parent, child)
         ctx == Context(f.parent, child, touched, f.done, FALSE)
     IN flight' = [flight EXCEPT ![r] = [at |-> "replayed", signature |-> f.signature,
                                         entry |-> Replayed(cache, calls, ctx, there)]]
  /\ UNCHANGED <<files, cache>>

\* A replay is kept when the files did not move under it; else the answer is of
\* another, that takes the read for an incomplete one and is not kept.
Uncertain ==
  Replayed(Nothing, Calls(parent, child), Context(parent, child, touched, done, TRUE), there)

\* Slip: the files' sizes are not taken again.
SlipFinish(r) ==
  /\ flight[r].at = "replayed"
  /\ cache' = [flight[r].entry EXCEPT !.signature = Signature]
  /\ flight' = [flight EXCEPT ![r] = Answered(cache')]
  /\ UNCHANGED files

Finish(r) ==
  /\ flight[r].at = "replayed"
  /\ IF Signature = flight[r].signature
     THEN /\ cache' = [flight[r].entry EXCEPT !.signature = Signature]
          /\ flight' = [flight EXCEPT ![r] = Answered(cache')]
     ELSE /\ flight' = [flight EXCEPT ![r] = Answered(Uncertain)]
          /\ UNCHANGED cache
  /\ UNCHANGED files

\* Other sessions' replays take its place in the cache.
Evict ==
  /\ cache # Nothing /\ cache' = Nothing
  /\ UNCHANGED <<files, flight>>

Next ==
  \/ SessionWrites \/ SubagentWrites \/ ResultInSession \/ ResultInSubagent \/ Completes
  \/ FolderMoves
  \/ \E r \in Readers : Ask(r) \/ Hit(r) \/ Lead(r) \/ ReadChild(r) \/ Finish(r)
  \/ Evict

Spec == Init /\ [][Next]_vars
-----------------------------------------------------------------------------
\* Every variable has its type, and a replay is kept with its whole window: a level
\* for each of the last calls and the one before them.
TypeOK ==
  /\ now \in 1 .. MaxTime /\ touched \in 0 .. now
  /\ Len(parent) + Len(child) <= MaxRecords
  /\ \A c \in ToSet(parent) \cup ToSet(child) :
       c.at \in 1 .. now /\ c.says \in Says /\ c.told \in 0 .. now
  /\ done \subseteq 1 .. MaxRecords /\ there \subseteq DOMAIN Inside
  /\ \A r \in Readers :
       /\ flight[r].at \in UnderWay \cup {"idle", "answered"}
       /\ flight[r].at = "answered" => flight[r].level \in Levels
  /\ Cardinality({r \in Readers : flight[r].at \in {"reading", "replayed"}}) <= 1
  /\ cache # Nothing => /\ First(cache.marks) .. Len(cache.marks) \subseteq DOMAIN cache.steps
                        /\ Len(cache.safe) = First(cache.marks)

\* What is kept for the files as they are is what a replay from nothing finds in
\* them, level and rise, by whichever path it was come to (live_estimate.py's prefix,
\* shifted head and kept steps). What the files do not tell is which named folders are
\* on the disk (levels.py, live_level): each kept level is that of the folders of its
\* own time, and the rise that of one time when the whole window was judged then.
ReplayIsFresh ==
  cache.signature = Signature =>
    \A found \in {Replayed(Nothing, Calls(parent, child),
                           Context(parent, child, touched, done, FALSE), step.on) :
                     step \in Range(cache.steps)} :
      LET judged == {i \in DOMAIN found.steps : cache.steps[i].on = found.steps[i].on}
      IN /\ \A i \in judged : cache.steps[i].level = found.steps[i].level
         /\ Len(found.marks) \in judged => cache.level = found.level
         /\ judged = DOMAIN found.steps => cache.rose = found.rose

\* The level kept for the files as they are is that of the named folders as they are:
\* "so the level now is the one the published record gives" (live_estimate.py's
\* opening). It is not: MCFolderGone.
LevelIsOfTheDisk ==
  cache.signature = Signature =>
    cache.level = Replayed(Nothing, Calls(parent, child),
                           Context(parent, child, touched, done, FALSE), there).level

\* A rule for "none or low", said of the transcripts alone. Later is in time, or in
\* the order of one transcript; two transcripts may leave two runs the latest.
Seen == ToSet(Calls(parent, child))
Ran(c) == Tests(c) /\ ~Refused(c)
Evidence(c) == IF c.says = "nothing" \/ c.does = "background-check" THEN c.at ELSE c.told
Later(c, d) == c.at > d.at \/ \E s \in {parent, child} : {c, d} \subseteq ToSet(s) /\ c.id > d.id
Newer(c, d) == Evidence(c) > Evidence(d)
LatestOf(k) ==
  LET runs == {c \in Seen : Ran(c) /\ c.of = k}
  IN {c \in runs : \A d \in runs : ~Newer(d, c) /\ (Newer(c, d) \/ ~Later(d, c))}
Stands(c) ==
  /\ Outcome(c) = "passed" /\ c.does # "check-then-fix"
  /\ \A d \in ToSet(parent) \cup ToSet(child) :
       (d.does = "write" /\ d.says = "passed") \/ (Changes(d) /\ ~Refused(d)) => ~Later(d, c)
Covered(c) ==
  /\ Outcome(c) = "failed"
  /\ \E k \in Checks : /\ <<k, c.of>> \in Covers
                       /\ \E p \in LatestOf(k) : Stands(p) /\ Newer(p, c)
Earned(on) ==
  LET checked == {c.of : c \in {d \in Seen : Ran(d) /\ d.does # "background-check"}}
  IN /\ checked # {} /\ Unsettled = 0
     /\ \A k \in checked : \E c \in LatestOf(k) : Stands(c) \/ Covered(c)
     /\ \A c \in Seen :
          /\ c.does = "write" /\ c.says = "passed" /\ on # {}
               => \E f \in DOMAIN Inside : c.of \in Inside[f]
          /\ c.does \in {"launch", "background-check"} /\ ~Refused(c) => c.id \in done

\* "None or low" is said when it is earned, of files that did not move: the latest run
\* of every check passed, and nothing was written and no command that may change files
\* ran after it, read or not (docs/design-reading-a-session.md, DEC-26, item 1). When
\* a named folder was on the disk as the level was asked, every write is in one.
SafeIsEarned ==
  \A r \in Readers : flight[r].at = "answered" =>
    (flight[r].level = "none-or-low" =>
       flight[r].signature # Moved /\ (flight[r].signature = Signature => Earned(flight[r].on)))
=============================================================================
