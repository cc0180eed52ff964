----------------------------- MODULE ToolReports -----------------------------
(***************************************************************************)
(* What a session's tool calls say of it (project_context.py's             *)
(* _ToolReportTally) and the live level read off them (levels.py), as      *)
(* operators: a tally is a record, Add one call's addition to it. A call   *)
(* is one Write or Edit, one shell command with at most one check in it,   *)
(* or one delegated launch; its result, when the transcript holds one,     *)
(* travels with it. How a command line is recognised as a check, a fixer   *)
(* or a read is text work, left out: `does` says what was recognised.      *)
(***************************************************************************)
EXTENDS Integers, Sequences, FiniteSets, SequencesExt

CONSTANTS Checks,      \* identities of checks: a directory and a command line
          Covers,      \* <<p, f>>: a later pass of p answers for a failure of f
          Inside,      \* the folders the saved intent names: of each, the paths in it
          Unsettled,   \* the later directions no saved words take up
          MaxEntries   \* TOOL_REPORT_MAX_ENTRIES

Stray == "stray"    \* a path outside the working directory

ASSUME ToolReportsAssumption ==
  /\ Covers \subseteq Checks \X Checks /\ MaxEntries \in Nat /\ Unsettled \in Nat
  /\ \A f \in DOMAIN Inside : Stray \notin Inside[f]

None == 0           \* no time; every recorded time is later

Deeds == {"check", "fix-then-check", "check-then-fix", "background-check",
          "change", "write", "launch"}
Says == {"nothing", "passed", "failed", "refused"}

Tests(c) == c.does \in {"check", "fix-then-check", "check-then-fix", "background-check"}
Fixes(c) == c.does \in {"fix-then-check", "check-then-fix"}
Changes(c) == c.does = "change" \/ Fixes(c)
Shell(c) == Tests(c) \/ c.does = "change"
\* A call that was refused before it ran, by a result that is an error and no exit.
Refused(c) == c.says = "refused"

\* What a result says of the check: nothing of one in the background, and a failure
\* nothing of a call in which another segment may be what failed.
Outcome(c) ==
  IF c.does = "background-check" \/ c.says = "nothing" THEN "not-recorded"
  ELSE IF c.says = "failed" /\ c.does # "check" THEN "not-recorded"
  ELSE c.says

\* _new_tally: nothing added, under what the scan could and could not read.
Blank(ctx) ==
  [runs |-> [k \in Checks |-> <<>>], order |-> <<>>, writes |-> <<>>, outside |-> 0,
   writeCalls |-> {}, launches |-> <<>>, seq |-> 0, changing |-> {}, lastChange |-> None,
   ctx |-> ctx, entries |-> << >>]

-----------------------------------------------------------------------------
\* _record_write: a path keeps its place when it is written again.
Written(writes, c) ==
  LET at == [subject |-> "write", rank |-> 2, path |-> c.of, at |-> c.at, id |-> c.id]
      again == {i \in DOMAIN writes : writes[i].path = c.of}
  IN IF c.of = Stray THEN writes
     ELSE IF again = {} THEN Append(writes, at)
     ELSE [writes EXCEPT ![CHOOSE i \in again : TRUE] = at]
RecordWrite(t, c) ==
  [t EXCEPT !.writeCalls = @ \cup {[at |-> c.at, id |-> c.id]},
            !.outside = @ + (IF c.of = Stray THEN 1 ELSE 0),
            !.writes = Written(@, c)]

\* _add_write: a write with no result yet, or an error, is an attempt alone.
AddWrite(t, c) == IF c.says = "passed" THEN RecordWrite(t, c) ELSE t

\* _add_launch.
AddLaunch(t, c) ==
  IF Refused(c) THEN t
  ELSE [t EXCEPT !.launches =
          Append(@, [subject |-> "launch", rank |-> 4, at |-> c.at, id |-> c.id])]

\* _add_runs: the one check of a command, under its identity.
RunOf(c, seq) ==
  [at |-> c.at, id |-> c.id, result |-> Outcome(c),
   evidence |-> IF c.says = "nothing" \/ c.does = "background-check" THEN c.at ELSE c.told,
   background |-> c.does = "background-check", seq |-> seq,
   fixes |-> c.does = "check-then-fix", changesLater |-> c.does = "check-then-fix"]
AddRun(t, c) ==
  [t EXCEPT !.runs[c.of] = Append(@, RunOf(c, t.seq)),
            !.order = IF Contains(@, c.of) THEN @ ELSE Append(@, c.of)]

\* _add_shell: a command that ran takes a number, changes what it may, and runs its
\* check; a refused one is none of these.
AddShell(t, c) ==
  LET launched == IF c.does = "background-check" THEN AddLaunch(t, c) ELSE t
      ran == [launched EXCEPT
        !.seq = @ + 1,
        !.changing = @ \cup (IF Changes(c) THEN {t.seq + 1} ELSE {}),
        !.lastChange = IF Changes(c) THEN c.at ELSE @,
        !.writeCalls = @ \cup (IF Fixes(c) THEN {[at |-> c.at, id |-> c.id]} ELSE {})]
  IN IF Refused(c) THEN launched ELSE IF Tests(c) THEN AddRun(ran, c) ELSE ran

\* Slip: a write forgets no entry, so a pass it ages may be listed as it was.
SlipAdd(t, c) ==
  LET added == IF c.does = "write" THEN AddWrite(t, c)
               ELSE IF Shell(c) THEN AddShell(t, c) ELSE AddLaunch(t, c)
  IN IF added.runs # t.runs THEN [added EXCEPT !.entries = << >>] ELSE added

\* add: the entries kept for the listing fall with any run, write or change.
Add(t, c) ==
  LET added == IF c.does = "write" THEN AddWrite(t, c)
               ELSE IF Shell(c) THEN AddShell(t, c) ELSE AddLaunch(t, c)
  IN IF <<added.runs, added.writeCalls, added.changing>> # <<t.runs, t.writeCalls, t.changing>>
     THEN [added EXCEPT !.entries = << >>] ELSE added

-----------------------------------------------------------------------------
\* _latest: the run whose evidence is newest, call order between equals.
Latest(h) ==
  h[CHOOSE i \in DOMAIN h : \A j \in DOMAIN h :
      h[j].evidence < h[i].evidence \/ (h[j].evidence = h[i].evidence /\ j <= i)]

\* The latest run of each check that did not only run in the background.
Lasts(t) ==
  [k \in {c \in Checks : \E i \in DOMAIN t.runs[c] : ~t.runs[c][i].background}
     |-> Latest(t.runs[k])]

\* _histories: a failure joins the newest pass that covers it.
CoveredBy(last, k) ==
  {p \in DOMAIN last : /\ <<p, k>> \in Covers /\ last[p].result = "passed"
                       /\ last[k].result = "failed"
                       /\ last[p].evidence > last[k].evidence}
Joins(last, k) ==
  {f \in DOMAIN last : k \in {p \in CoveredBy(last, f) :
     \A q \in CoveredBy(last, f) : last[q].evidence <= last[p].evidence}}
FailedEarlier(t, last, k) ==
  \E f \in Joins(last, k) \cup {k} : \E r \in ToSet(t.runs[f]) :
    r.result = "failed" /\ r # last[k]

\* _check_entry. `before_last_change` goes by recorded time, `changed_after` by the
\* order of the commands, `read_incomplete` by what the scan did not read.
CheckEntry(t, run, earlierFailed) ==
  [subject |-> "check", id |-> run.id, at |-> run.at, evidence |-> run.evidence,
   result |-> run.result,
   aged |-> run.fixes \/ \E w \in t.writeCalls : w.at >= run.at /\ w.id # run.id,
   changedAfter |-> run.changesLater \/ \E s \in t.changing : s > run.seq,
   incomplete |-> run.result = "passed" /\ (t.ctx.unread \/ run.at < t.ctx.from),
   rank |-> CASE run.result = "failed" -> 0
              [] run.result = "passed" -> 1
              [] OTHER -> IF earlierFailed THEN 0 ELSE 3]

\* The entries of the checks that stand, those kept from the last time they were asked.
EntriesOf(t, last) ==
  [k \in {c \in DOMAIN last : CoveredBy(last, c) = {}} |->
     IF k \in DOMAIN t.entries THEN t.entries[k]
     ELSE CheckEntry(t, last[k], FailedEarlier(t, last, k))]
Asked(t) == [t EXCEPT !.entries = EntriesOf(t, Lasts(t))]

\* The members of s that are in S, in their order.
Among(s, S) ==
  LET places == {i \in DOMAIN s : s[i] \in S}
  IN [n \in 1 .. Cardinality(places) |->
        s[CHOOSE i \in places : Cardinality({j \in places : j < i}) = n - 1]]

\* _ranked and entries, of a tally whose entries were asked for: the checks, the paths
\* and the launches, of which the newest of the first ranks are listed.
Candidates(t) ==
  LET checks == Among(t.order, DOMAIN t.entries)
  IN [i \in DOMAIN checks |-> t.entries[checks[i]]] \o t.writes \o t.launches

Ahead(row, i, j) ==
  \/ row[i].rank < row[j].rank
  \/ row[i].rank = row[j].rank /\ row[i].at > row[j].at
  \/ row[i].rank = row[j].rank /\ row[i].at = row[j].at /\ i < j
NewestOf(row) ==
  {row[j] : j \in {i \in DOMAIN row :
                     Cardinality({n \in DOMAIN row : Ahead(row, n, i)}) < MaxEntries}}
Listed(t) == NewestOf(Candidates(t))

-----------------------------------------------------------------------------
NotEnough == "not-enough"
Scale == <<"none-or-low", "medium", "high", "extreme">>
Levels == ToSet(Scale) \cup {NotEnough}
Degree(l) == CHOOSE i \in DOMAIN Scale : Scale[i] = l

Counted(t, result) == Cardinality({k \in DOMAIN t.entries : t.entries[k].result = result})

\* Slip: only recorded times order a pass and a later command.
SlipFloorHolds(t, passes) ==
  /\ Counted(t, "failed") = 0 /\ Counted(t, "not-recorded") = 0
  /\ Counted(t, "passed") > 0 /\ Counted(t, "passed") <= Cardinality(passes)
  /\ \A l \in ToSet(t.launches) : l.id \in t.ctx.done
  /\ \A e \in passes : ~e.incomplete /\ t.lastChange <= e.at
  /\ Unsettled = 0

\* _live_floor_blockers: nothing blocks "none or low".
FloorHolds(t, passes) ==
  /\ Counted(t, "failed") = 0 /\ Counted(t, "not-recorded") = 0
  /\ Counted(t, "passed") > 0 /\ Counted(t, "passed") <= Cardinality(passes)
  /\ \A l \in ToSet(t.launches) : l.id \in t.ctx.done
  /\ \A e \in passes : ~e.changedAfter /\ ~e.incomplete /\ t.lastChange < e.at
  /\ Unsettled = 0

\* Slip: the disk is not looked at.
SlipWeighed(writes, on) == {f \in DOMAIN Inside : \E e \in writes : e.path \in Inside[f]}

\* The named folders that count: a directory on the disk as the level is asked (`on`),
\* or one a listed write is in.
Weighed(writes, on) ==
  {f \in DOMAIN Inside : f \in on \/ \E e \in writes : e.path \in Inside[f]}

\* _folder_share: a write the list dropped counts as outside, and with no folder that
\* counts nothing does.
WrittenOutside(t, writes, on) ==
  LET folders == Weighed(writes, on)
  IN IF folders = {} THEN 0
     ELSE Cardinality({e \in writes : \A f \in folders : e.path \notin Inside[f]})
            + t.outside + Len(t.writes) - Cardinality(writes)

\* failed_checks_after_person.
Anchored(t, e) ==
  e.result = "failed" /\ t.ctx.person # None /\ e.evidence > t.ctx.person

LevelOf(t, passes, anchored, writes, outside) ==
  LET mostOutside == outside * 2 > Len(t.writes) + t.outside
      failing == \E e \in anchored : ~e.aged /\ \A w \in writes : w.at < e.at
  IN IF failing /\ mostOutside THEN "extreme"
     ELSE IF failing \/ mostOutside THEN "high"
     ELSE IF (\E e \in passes : e.aged) \/ outside > 0 \/ anchored # {} THEN "medium"
     ELSE IF FloorHolds(t, passes) THEN "none-or-low" ELSE NotEnough

\* live_level, over the checks and writes of the list, the whole scan's counts and the
\* named folders on the disk.
LevelOver(t, checks, writes, on) ==
  LevelOf(t, {e \in checks : e.result = "passed"}, {e \in checks : Anchored(t, e)},
          writes, WrittenOutside(t, writes, on))
LiveLevel(t, rows, on) ==
  LevelOver(t, {e \in rows : e.subject = "check"}, {e \in rows : e.subject = "write"}, on)
=============================================================================
