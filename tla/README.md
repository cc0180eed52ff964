# Compass, verified: the server's shared state in TLA+

Compass (the repository's `src/compass/`) is a local dashboard server: it reads what coding
assistants leave on disk, listens to their hooks, publishes one board of sessions over HTTP, and
runs model calls ("readings") on a reader's request. It is a threaded Python program: every HTTP
request has a thread, every reading job has one, a coordinator thread decides when to collect
again, and they share memory under a dozen small locks and files under a state directory. The
text it parses is not what is hard about it; the order of its steps is. This directory models
those steps in TLA+, checks them with TLC on small instances and proves the main facts with
TLAPS for every value of the constants.

Paths below are relative to `src/compass/skills/compass/compass_runtime/` unless they start with
`src/`.

Contents: [the system](#1-the-system) · [modules and code](#2-modules-and-the-code-they-model) ·
[runs](#3-what-the-runs-check) · [fairness](#4-fairness) ·
[disagreements](#5-where-the-code-and-its-own-words-part) · [proofs](#6-what-is-proved) ·
[limits](#7-what-is-not-modelled) · [plan](#8-plan)

## 1. The system

### How the parts interact

```
 hooks (other processes) --POST /api/event--> Observation.submit --> marks in memory
                                                   |                   end ops --> ends.py file
                                                   | dirty + notify
 asking session --POST /api/ask, poll--> AskRegistry <--sweep-- any collection
                                                   |
                                                   v
                          coordinator thread (observation._run/_due/_collect)
                                                   |
 page --GET /api/data--> collect_json: memo, collect lock, collect(), Snapshot.publish
 page --GET /api/stream<-- StreamRegistry mailbox <--+
 page --POST save--> annotation store, then Snapshot.clear
 page --POST reading--> reading_jobs.launch --> job thread --> policy ledger --> supervised CLI
 stop --> kill_all, close_all, decline_all, exit without joining the job threads
```

A "collection" (`aggregate.Application.collect`) reads every store and every harness's files
into one JSON body. At most one runs at a time (`collect_memo_lock`); its body is kept inside a
freshness floor (`collect_memo_sec`) and numbered by a revision.

### Inventory

Each part: its state, its operations, what is hard, what makes it correct. The last column is
the module that models it, or its place in the plan.

| Part | State | Operations | What is hard; what must hold | Where |
|---|---|---|---|---|
| End store, `ends.py`, and the end lane of `observation.py` | `_ended` in memory, `_end_ops` queue, `_end_flushing`, the file | hook events; `_flush_end_ops`; `record`, `lift`; load at start | writes leave the lock and are drained by whichever thread comes; redelivery; save failures; two caps. No write stranded, a stored stamp never goes back, file and memory agree | `EndStore` |
| Reading jobs, `reading_jobs.py`; `reading.py` (`Job`, slot); `supervise.py`; `reading_policy.py` ledger | one slot a session, `Job` flags, the marker file, the charge, the live CLI groups, the stored outcome | press, Cancel, the job thread's steps, the stop, recovery | three files written one after another and a kill by any of three; death at any step. A charge is never lost nor counted twice, a Cancel told is a Cancel done, no CLI outlives the stop | `ReadingJobs` |
| Ask lane, `asks.py` and its routes | table, a one-slot outcome per question with its own condition, sweep stamps | register, poll, answer, withdraw, sweep, decline at the stop | operations take a row out under one lock and settle it under another. No session waits on a row nobody holds; a click told as counted is the outcome | `Asks` |
| Snapshot, `snapshot.py`; `collect_json` | kept bodies, counter, generation; the collect lock | publish, current, age, clear | a save's clear beside a running collection. A page reads its own save; revisions order bodies | `Publication` |
| Stream registry, `stream.py` and `_stream` | clients with a one-slot mailbox, a cap | register, publish, wait, release, close | listed under the lock, offered outside it. A connected page learns of the newest body | `Publication` |
| Coordinator, `observation.py`; `probe.py` | dirty and collected generations, urgent, coalescing window, floors, last revision | submit, note_ask, `_due`, `_collect`, probe | events land during a read; reads fail, are answered from the memo or crossed by a clear. Every event is retired by a body that carries it, in the end | `Observation` |
| Annotation store, `annotations.py` | one entry a session on disk, shared by every dashboard of a home; each dashboard's copy and its generation | save, settle, mark, clear, record outcomes, refresh, evict, sweep | several dashboards and threads build on one entry; a clear is one act over two stores; a read races a save. Nothing is overwritten unseen, a number names one text, withdrawn words stay gone | `Annotations`; what a job needs of it in `ReadingJobs` |
| Lifecycle, `lifecycle.py` | per-port state file, the spawned daemon | start, `--stop`, sweep of stale files, serve | files of dead or restarted servers; a new server on the port meanwhile | order of `serve` in `ReadingJobs`; `Lifecycle` planned |
| Dismissals, `dismissals.py` | a mark per session in a file every dashboard shares, this dashboard's copy | dismiss, restore, refresh | save outside the lock that loaded; a refresh assigns the file over the copy. A row off the board raises no banner | `Dismissals` |
| Unasked readings, `unasked.py`, `departures.py` | one board slot, two caps, the departure rows | consider a row, claim, read, record, give back | two slots taken and given back under two locks beside a reader's press; caps counted before the claim. One unasked reading on the board, slots always given back, spending bounded | `Unasked`; the rows' words in `Annotations` |
| Quota, `quota.py` | vendors in flight, poll floor | request a fetch, finish | the gate's release is the spawned thread's | planned |
| Focus and git probes, `focus.py`, `git_status.py` | in-flight gates | ask, fill | as quota's | planned with it |
| Overlays, `events.py` | none (a reduction over marks) | parse, reduce | precedence between marks and rows | planned as operators |
| Notifications, deliveries, reach: `notifications.py`, `deliveries.py`, `reach.py` | standing hooks, a generation and a last state per session, two floors | a hook's request, a SessionEnd, the collection's judgement | two lanes decide on one state, each with reads before its hold; two floors. An ended session stays silent, a wait held back is raised later | `Alerts` |
| Tripwires, `tripwires.py` | one stored condition a workflow | evaluate | none beyond a write | after the stores |
| Corrections, `correction.py`, `copied_corrections.py` | a digest file | compose, remember | as the annotation store's | after it |
| History, `history.py`, `semantic_history.py`, `state.py` | bounded local files | append, trim | read-modify-write | not planned |
| Harness collectors, `collectors/`, `transcripts.py`, `records.py` ... | none of their own | read other programs' files | parsing | the order of `claude.py`'s reads in `Alerts`; the rest not planned |
| Tool reports, levels, live estimate: `project_context.py`, `levels.py`, `live_estimate.py` | a tally of a session's calls; the replay kept per session, one replay in flight | read two transcripts from their ends, add the calls, ask the level, keep and reuse the replay | transcripts grow while read; a kept replay is reused by three paths. Reuse answers as a fresh replay would; "none or low" is earned | `ToolReports`, `LiveEstimate` |
| Aggregation, `sessions.py`, `record_pages.py`, ... | none | pure computations | boundaries | not planned |
| Spacedock, `spacedock.py` | none | read project files | parsing | not planned |
| Runners and routes, `observer.py`, `reading_route.py` | none | exec a CLI, parse its reply | what a call can end in | their statuses in `ReadingJobs` |
| HTTP server, `http_api.py` | none beside the above | one handler a route | the order of a handler's calls | the state-changing part of the routes above |
| CLI and configuration, `cli.py`, `config.py`, prototypes | options | parse | none | limits are constants of the modules |
| Hooks, MCP server, page: `event_hook.py`, `notify_hook.py`, `mcp_server.py`, `frontend/` | their own processes | requests | any order, repeated, lost | the inputs of the modules |

`PROJECT.json` has the same list with the files of each part, and the hazards: every place in
this code where an order of steps, a failure or a limit is hard to reach with a test, at its
line, with the properties that cover it or the reason none does yet.

## 2. Modules and the code they model

Conventions. One action is one hold of a lock, one write of a file, or one other step the rest
of the program can see on both sides of; a handler that takes two locks is two or more actions,
and a thread between them is a program counter. History variables (named so in the module) exist
for the properties alone. Operators named `Slip...` (in `EndStore`, a name that says the slip)
are plausible wrong variants of the operator below them, used to show that a property can fail;
no next-state relation uses one. Times are ticks, names and texts are model values, bodies are
the version of the stores they read.

### EndStore: `ends.py` and the end lane of `observation.py`

Handler threads (`pc`) decide under the coordinator's lock (`SessionEnded`, `SessionInUse`),
then walk `_flush_end_ops`: `EnterFlush` (leave at once when somebody drains), `PopOp` (pop or,
finding the queue empty, lower the flag in the same hold), `WriteOp` or `WriteRaises` (outside
the lock), `Finally` (the second lowering of the flag, `observation.py:719`). `Written` is what
`record` and `lift` may leave on disk: a save that fails leaves the old file; a full store drops
its oldest (`_bounded`). `ForgetMark` is the expiry in `note_rows`. `Restart` loses the memory
and loads the file. Stamps come in any order, so redelivery and delay need no action of their
own. The names of its initial state, its steps and its types begin with `End`: one module of
proofs extends this module and Observation, the two halves of the coordinator.

### ReadingJobs: `reading_jobs.py`, `reading.py`, `supervise.py`, `reading_policy.py`

A job's thread passes the stages of `_run`: `Compose` (may come back with no call), `Look` (the
guard's refusal or the runner already closed), `Commit` (the marker, `before_reserve`),
`Reserve` (the charge, under the runner's lock), `Spawn`, `HandOver` (`Hooks.spawned`: a Cancel
that found no group is carried out here), the wait, `Reap`, `Stopped` and `Seal` (`_outcome`,
`seal_job`, `_cancelled`), `Record` (the store), `Finish` (the marker goes or is told why it
stays), `End`. Beside it: `PressCancel`, `CancelMarks`, `CancelKills` (a request thread's three
steps), `Discard`, the stop (`Close`, `KillNext`, `Exit`, which waits for no job), `Crash`,
`Restart`, and recovery, marker by marker (`Recover`, `RecoverFails`). `Faults` says which
writes may fail: "marker", "store", and "doubt" (the ledger cannot be read at recovery, so the
job is presumed charged). The CLI (`CliExits`) is external: it ends when it likes or never.

### ReadingAccount: what a reader is promised of a press

The abstract specification of the reading jobs, in six variables: a job is idle, running,
committed to its charge, owed (its thread gone, its recovery to come) or over; and it has been
charged, cancelled, told an outcome of, refused one, or doubted (counted though nobody can say).
Nothing passes the commit point (`Commit`) after a Cancel; an outcome is told once and counts the
charge (`Tell`); the thread's own knows what was charged (`Answer`), a later start's is never a
reading (`Recover`); and a job is over only when its charge was told or refused (`Leave`).
`Honest` is what follows for the bill. ReadingJobs instantiates it as `Account`, `Phase` reading a
job's phase off its stage and its marker; `OneAccount` is the refinement. It is a theorem and not
a run: the abstract state is a function of what the runs check already.

### Asks: `asks.py` and the ask routes

A question is registered in two steps (`Register` sweeps, `Decide` stores or refuses at the
limit), is answered in two (`Fetch` under the table lock, `Resolve` under its own), and leaves
the table by withdrawal, by the stop or by a sweep (`Pop`, `Sweep`) before it is settled
(`Decline`, `Expire`). `Settled` is the one-slot rule of `PendingAsk._settle`. `Poll` and `Wake`
are the asking session's long poll: it holds the question, in the table or not, and releases its
row before it replies.

### Publication: `snapshot.py`, `stream.py`, `aggregate.collect_json`

A request walks `Look`, `Take` (the two separate holds of `_fresh_snapshot`), `Lock`, both again
under the lock, `Generation`, `Collect` (or `CollectFails`), `Publish`, and, when the body was
kept, `List` and one `Offer` per client. A save is `Save` (the file) and later `Clear`, as the
routes do it. A stream connects under the cap, is greeted, and sends what its mailbox holds.
What the stores hold is a version number; a body is the version its collection read, so "older
stores" is a comparison.

### Observation: the coordinator

`Event`, `Asked` and `StoreChanges` make something to show; the worker goes `Due` (`_due`'s
reasons in its order), `Capture` (the hold that copies the generations and drops the window and
the exemption), `Probe` (a tick's stat check, skipped when a reconcile is due), one collection,
`Mark`. Request threads collect beside it through the same `Reuse`, `Lock`, `Read`, `Publish`,
and `ReadFails` for either. Publication has the fine steps of a collection and no coordinator;
here a collection is coarser (`Reuse` is one step, a body is whose it is and how old) and the
coordinator is exact. Timers stop at the last value a comparison can tell apart, so the clock
never ends and liveness means what it says.

### AskOutcome: what the lane promises

The abstract specification of the ask lane: a question is held, comes to one outcome for good,
and its session hears once, the outcome or "unknown id", the latter only when the lane has let
the question go; a click told as counted is that outcome (together `Safe`); and a question
asked is settled. `OneTruth` is what follows from `Safe` for a reader and a session. `Asks`
instantiates it (`Outcome == INSTANCE AskOutcome WITH held <- ..., asked <- ...`) and
`Promise == Outcome!Spec` is the property: every step of the nine-action lane is a step of the
five-action one or a stutter, and its fairness implies the abstract one's.

### Annotations: `annotations.py`, and the rows of `departures.py` that quote it

One session's entry: `file` is the store's, `copy` each dashboard's. A mutator is one hold of
the store's locks (`_locked_store`): it reads the file (`Latest`), decides, sets the copy and
writes (`Commit`, the copy first, whether or not the file takes it). `Save` is `annotate` with
its guard (`Stale`) and its repeat of the words already stored; `Settle`, `Mark`, `Clear` the
others. A clear's second half is `Withdraw`, a later write of another store. `Press`, `Record`
and `Leave` are a reader's reading as the entry sees it; `Sample`, `Read` and `Publish` a
collection's three steps (jobs sampled, file read outside every lock, the copy assigned unless
its generation moved), and `Publish` may start a reading of the unasked lane, whose row is
`LaneRecord`. `Evict` is another session's write over the cap, `Forget` the sweep of discard
records, `Spoil` and `Mend` a file that cannot be read whole for a while.

### RevisionLog: what the annotation store promises

The abstract specification of the store, however many dashboards share its file: the words ever
saved for a session are one `log`, a revision's number its place there; what stands `beside` live
words (what was settled, read of them, and which readings ended) only grows; and a board shows a
revision of the log, one that this store refused (`forks`), or withdrawn words, never one from
before its own last write (`saved`). All of it until the entry lapses. `Honest` is what follows at
a board. Annotations instantiates it as `Log`, the log being what the file ever held (`Revised`,
from `named`); `OneLog` is the refinement.

### Unasked: `unasked.py`, `departures.py`, and the slot of `reading.py`

A collection walks its rows (`Begin`, `Row`, `Publish`); a candidate goes through `Gate` (the
board's slot, under `unasked_lock`), `TakeSlot` (the session's reading slot, under another) and
`Spawn` or `SpawnFails`, and gives back what it took in two holds (`CollLaneBack`,
`CollSlotBack`). A worker reads and records (`Check`, or `Withheld`), then gives both back
(`LaneBack`, `SlotBack`). The reader's `Press` and `End` share the slot. The caps are counted
(`Counts`) from the rows, once a collection; a reading leaves one row, or one for each thing
that departed (`Rows`); rows leave the day (`DayPasses`) and a full store drops its oldest
(`Drops`). `stolen` notes a slot given back while its holder is at work: see section 5.

### ToolReports: `_ToolReportTally` and `levels.live_level`

Pure operators. A tally is a record; `Add` is one call's addition (`AddWrite`, `AddShell`,
`AddRun`, `AddLaunch`), `Asked` the entries the listing asks for and keeps, `Candidates` and
`NewestOf` the ranked list, `LiveLevel` the level read off list and tally. What a command line
*is* (a check, a fixer, a change, a read) is recognised by text and arrives as `does`. A folder
the saved intent names counts only when it is a directory on the disk as the level is asked
(`on`) or a listed write is in it (`Weighed`); when none counts, nothing is outside
(`WrittenOutside`). `Inside` gives each named folder its paths, `Unsettled` the number of later
directions the saved words do not take up: words and directions are of the cache's key, so one
kept replay has one of each.

### LiveEstimate: `live_estimate.py`

`SessionWrites`, `SubagentWrites`, their results and `Completes` are the two transcripts growing
(external). A request is `Ask` (the files' sizes), `Hit`, `Lead` (one replay at a time, the
others wait), `ReadChild` (both files have been read from their ends, within the budget) and
`Finish` (the sizes taken again: kept, or answered as a moving file). `Replayed` is `_replay`
with its three ways to start from what was kept: its end when calls were only added (`Grown`,
`FromEnd`), its base without the head that left the window (`Shifts`, `Rebased`), or nothing
but the steps that still stand (`Kept`). `Loop` is the loop over the calls from there, `Tallies`
the tally after each of them and `Effects` what each call before the window added. `Merged`
puts the calls of both transcripts in one order (`Before`). `there` is the named folders on the
disk, which `FolderMoves` makes (and removes, those in `Removed`): it is an input of every level
asked, and of no signature, mark or context. A `Step` is a level with the folders it was judged
by, `on`; that second half is history, which no step of the code reads.

### Dismissals: `dismissals.py`

A mark is the session's clock at the time it was made, and stands until the session moves past
it (`Holds`). `Hold` is `dismiss` or `restore` up to the end of its hold of the lock (the file is
loaded inside it), `Save` the write after it, which may fail and is then told to the reader.
Requests of another dashboard share the file and no copy. `Loads` is what `load` may answer: the
file, or nothing when it cannot be read.

### Alerts: `notifications.py` and the collection that judges waits

Alerts EXTENDs Dismissals, because both of its lanes ask the marks first. Sessions (external)
`Ask`, `Answer`, `Repeat` a notification and `End`; an `End` is a SessionEnd through
`clear_session`. The hook lane is a request: `Arrive` (the generation, then the transcript) and
`Apply` (the hold, in the order of its tests). The collection goes `Load` and `Assign`
(`dismissals.refresh` around its lock, then `hook_generations`), `Read` (the records, with the
generation `claude.py` samples), `Retire` (`current_hook`, and the row's state with the second
look at the generation) and one `Judge` a row (`maybe_popup`). A banner is spent in the hold that
decides it (`Raise`), so a raise is that step. Ages stand for times and stop where no comparison
tells more apart; `Tick` does not fall inside a collection, which is shorter than a tick.

### How the modules compose

They are joined by what they share in the program, at these seams: the ask registry's count
is `asking` in Observation, whose collections are `BoardSweep` in Asks; the clears that saves
and asks make are `Clear` in Publication and Observation; the outcome a job stores (`Record` in
ReadingJobs) is `Record` in Annotations and one of Publication's `Save`s; the lane's reading is
`Check` in Unasked and `LaneRecord` in Annotations; a press is `Press` in all three, each with
the part of it that its module is about; a dismissal is `Click` in Alerts and a `Save` and its
`Clear` in Publication. ToolReports is EXTENDed by LiveEstimate, Dismissals by Alerts. Each side of a
seam is left free to act at any time in the other module, so what is shown in one holds beside
whatever the other does.

## 3. What the runs check

All passing runs are exhaustive over their instance. Deadlock checking is off because in every
one the bounded inputs run out and the system then rests (`Observation`'s clock ticks on, and
there the check would say nothing). State counts are of the distinct states TLC found.

| Run | Instance | States | What it shows |
|---|---|---|---|
| `end_store` | 2 threads, 2 sessions, 2 stamps, caps 1, failing and raising stores, 3 events, 1 restart | 68 174 | `EndTypeOK` with both caps; `NoStrandedOp`: a queued write always has a thread that will come to it; `EndNeverGoesBack`; `QueueDrains` |
| `reading_jobs` | 2 jobs on one session, all faults, 2 deaths | 2.06 M | `ChargeKept`, `CountEqualsCharge`, `CancelHonoured`, `KillOwed`, `OutcomeSays`, `StopLeavesNoCli`, `OnePerSession` |
| `asks` | 2 questions, budget 1, 2 clickers, a valid and an invalid index, clock to 3 | 1.03 M | `Promise` (the lane implements `AskOutcome`, liveness included), `NoOrphan`, `SettledKept` |
| `publication` | 2 requests, 2 variants, 2 saves, 3 GETs, 2 pages at a cap of 1 | 3.21 M | `ReadYourWrites`, `RevisionsOrdered`, `StreamCurrent`, the cap |
| `observation` | 1 source and the ask lane, 1 request thread, one each of event, question, change, save, a page connected | 254 119 | `RetiredWhenRead`, `EventRetired`, `AllShown` |
| `annotations` | 2 dashboards, a page on each, 2 texts, 2 readings, the lane, 1 collecting dashboard, every fault, 4 events | 3.50 M | `NoSilentOverwrite`, `NumbersNameOneText`, `CopyKeepsSave`, `NothingForgotten`, `MarkOnShown`, `WithdrawnStayGone`, `NeverNeither` |
| `unasked` | 2 sessions, caps, 1 press, every fault, a restart | 1.74 M | `OneUnasked`, `SlotShared`, `SpendBounded`, `LaneFrees` |
| `live_estimate` | 3 records of 8 kinds in 2 transcripts, a budget of 2, a named folder made at any time, 1 request | 1.81 M | `ReplayIsFresh`, `SafeIsEarned` |
| `alerts` | a Claude session and one of another harness, a hook request, a click here and one on another dashboard, both disk faults, 3 events | 1.39 M | `EndedStaysSilent`, `BoardAgrees`, `DelayedNotLost` |
| `end_order`, `retired_early`, `gate_twice` | see section 5 | | a sentence of the code the code does not keep |

The type invariants of ReadingJobs, Annotations, Unasked and Alerts are not in the runs: they are
theorems (section 6). One configuration beside the table is for liveness and is run by hand:
`tlc -config MCReadingLive.cfg MCReadingJobs.tla` (one job, all faults, two deaths, 14 401
states) shows `CancelEndsJob`, the CLI never ending by itself; `KillOwed` is the safety half of
it, and is proved.

Why the bounds are enough for what they are for:

- **EndStore.** Every hazard is between one thread draining and one arriving; two sessions at
  caps of one make the refusal in memory and the eviction on disk both happen. A third thread
  matters only to `end_order`, which has it (one that cleared the flag, one that found it clear,
  one that slips in between).
- **ReadingJobs.** The jobs of different sessions share only the runner's closed flag and kill
  list; two on one session contend for the slot as well. Two deaths: one to leave a marker, one
  during its recovery.
- **Asks.** One place for two questions makes the budget refuse; deadline and retention of one
  tick put every order of expiry, click and poll inside a clock of three. Two clickers race.
- **Publication.** Two requests suffice for every race at the lock and at the generation; three
  GETs let one start after a reply. Two saves separate "newest clear" from "newest save".
- **Observation.** One event, one question, one change and one save, in every order against two
  collectors. The coalescing window, the floor and the period are one tick each, and a reconcile
  two, so each is both running and over at each step. The ask route clears too, and its clear is
  beyond `MaxClears`.

- **Annotations.** Two dashboards are what one file and one copy race with; one session, since
  a write to another session meets this one only as `Evict`. Four events (saves, settlements,
  marks, clears, presses, the lane's start, eviction, sweep and a spoiled file, in any order)
  with all the steps they set going are enough for a discard, a rebirth and a reading of the
  words before it. Only one dashboard's collection is watched: a second reads no more than a
  second page would draw.
- **Unasked.** Two sessions contend for the board's slot, one of them with a press for the
  reading slot. `Criteria` is one in the run, a finding leaving one row: two multiply the
  counts (beyond 15 M states) and nothing else, and the theorem covers every value.
- **LiveEstimate.** A budget of two records of three slides the window over every pair of
  kinds; the level is asked after the last record and the one before. The menu holds a kind for
  each rule of the level: a check that passes, one a fixer follows, one that fails and is
  covered by the other, a write in the named folder (the subagent's) and one off it (the
  session's), a change, a launch. The folder is there from the start or is made at any time
  (`FolderMoves`), so either write meets it made and not made; that it also goes again
  (`Removed`) is in `MCFolderGone.cfg` and in the theorems. One line past the replay that is kept
  (`MaxStale`) and one under a request (`MaxBehind`) take it by each of the three ways. No
  later direction is unsettled (`Unsettled`), or "none or low" would never be said. A launch ends
  by its completion and not by a result of its own, so a subagent is missed by its file alone
  and not by its name; a launch's result, a background check and a refused call are in the
  modules, and in the theorems, and not in the menu.
- **Alerts.** Each lane needs one actor of its own (a collection, a hook request, a click on
  either side), and the machine-wide floor a second session to contend for it. The windows of
  60, 15 and 90 seconds are 2, 1 and 2 ticks of about thirty, the coordinator's period; where
  the order of the first and the last matters (`gate_twice`) the last is 3. Three events, of
  sessions, readers and the hour, reach a wait, what crosses it and a SessionEnd with all the
  steps they set going; four pass 4.6 million states. With more contenders than the floors have
  room for in one window a wait could starve, so `DelayedNotLost` is about one contender.

Every property is also checked to be breakable: for each, `PROJECT.json` names one wrong variant
(`mutants`) of an operator that models code, under which the same run fails.

## 4. Fairness

Safety runs assume none. The liveness runs assume, and only assume:

- **A handler thread in the drain loop goes on** (`EndStore`): it blocks on nothing but short
  locks and its own write. `QueueDrains` allows one exception, a write that raised out of the
  drain: the flag is then lowered and the queue waits for the next event, which nothing obliges
  to come.
- **A job's thread and its canceller's go on while the process is up** (`ReadingJobs`). The
  CLI's own exit and the call's limit are *not* fair: `CancelEndsJob` (run by hand, section 3)
  must not lean on them.
- **Calls that began return, and the clock runs** (`Asks`; it is what makes `Promise`'s
  fairness of `Settle` hold), and a question that is open forces collections: `_due` has it as
  a reason of its own (`observation.py:1148`), and each collection sweeps. Clicks, polls, withdrawals and further questions are not fair.
- **A worker of the lane comes to its end, and a collection's claim too** (`Unasked`):
  `produce` runs under a deadline and `_run` gives back in a `finally`. Collections, presses and
  the reader's job are not fair.
- **The clock and the worker run, and each collection that began ends** (`Observation`). Two
  strong-fairness terms are for the worker alone: it is not overtaken at the collect lock for
  ever (a `threading.Lock` promises no order, but requests pause and the body they publish
  serves it too), and not every read of its raises (a harness that fails is caught inside the
  collection; what raises out of it is meant to be exceptional). No request and no save is made
  to arrive.

- **Time passes, and a collection that may take its next step takes it** (`Alerts`): the
  coordinator reconciles every thirty seconds without a cause. The clock is strongly fair only
  because a tick does not fall inside a collection. Hooks, clicks and sessions are not fair.

## 5. Where the code and its own words part

Three runs check one sentence each of the code's own comments and find it broken. Each is an
ordinary interleaving or a late delivery, each trace is a few steps, and the findings in
`PROJECT.json` quote the lines.

- `end_order` (`DiskFollowsDecisions`, `observation.py:719`): the drain flag is cleared a second
  time, perhaps another thread's; two threads then drain at once and the file can end in the
  wrong order.
- `retired_early` (`NotRetiredEarly`, `observation.py:1192`): a body another thread read before
  the event is taken for a collection of the worker's own, and the event is retired though no
  body shows it. `AllShown` holds all the same when a page is on the stream: the reconcile
  brings it later. Without one, the next request does.
- `gate_twice` (`OneGateOnePopup`, `notifications.py:525`): the hook raises a wait at once; the
  row is still "working" while its record is fresh, 90 seconds long, and when it turns at last
  the 60 seconds of the session's own floor are over, so the collection raises the same wait
  again. `maybe_popup` says the shared key is there so that this does not happen.

Five more are kept as configurations to run by hand, each a sentence the code does not keep:

- `tlc -config MCAskLost.cfg MCAsks.tla` (`AnswerSurvives`, `asks.py:248`): a click told as
  counted lands in a question a sweep has already taken out; the asking session hears "unknown
  id". `AskOutcome` allows it, which is why `Promise` holds.
- `tlc -config MCMarkUnsaved.cfg MCAlerts.tla` (`MarkHoldsThisRun`, `dismissals.py:195`): a mark
  the file did not take lives in the copy alone, and the next collection assigns the file over
  it. The row is back within thirty seconds, where `http_api.py:1708` says that an unwritable
  home still hides it for this run.
- `tlc -config MCLateStart.cfg MCEndStore.tla` (`MemoryEndsStored`, `observation.py:470`): a
  session_started that memory refuses as too old still lifts the stored end.
- `tlc -config MCSlot.cfg MCUnasked.tla` (`OneReadingPerSession`, `unasked.py:295`): `_claim`,
  refused the session's reading slot, calls `_release`, which gives back both slots, the
  reader's included. The slot a press holds is then free while its reading runs, and a second
  press or the lane may take it ("One reading in flight per session", `reading.py`, `claim`).
  What the run `unasked` and the theorem `OneReading` state is the rest: without such a
  give-back, one reading a session. `OnePerSession` of ReadingJobs likewise holds of readers'
  jobs alone, without the lane, and so does the theorem of it (`OneReading` of
  ReadingJobs_proofs).
- `tlc -config MCFolderGone.cfg MCLiveEstimate.tla` (`LevelIsOfTheDisk`, `levels.py:330`): "the
  level now is the one the published record gives" (`live_estimate.py:9`), where "A path-shaped
  word is weighed as a folder only if that directory exists or contains a recorded write"
  (`src/docs/design-reading-a-session.md`). A replay keeps the level judged before a named folder
  was made; nothing in its key, its sizes or its context moves when the folder is made, and the
  kept level is answered where a replay from nothing finds another.

And what the models had to be written around, because the code is so:

- A call of the lane that failed after running records nothing, so the caps never see it;
  `SpendBounded` counts the readings that left rows. `departures.counts` counts rows, so a
  reading in which several things departed counts several times, where its docstring says
  checks. The caps can be passed by one; a departure file that cannot be read counts as empty;
  the lock round it is per process.
- Words being read, or in a collection's hands, as they are withdrawn come back as the row that
  reading leaves (`late` in Annotations); the clear cannot recall them.
- After a save the file did not take, the dashboard's copy is ahead of it (`unstored`), and
  another dashboard may give that number to other words. Numbers start again after an eviction
  or the sweep of a discard record (`lapsed`).
- For `NeverNeither` the order of a collection's two reads and the generation check of
  `refresh` each suffice.
- `dismissals.dismiss` and `restore` load under the lock and save outside it, so the later save
  may be the earlier load's and a mark is lost; `load` answers a file it cannot read as empty,
  and the next save writes that. `BoardAgrees` is what holds all the same.
- `current_hook` compares a hook with a transcript read before the hook came, so a newer hook
  than the read is retired (`Retire` in Alerts); Claude's repeats bring it back.
- A failing check clipped out of the window is not seen by the live estimate, as its design
  says; `SafeIsEarned` speaks of the calls read and of every later write and change, read or
  not.
- While no named folder is on the disk and no listed write is in one, nothing is outside, and
  "none or low" may be said beside writes anywhere (`levels.py:336`). So `SafeIsEarned` has every
  write in a named folder only when one was on the disk as the level was asked, and
  `ReplayIsFresh` compares each level kept with a replay from nothing by the folders of that
  level's own time: a kept replay may hold levels judged by different folders side by side.

## 6. What is proved

By TLAPS (SMT and Zenon for the steps, PTL for the temporal conclusion), for every value of the
constants that meets the module's named assumption:

| Module | Theorem | States |
|---|---|---|
| `Coordinator_proofs` | `EndStoreSafe` | types, both caps, `NoStrandedOp`, `FlagOwned` |
| | `EndStoreTyped` | `EndTypeOK`, by itself |
| | `StampsOnlyAdvance` | `EndNeverGoesBack` |
| | `CoordinatorTyped` | types, and one holder of the collect lock |
| | `RetiredOnlyRead` | `RetiredWhenRead` |
| `Publication_proofs` | `TypesHold` | types and the stream cap |
| | `OwnWritesRead` | `ReadYourWrites` |
| | `LaterIsNewer` | `RevisionsOrdered` |
| | `PagesCurrent` | `StreamCurrent` |
| `Asks_proofs` | `AsksTyped` | types and the budget of unanswered questions |
| | `NoneOrphaned` | `NoOrphan` |
| | `OutcomeRetained` | `SettledKept` |
| | `PromiseKept` | `Outcome!Safe`: the refinement of AskOutcome, step by step |
| | `ClickIsOutcome` | `Outcome!OneTruth` |
| `ReadingJobs_proofs` | `JobsTyped` | types |
| | `ChargesKept` | `ChargeKept` |
| | `CountsAgree` | `CountEqualsCharge` |
| | `OneReading` | `OnePerSession` |
| | `NoCliLeft` | `StopLeavesNoCli` |
| | `CancelsKill` | `KillOwed` |
| | `CancelsHonoured` | `CancelHonoured` |
| | `OutcomesTrue` | `OutcomeSays` |
| | `OneAccount` | `Account!Spec`: the refinement of ReadingAccount |
| | `BillHonest` | `Account!Honest` |
| `Unasked_proofs` | `UnaskedTyped` | types |
| | `OneUnaskedReading` | `OneUnasked` |
| | `OneReading` | `SlotShared` |
| | `Bounded` | `SpendBounded` |
| `Annotations_proofs` | `AnnotationsTyped` | types, and the form of every entry |
| | `NothingLost` | `NothingForgotten` |
| | `NumbersStand` | `NumbersNameOneText` |
| | `OverwritesShown` | `NoSilentOverwrite` |
| | `OwnSaveShown` | `CopyKeepsSave` |
| | `MarksOnShown` | `MarkOnShown` |
| | `WithdrawnGone` | `WithdrawnStayGone` |
| | `BoardShowsOne` | `NeverNeither` |
| | `OneLog` | `Log!Spec`: the refinement of RevisionLog |
| | `BoardsHonest` | `Log!Honest` |
| `Alerts_proofs` | `AlertsTyped` | types |
| | `EndedSilent` | `EndedStaysSilent` |
| | `BoardAndBannerAgree` | `BoardAgrees` |
| `LiveEstimate_proofs` | `LiveEstimateTypeOK` | types, one replay at a time, whole windows |
| | `LiveEstimateIsFresh` | `ReplayIsFresh` |
| | `LiveEstimateEarned` | `SafeIsEarned` |

**Assumptions.** `EndStoreAssumption`: finitely many sessions, stamps are positive naturals, the
caps and bounds are naturals. `PublicationAssumption`: finitely many connections, naturals, and
the page's greeting variant is one. `ReadingJobsAssumption`: each job has a session and is not
the mark of a free slot, faults are of the three kinds. `UnaskedAssumption`: finitely many
sessions and jobs, each job on a session, caps naturals, at least one criterion.
`AsksAssumption`: finitely many questions, the options are among the indices a click may name,
which are integers, and the limits are naturals. `ObservationAssumption`: the windows are
naturals with `event_coalesce_sec` no longer than `collect_memo_sec` and that no longer than
`stream_producer_interval_sec`, as the settings are (0.1, 2.5 and 5 seconds); no getter is called "none" and no harness
"stores". `AnnotationsAssumption`: each page and job has a dashboard, moments are positive naturals,
nothing is called "none". `DismissalsAssumption` and `AlertsAssumption`: this dashboard's clicks
are clicks, the faults are of two kinds, hooked and shown sessions are sessions, the windows are
naturals. `ToolReportsAssumption` and `LiveEstimateAssumption`: covers are pairs of checks, a path
outside the working directory (`Stray`) is in no named folder, the unsettled directions and the
entries listed are naturals, what a call may be is one of the recognised kinds
and a command that tests names a check, the budget and the window are positive naturals and the
other limits naturals.

**EndStore.** `NoStrandedOp` is not inductive: a thread that finds the flag up leaves its op,
and that is safe only because the flag's owner has still to look at the queue. `EndIInv` adds
`LoopManned` (a raised flag has a thread in the loop, unless a write raised) and `HeldOp` (a
thread about to write has popped an op). The second clear in `finally` breaks mutual exclusion,
which is why the invariant speaks of *some* thread and never of one. The caps need a few lemmas
on `Cardinality` (`StoredSet`, `StoredDropped`, `WrittenSafe`).

**Publication.** `ReadYourWrites` follows from four facts that hold together: who is past the
lock holds it (`Locked`), a request's floor is no newer than the clears and the clears no newer
than the stores (`Floors`), a kept body, or one whose generation is still current, is as new as
every clear (`KeptNew`), and so a request's answer is as new as its floor (`AnswerNew`). The
heart of it is `Publish`: if the generation noted before the read is current, no clear ran
since, so what was read is as new as any. `RevisionsOrdered` adds `Ordered`: the set `Out` of
all bodies handed out or kept is ordered by revision, and the one collection about to publish
has read stores at least as new as any of them. `MoveStep` and `OrderedKept` carry the many
actions that put no new body out.

`StreamCurrent` speaks of a page whose mailbox is empty, and whether it is behind depends on how
the mailbox came to be empty. `HInv` adds the other half: a revision that waits in a mailbox is
no older than the body, unless an announcement is still to reach that page (`Hears`); and while
an announcement is on its way no newer revision is minted, because the publisher announces
before it lets the collect lock go (`Newest`). So overwriting a mailbox of one never loses the
newest, and a page that registers after the list was taken is greeted with the body itself.

**Asks.** Two facts make `NoOrphan` and `SettledKept` inductive: whatever a sweep, a click or a
poll has in hand was stored (`InHand`), and a sweep stamps only what has come to an outcome
(`Stamped`). The budget is a statement about `Cardinality`: a registration counts and stores in
one hold of the lock, so it adds one where there was room for it (`BudgetAdd`), and every other
step leaves no more unanswered than there were (`BudgetKept`). For the refinement each action is
mapped to a step of AskOutcome, with the table for what is held and the stored questions for
what was asked: a sweep, a withdrawal or the stop to `LetGo`, an outcome that lands to `Settle`,
a reply to `Deliver` or `Refuse`, and the rest to stutters. `ClickIsOutcome` then
follows from the abstract steps and the types alone (`OneTruthKept`). The promise's
fairness, that a question asked is settled, stays with TLC.

**Observation.** The types carry the lock: `holder` names a collector exactly while it reads or
publishes, also where a read raises and the `with` gives the lock back. `Taken` says what the
worker knows at each stage: what it captured has happened, and from the end of its own read to
the retirement the read has taken all of it in. A generation that moves during the collection is
not among the captured ones, and stays dirty.

**ReadingJobs.** The two properties relate three files, and are inductive only with what each
stage of the thread implies of them. `IInv` is `TypeOK` and, job by job, `Fits` (`Charged`: a
job knows of its charge and its outcome says so, and the marker is there before the charge;
`Untouched`: an unpressed job left nothing and an unfinished one stored nothing; `Recovering`:
recovery looks only at what an earlier process left) and the two properties themselves.
`OwnStep` and `OtherJob` reduce each action to its own job; each action is then one lemma.

The slot and the stop are a second invariant, `Held`, inductive beside `IInv`: a live thread
holds its session's slot; a CLI runs only between its spawn and its reaping, where `kill_all`
finds it; and once the runner is closed every CLI still running is in the kill list, because a
spawn asks in the same hold of the lock that lists the groups. `KillOwed` is inductive with what
surrounds it (`Owed`): a job waits only after its handover, which has killed for a Cancel that
came before it.

What a reader is told is a third, `Word`, by job: a Cancel is accepted only while the job's
thread runs and has not sealed, and it stays with the job (`Open`); once sealed, the outcome
about to be recorded already says cancelled or unstopped if either befell (`Worded`); and
what the store was told says it too (`Told`). The seal is what makes it inductive: it is the
last moment a Cancel is accepted, and the outcome is chosen after it. Recovery adds nothing to
it, as it speaks only of jobs whose thread is gone and never calls one of those a reading.

`OneAccount` puts the three together. It needs a fourth (`Bill`): what is owed a recovery has a
marker, an outcome was refused only for a discarded entry, and a reading was charged. Presses,
commits, charges, Cancels and recoveries each map to the action of the same sense; every move
between two running stages, and everything a runner or a CLI does, is a stutter; a thread's end and a
crash are `Leave`, and that it may leave (`LeavesSettled`) is where `ChargeKept` is used: no marker
means that nothing is owed. `BillHonest` reads the counts off `CountEqualsCharge` and `Bill`.

**Unasked.** None of the four is inductive alone. `Lane` says who holds the board's slot (one
session's, and whoever reads or claims is it), `Slots` who holds a session's (at most one, and
it is taken while there is one, for sessions whose slot nobody gave back under its holder).
`SpendBounded` needs how old a count may be: `Counted` and `Copied` say that the rows exceed
what a claim counted by at most the one reading that was under way, and by none while it still
is, so a claim that passes the gate is for a reading that ends at most one past the cap. The
proof of `CountedKept` is mostly the collection's copy against each writer of the rows.

**Annotations.** The actions are sorted first, once (`Mutators`, `Kinds`): a write that builds
on the file under the lock (`Mutates`), a refresh of one copy, a step of a collection, or one
that touches none of these. `Grown` says what any such write may do to the entry: mint the next
number or keep the one there with its words, and carry the rest. From it follow `NothingLost`
directly, and `Numbered` (each number in the file, the copies, the pages and the collections is
one the file has held or a failed write left, one text to a number, none above the file's), whence
`NumbersStand` and, with the guard, `OverwritesShown`. `OwnSaves` adds that no read from before
a dashboard's own save can be assigned after it, because the save moves the generation the read
is checked against. `MarksOnShown` goes by the three things a write may do to a mark.

The last two follow what is under way from one store to another. `CollectionSteps` says once
where a collection's entry and the copy it shows can come from: what it had, the file, or what a
mutator built. `GoneInv` strengthens `WithdrawnStayGone` to all that may yet become a row or the
file's reading (the lane's readings, the readers', the collections and the copies they will
show): each is of a number above the last one withdrawn, or was there as that clear landed. A
clear is the only step that moves the mark (`ClearedGone`), and it notes all that is under way
in the same step; every other step only hands on a number it had, or one of the live file, which
is above the mark. `BoardInv` says that a reading that is over has its outcome in the file or in
`lost`; since a collection samples the readings before the generation and the file, whatever it
shows holds the outcomes of all it sampled as ended.

`OneLog` is the store's promise as a whole. The abstract log is `Revised`, the text `named` has for
each number up to the file's; that there is exactly one is `NumbersNameOneText` with `Complete`, and
that a board without live words is not ahead of the file is `Placed`. A mutator's write is a
`Save`, an `Add`, a `Clear` or, where the file did not take it, `Unstored`; an assigned copy is a
`Show`, by `OwnSaves` never of an older revision than the dashboard's own; the rest stutter.

**Alerts.** `EndedStaysSilent` is inductive with `Sampled`: a request knows what
it knows from the generation it sampled, a collection from no earlier one than it sampled, and
neither from one that has not begun; so an equal generation at the hold means that what is about
to be written is of the session's present run. `BoardAgrees` needs `Agreed`: from its assignment to
its last judgement a collection's marks are the copy, as long as no click of this dashboard
landed, since only those and the assignment write the copy.

**LiveEstimate.** What has to be shown is about folds over sequences of calls of any length:
that three shortcuts end where a replay from nothing does. `Pure` is the tallies that one goes
through. A tally come to otherwise may differ from the pure one in how its commands are numbered
and in which entries it has kept, so two tallies are `Like` each other when one is the other
with every number moved by the same distance, and a tally is `Current` when each entry it kept
is the one it would compute now. Adding a call and asking the entries preserve both (`AddLike`,
`AddCurrent`, `AskedLike`), and a tally like another has the same list and level (`LevelLike`).
Taking calls out of a base is the hard one. A call whose effect is safe only added a passing run
(`HeadAdd`, `HeadIs`); what later calls add does not depend on it (`BeyondHead`); so the base
without the head (`RidBase`) is like the tally of the remaining calls from nothing (`RidLike`).

A replay is `Coherent` when its base, its end, its levels and the effects it noted are those of
its own calls and context up to that likeness, each level by the folders it was `Judged` with.
Each way to start gives the loop a coherent start (`EndSeeded`, `ShiftSeeded`, `KeptSeeded`), the
loop goes on from one to a coherent replay (`LoopCoherent`), hence `ReplayedCoherent`; and two
coherent replays of the same calls have one level where they were judged by the same folders,
and one rise where the whole window was (`CoherentSame`). Induction over a sequence is done over
its places, as an induction over a set of naturals (`Induction`, `Onward`), which needs no
operator as a parameter.

The state is then easy to speak of. `IInv` says that the transcripts are typed (`Files`), that
the replay kept, and the one in a request's hands, is coherent and is of these files whenever
the sizes it was read under are these (`Stored`, `Requests`), and that one request reads at a
time (`OneReads`). `Folders` says no more of the disk than that its folders are named ones: the
proofs lean on nothing else about it. Every line written makes one of the sizes larger (`Larger`), so what was read
under other sizes is never taken for current (`Outdated`); and a `Finish` that finds the sizes
it asked under knows that neither file moved between its two reads.

`SafeIsEarned` compares the level not with another replay but with a rule said of the two
transcripts alone, and takes a second account of the fold. Read forward: `Knows` says what a
tally holds of each call added to it (a run, a write, a launch, the time of the last change), and
`Pure` has it at every place (`PureKnows`). Read back: `LowStands` says what a list with nothing
raising the level tells of the tally, so of every call read (`LowEarned`); of the writes it tells
something only where a named folder was on the disk, since then some folder is weighed and a
write in none of those would have raised the level. What lies between is
the order of things. Calls are merged by time, then file, then line (`PlaceIs`, `MergedIs`), so
the last run of a check in the tally is the check's latest call (`LastCall`); what was not read
of a file is its older part (`NewestAt`, `UnreadOf`), hence not after any call from the horizon
on (`UnreadIs`). That needs the files to be written in turn, each line under an id of its own,
and the subagent's file to be no older than its last line: `Ordered`, inductive beside `IInv`,
and checked by TLC on the instance of `live_estimate` before it was proved. A replay of files
that moved while they were read is marked unread, and is not "none or low" (`UnreadNotLow`).

**Only model-checked.** Liveness under fairness, which the prover does not do: `QueueDrains`, the
fairness of `Promise`, `LaneFrees`, `DelayedNotLost`, `EventRetired`, `AllShown` and
`CancelEndsJob`.

## 7. What is not modelled

- **A second dashboard's recovery.** Markers are claimed by a rename (`reading_jobs._claim`);
  in ReadingJobs one process uses the directory at a time. Annotations and Alerts have several.
- **The rest of the annotation store.** Adopting a prompt or an edit as a goal, the fields of the
  lines, retyping adopted words, and lock files beyond a store that fails.
- **The supervision of a process group.** Polling, signals and Windows job objects are one
  `Reap` that may find the group ended or may not. A CLI that outlives a *crash* is out of the
  program's hands and of the model.
- **The displayed phase of a job**, which nothing decides by.
- **A store read that fails for a passing reason** (`ends.load` answers it as an empty store).
- **The worker's sleep.** It may look at any time, so there is no latency to state and no lost
  wake to find.
- **Raising collections in parts.** A harness that fails inside a collection is a row of an
  error in its body; a collection that raises as a whole is `CollectFails` or `ReadFails`.
- **Of the live estimate**: two readers at once (one replay is in flight, the others wait),
  several checks in one command, redirects, call ids that collide, results of agents that have
  gone, the reasons given beside a level. A record's size is one unit. The levels of one replay
  are judged by one state of the disk (`there` as the second file is read), where the code looks
  at the disk before each: a folder made between two of them would give a replay two states of
  the disk, which a kept replay that is gone on with has anyway. A session with no absolute
  working directory finds no folder on the disk: `there` is then empty throughout.
- **Of the alerts**: the refund where there is no notifier, informational kinds, hooks without a
  transcript, the asks' own floor, delivery records and off-machine nudges, the cache caps, the
  256 marks a file may hold, and a dashboard that has not collected yet.
- **Event overlays, quota, focus and git gates, lifecycle files, tripwires, corrections**: see
  the plan.
- **Parsing, rendering, redaction, network checks and the page**: text in, text out, no state of
  the protocols above.

## 8. Plan

Built, in the order of what a mistake would cost the reader: ReadingJobs (money and processes),
Asks (a waiting session) and its promise, EndStore (a file), Publication and Observation (what
the page shows), Annotations (the reader's own words), Unasked (spending nobody asked for),
LiveEstimate (an assurance), Dismissals and Alerts (whether the reader is told).

Next, the model grows along these lines:

1. **RecoveryClaim**: the claim of a marker by rename among two processes, with a claim taken
   back from a dead holder, in front of ReadingJobs' `Recover`.
2. **Gates**: the in-flight sets of quota, focus and git, whose release is the spawned thread's;
   Unasked has the shape.
3. **Lifecycle**: the state file by port, `--stop`, the sweep of stale files, a new server
   meanwhile.
4. **Overlays**: the reducer of `events.py` as operators, against a reference definition.
5. **A timed worker** for Observation: the sleep, the notify and the bound on how late an event
   is shown.
6. **Abstractions**: the end store as a register of the last decision, refined by EndStore, as
   Asks, ReadingJobs and Annotations refine theirs.

And the proof of the refinement of point 6; every safety property the runs check has its theorem.
