# zresmon in TLA+

zresmon is a terminal monitor of ZFS resilvers and scrubs. It writes nothing
and locks nothing: every tick it reads procfs files and the output of `zpool`
and draws what it has read. All its difficulty is in that: the host changes
between any two reads, children hang or die, events arrive from another thread,
and a key pressed on one frame is carried out on the next list of pools.

The modules here model the parts of the program where these things meet,
TLC checks them on small instances, and TLAPS proves the main safety properties
for every value of the constants. Source lines are those of the repository's
`src/` directory.

## 1. Inventory

| Component | Source | State | Operations | What is hard | What makes it correct |
|---|---|---|---|---|---|
| Render loop | `app.rs` 597-758 | `pools`, `active`, `ereports`, scroll offsets, panel focus; `snaps` per tick | list, sample each, fall back, draw, wait for a key | the host changes between listing and each sample; the cursor is an index into lists that change; one read of several fails | the cursor is in range and on the chosen pool; no steady pool is missing; nothing shown is older than its tick; the display settles |
| Live source | `app.rs` 67-211, `kstat.rs` 35-70 | the follower | `pools`, `sample`, `sample_pool`, `ereports`, `collect_one` | two sources read at different moments and merged; every source may be absent | a snapshot's parts belong to the pool; absence is not failure |
| Scan kstat | `kstat.rs` 73-163 | none | `parse_scan_kstat` | absent, idle, torn and unknown records | a record is shown only if there is one |
| Status command | `status.rs` 18-54 | one child per call | spawn, read, poll, kill | a child that hangs with its output open | whole outputs only; the call ends in time |
| Status parsers | `status.rs` 86-432 | none | scan line, rebuild probe, counters, tree fold | wording by build, order of lines, humanized numbers | the tree is the indentation's, the state is the text's |
| Event follower | `events.rs` | child, reader thread, ring buffer behind a mutex | spawn, feed, flush, push, drain, drop | three threads of control, two bounded queues, a parser with memory | order, no loss but of the oldest, own rows, no orphan |
| Model | `model.rs` 60-252 | none | progress, health, retry | interior against leaf vdevs | worst state wins; retry only what can recover |
| Demo | `demo.rs`, `app.rs` 41-65 | a tick counter | `pools`, `sample`, `ereports` | one counter advanced by two callers and read by a third; fixed time stamps against the clock | frame and map are of one tick; the replay ends and stays ended |
| Session | `main.rs` | terminal mode, follower | preflight, raw mode, run, restore, `--once` | error exits, panics and signals between set-up and restore | the terminal is restored, no child is left, the status tells |
| Error surface map | `ui.rs` 229-305, `app.rs` 430-480 | none | strips, order, columns | offsets at the ends of a word, subtraction of widths | every ereport is in one cell of its device's strip, the count is shown |
| Rendering | `app.rs` 217-545, `ui.rs` | none | tab bar, panels, counters | clamps, marks without color | what is drawn is within the content, and tells faults apart |
| Lab | `scripts/lab.sh` | pools, vdev files, manifest | setup, fill, fail, replace, inject, capture, teardown | a step that fails half-way; files under an imported pool | the manifest names what exists |
| Lab matrix | `tests/lab_matrix.rs` | lab | setup gate, waits, scrub retry | waits without bound | (test harness) |

How they interact: `main` sets up the terminal and gives `run_tui` a source.
`run_tui` calls the source (procedure calls, on its own thread); the live source
reads procfs, runs one `zpool status` child per pool and tick and waits for it,
and owns the event follower, whose reader thread shares only the ring buffer
with the loop. The frame is a function of the snapshots, the window of ereports
and the stored scroll offsets. The kernel, the `zpool` children and the user are the environment.

Hazards are listed in `PROJECT.json`, each at the line where it bites, with the
properties that would catch it.

## 2. The modules

### Tui (`Tui.tla`, instances in `MCTui.tla`)

`run_tui` over the live source, one action per place where the program reads
the host or changes its state:

| Action | Code | |
|---|---|---|
| `Discover` | `app.rs` 632-646 | list the pools, move the cursor with its name |
| `Sample`, `SampleStatus` | 646-651, `collect_one` 81-169 | one turn of the loop over the pools: its first read, the kstat, and its second, `zpool status` |
| `FallbackList`, `FallbackSample`, `FallbackStatus` | 652-656, `sample` 172-183 | no snapshot at all: list again, sample the first with the same two reads |
| `Draw` | 657-705 | correct the cursor, draw; the terminal may fail |
| `NoKey`, `WaitFails` | 707-711 | time-out, or an event that is no bound key press; `poll` or `read` fails |
| `PressQuit`, `PressRight`, `PressLeft`, `PressDigit`, `PressFocus`, `PressUp`, `PressDown` | 718-751 | the key arms |
| `Import`, `Export`, `ScanFileChanges`, `PoolChanges`, `ZpoolChanges` | environment | the host, between any two of the above |

A pool is a number (its place in the sort order). What a sample shows of it is a
pair, of what the kstat told (`KstatOf`) and of what `zpool status` told later
(`StatusOf`); `part` holds the first until the second is read. `Nothing` stands for a
pool that is not there, for a kstat without a scan, and for a `zpool` that does not answer, whose
place in a snapshot a healthy placeholder takes; what is made of the two otherwise
is `Snapshot`'s subject. `Reads` is the only error
`collect_one` passes on: a scan file that exists and cannot be read. A
listing is any sorted sequence of exactly the imported pools; it is taken at one
moment. `pinned` is the argument of `--pool`, or `NoPool`; it never changes, and
the constant `Pins` has what an instance starts with. `active` keeps the program's
zero-based value. The loop ends with `pc` at `quit`, at `unsampled` (the error of
`source.sample()?`), at `terminal` (the `?` after drawing, waiting or reading) or at
`panicked`.

Four history variables serve the properties: `chosen` (the name under the cursor
when the user last looked), `aligned` (that frame had a tab for every listed
pool), `seen` (what *each* of the two reads could have returned for each pool
during this tick) and `steady` (the pools readable all through this tick).

The ereport lines 660-670 of the same loop are in `Ereports`: no tab, cursor or
key reads the window and the window reads none of them.

### Ereports (`Ereports.tla`, `ErrorWindow.tla`, instances in `MCEreports.tla`)

The kernel's event log, the child that copies it to a pipe, the reader thread
(`ReadBlock`, `ReaderEnds`: `events.rs` 49-102 and 132-145), the ring buffer
(`Push`, 138-142), the loop's `Drain` (`events.rs` 155) and `Refresh` (`app.rs`
665-670), and `Quit` (`Drop`, 161-168), which may come between those two, when drawing fails. The lines of a block are fed one by one
in the code; nothing outside the reader thread can see the parser, so a block is
one action. The parser's memory is kept as the *block each row came from*
(`pending`), which is what the ownership properties are about. Time stamps are
taken where the code takes them, at the end of a block.

`ErrorWindow` is the abstract specification: ereports arrive, the display takes
what has arrived, and what it shows is the newest `Capacity` of those not older
than the window. It knows neither ring buffer nor trimming. `Ereports`
implements it (`ShowsTheNewest`), with `arrived <- read` and `shown <- screen`.
The implementation needs `WindowCap <= BufferCap` (both are 100 in the code).
`Retained` is `retain`, a recursive function along the window.

### ErrorMap (`ErrorMap.tla`)

What the error surface map draws of `screen`: `device_heat_list` with
`surface_grid` and the largest offset as the size of a device (`Buckets`, `Size`,
`HeatList`), and the columns of a row (`NameWidth`, `StripCols`, `RowWidth`). A row
of the payload is a row of a block, whoever left it in the parser, so the map is
of the ereports as they are and not as they should be. Offsets are in a word of
`WordMax`, where the addition saturates. The module extends `Ereports` and is
evaluated on every screen `Ereports` reaches. `MapAssumption` says that no two
leaves have the same name (a disk is once in a pool; rows of spares in use or
available are skipped by the parser) and that the cap of the window has at most four digits,
which is what the column of the count is wide (the code's cap is 100). The code
finds a cell with floating point numbers, the module with the division of
integers. In a panel narrower than the count, the row is the count alone and the
terminal cuts its end off; `CountIsNotCrowdedOut` says that nothing else does.

### StatusCommand (`StatusCommand.tla`)

`wait_with_timeout` (`status.rs` 30-54) with a child that writes, closes its
output, exits or hangs as it likes, called again and again. The caller's own
steps take no time, so a bound on the clock is a bound on its waiting. The
output that is not UTF-8 reads as empty, as `read_to_string` leaves it. The
children the caller kills, or leaves behind because their status cannot be asked for
(`PollFails`), and does not wait for are counted in `zombies`.

### StatusTree (`StatusTree.tla`, `Outline.tla`)

The fold of `parse_status` (`status.rs` 324-432). `rows` is the text read so
far, each row its indentation and state; `nodes` is the code's flat list, rows
whose children may still come, with the indentation the list has for them (the
one at the top can take over that of a later row: the branch `None` at 408);
`children` are the vectors. A row is a number, so `nodes` holds numbers where
the code holds values. One action per row with a state (`ReadRow`: the `while`
and the push), one for the end of the text (`Finish`). Lines the parser skips
change none of this and have no action.

`Outline` is the abstract specification: a row belongs to the last shallower
row above it, or else to the first row. It knows neither list nor folding.
`StatusTree` implements it (`IsTheOutline`): the edges are those in the vectors
and those between neighbours in the list.

### Health (`Health.tla`)

`tab_severity`, `worst`, `health`, `retry_needed` (`model.rs`), `retry_badge`
(`ui.rs`), the header's badge, `vdev_lines` and the leaves of the error map
(`app.rs`), as recursive functions over the tree of a finished `StatusTree`. Every
property compares them with what the rows of the text say without any tree:
`PanelIsTheText` has for the level of a line the number of rows above it that
are shallower than everything from there down to it.

### Frame (`Frame.tla`)

What the frame makes of that tree besides: the marks and the color of a tab
(`TabMarkers`, `TabColor`), the three counters of a row (`ParseCounters`: the last three
tokens that read as numbers, plain or in the units K to P of `status.rs` 276-283, whatever
words of a remark follow), and the lines a
stored scroll offset leaves in view of the vdev panel (`DrawnOffset`, `Visible`,
`TitlePosition`; `Up` is the key arm). It extends `Health`, and the run `health` is
of this module: the finished texts of `StatusTree` are its inputs. `Unit` is 1024 in
the program. `Humanized` is how zpool prints a counter, in the largest unit it has, E
among them; it rounds to whole units where zpool prints two decimals, so
`ReadsAs` asks for less of what is read back than a counter with decimals
would give: the unit, and never zero for a counter that is not.

### Session and Demo (`Session.tla`, `Demo.tla`)

`main` from its arguments to its exit, one action per call that may fail and one
for its failure:

| Action | Code (`main.rs`) | |
|---|---|---|
| `OnceDemo`, `OnceOpen`, `OncePrint`, `OnceFails` | 74-101 | `--once`, with the exit that runs no destructor |
| `Refuse`, `Accept` | 103-135 | preflight |
| `EnableRaw`, `EnterAlternate`, `OpenBackend`, `SetupFails` | 136-142 | setting up, with three `?` |
| `OpenSource`, `Turn`, `Quit`, `LoopFails`, `Panic` | 144-167 | the source and the loop that owns it; it fails for want of a pool or of the terminal (`app.rs` 652-708) |
| `DisableRaw`, `LeaveAlternate` | 169-172 | the restoration, each step refused or not |
| `PoolsChange`, `ChildDies`, `Killed`, `Interrupted` | environment | pools come and go, the child dies, signals |

`child` is the process of the event follower: dropped with the source when the
loop ends, however it ends; `gone` when it has died and nobody has waited for it.
`refused` keeps which steps of the restoration the terminal refused.

`Demo` extends `Session` with the loop of a `--demo` session: `Poll` is one turn, in
which `DemoSource` is asked for the pools (a sample whose tick is lost), for a
sample, and for the ereports so far; `window` is cut as in `run_tui`. A scenario's
frame is reduced to its scan, its examined share, its number of errors, the states of its
tree and the replacement target. `late` says that the wall clock is more than the
error window past the fixed time stamps of the demo (`demo.rs` 37), which is the case on
every clock that is right. The tree of a frame is judged by `Health`, through an
INSTANCE on the rows of the frame.

### Snapshot (`Snapshot.tla`)

`collect_one` (`app.rs` 81-169): `ReadKstat` (or `KstatFails`), then `Returns`,
which runs `zpool status` and merges what it says, or not. Between the two the
host goes on: a scan makes progress, meets errors, pauses, ends, is canceled,
another begins, dRAID vdevs are rebuilt -- beside a scan, too, as
`docs/CONSTRAINTS.md` section 1 and `lab.sh` 234 have it --, the kstat file and the
privilege to run `zpool` come and go. `LineOfScan` and `LineOfRebuild` are the lines
`zpool status` has of these, as the words and numbers the code looks for; the
wording is that of the code's comments and tests and of `lab.sh` 230-238. The
parsers are operators on these lines: to `parse_scan_section` all indented
lines under `scan:` are *one* text, so an old scan's words mix with a running
rebuild's, and a scrub's with those of the rebuild beside it. `RecordOf` is
what a kstat record says of a scan, every field of it. A build that prints no `scan:` line for a pool that was only rebuilt is one of
the `Texts`; so is a text read as empty. `Unknown` stands for `None`.

### Mutants

Next to some actions there are variants named after what they get wrong
(`DiscoverCaching`, `PushIfRoom`, ...). They are no part of any specification:
with such a variant in the place of the action, TLC finds the property it is
listed with in `PROJECT.json` violated.

## 3. The runs

| Run | Shows |
|---|---|
| `tui_selection` | Three pools that come and go and become unreadable between any two steps, every key. `ActiveInRange`: `snaps[active]` does not panic. `SelectionKept`: the frame is on the pool the user chose, however the list moved, when no read failed. `NobodyIsMissing`: a pool readable all through the tick has a tab. `GivesUpOnlyWithoutPools`: for want of a pool the loop ends in no tick with such a pool (its other error is the terminal's). |
| `tui_fresh` | Two pools, with and without `--pool`, whose records change between the two reads of a sample, and a `zpool` that stops and resumes. `FramesAreFresh`: each part of a tab is what that read could return at a moment of this tick, so a faulted pool is shown without its fault only in a tick in which `zpool` did not answer for it. `Converges`: once the host is quiet, every frame is the host. |
| `ereports` | Queues of two, three events of kept, dropped and garbled class with and without rows, a passing clock. `ShowsTheNewest` is the refinement of `ErrorWindow`; `NothingLost`: kept events are read once and in order; `NeverReused`: a row serves one ereport; `Delivered` and `StaleLeaves`: as long as the loop ticks, a kept event comes to the *screen* unless newer ones or its age overtake it, and an old one leaves it. `MapTellsTheScreen`: every device has one row, the worst first, and every ereport that names it is in one cell of it, in the order of the offsets. `CountIsNotCrowdedOut`: at no width does the name or the strip push the count out of the panel. |
| `status_command` | `OutputIsWhole`: what is parsed was written by a child that succeeded, to its end. `TimelyOnceClosed`, `ReturnsOnceClosed`: once the output is closed the call ends, by its deadline. |
| `health` | Every text of up to four rows. `IsTheOutline` is the refinement of `Outline`. `PanelIsTheText`: the panel shows every row once, in order, at its level, and the map has every leaf. `HealthIsTheWorstRow`, `RetryOnlyWhatRecovers`: what the walks over the tree find is what the rows say. `BadgeBesideTab`: which badge stands beside which tab mark: REPLACE under a fault only, nothing over a healthy pool but for errors of a scan, and RETRY beside whatever is unavailable. `MarksAreEnough`: without colors the marks tell health and scan apart, and no scan hides a fault. `CountersSurvive`: below 1024^6 a row with errors never reads as one without, and no counter loses its unit or its place; from there on all three read 0. `PanelIsNeverLost`: no stored scroll offset empties the panel, and every line can be reached. |
| `session` | Every way through `main` and every replay of the demo. `TerminalRestored`, `ChildNeverOutlives`, `ExitTells`: what is left of the terminal and of the child, and what the status tells, at the exit. `DemoIsJudged`: each scenario is graded as what it is for. `MapIsOfTheTick`: the ereports drawn are those of the tick whose sample the frame is; after the finish the sample stands still and they go on. `FinishedStays`, `DemoEnds`: the replay comes to its end and stays there. |
| `snapshot` | `SnapshotIsReal`: a kstat record is shown as it was read, every field; of the wording every field is of something on record, and of the only thing if there is one, and the errors of a scan's line are never told. `RunningIsShown`: a scan that runs throughout the call is shown running by either source, and so is a rebuild but for the three cases it names. `RetryIsAsked`: errors that were read are not lost in the merge. |

The other runs end in a counterexample, each to a sentence of a comment or a
document (quoted in `PROJECT.json` under `findings`):

| Run | What happens |
|---|---|
| `tui_selection_survives` | Pools 1 and 2, 2 selected. The read of 1 fails for one tick: the frame has one tab, the cursor is set to it. Next tick the cursor's index is looked up in the *pool list*, where it is pool 1. |
| `ereports_shows_only_recent` | An event from before the start is stamped when it is parsed and drawn as current. |
| `ereports_own_rows` | A dropped event leaves its device in the parser; the next kept event without one is blamed on it. |
| `status_command_hard_timeout` | A child that hangs with its output open is waited for without bound. |
| `snapshot_finished` | A paused scrub, no kstat file: the wording is neither "in progress" nor "canceled", so the snapshot says FINISHED. |

### Bounds

Three pools are enough for a list to lose a pool before, at and after the cursor
at once. In `tui_fresh` the kstat tells of a running scan or of none and every pool has a
fault that only `zpool status` knows: two values in each of the two parts (the second of
the text's is that there is none) are enough to tell a fresh from a stale one. Queues of
two with three events overflow; a window of one unit with a
clock up to two has young, limit and old ereports; one of the events may be from
before the start. The kinds of blocks in `ereports` are one kept class with all rows, one
kept class with none (its rows come from the block before), one dropped and one
garbled. Words up to 7 and strips of no and of three columns have offsets at both
ends of the word and of a strip; the widths are those at which the layout changes,
and their neighbours, and 0; a device has at most two ereports, so the counts in
`CountIsNotCrowdedOut` are small (the cap of 100 needs three digits of the four places there are).
The demo takes 10 ticks with its first error at the third, as in the code, and
runs on to the 16th, past its end by three turns; its window is cut at 3. Four rows at three
indentations are enough for a row to leave two groups at once, to start above the
first row, and to come back; two dRAID vdevs and a scan, each with its last
outcome, give a text three lines to mix. `Total = 1` means a scan is at its
start or at its end. `Unit = 4` puts the six units within reach, and `Counts` has numbers
below the first, at 4^3, 4^5 and 4^6, just below 4^3 and between. `MaxScroll`, `MaxEvents`, `MaxTime`, `MaxCalls`, `MaxOutput`,
`MaxRows` and `MaxTick` bound counters in the guards; nothing else is bounded, the hosts of
`Tui` and `Snapshot` change for ever. `health` does not check deadlock: the
parser stops at the end of its text. `status_command` does not
check deadlock: a child that hangs with its output open does stop the caller,
and with the clock at its bound nothing else moves.

### Fairness

`Tui`: weak fairness of the loop as a whole, no fairness of the host. procfs
reads return, `poll(interval)` returns when no key comes, and a key press is a
step of the loop as well. It takes `zpool status` to return, which
`status_command_hard_timeout` shows to depend on the child: the property is about a
`zpool` that does not hang. `Ereports`: the child and the reader thread are
runnable processes, and that is all the specification assumes. The loop's tick waits
for `zpool status` before it drains, and that wait has no bound
(`status_command_hard_timeout`); so `Delivered` and `StaleLeaves` carry their premise
themselves, that the loop comes round for ever (`LoopTicks`). The child may still die:
`Delivered` says so. `StatusCommand`: the
caller runs and the clock ticks; the child owes nothing, and nothing makes `try_wait` fail. `Demo`: weak fairness of
`Poll`, because the loop turns once an interval with or without keys; `DemoEnds`
allows for the loop to end first. `Session` has no fairness: its properties are of
safety.

## 4. The proofs

Every invariant and every action property of the passing runs is a theorem, and so are both
refinements. No theorem is about the bounds of a run: each holds for every value of
the constants that the named assumptions allow, and TLC evaluates these in
every run.

`TuiProofs` proves for every finite set of pools, every set of keys, of records,
of texts and of arguments of `--pool`, every scroll bound, and both build profiles:

- `TypeCorrect`, `CursorInRange`, `SelectionFollows`, `FramesFresh`,
  `NobodyMissing`, `FailsWithoutPools`: the safety properties of the two passing `Tui`
  runs.

The inductive invariant `IInv` adds to them what holds *between* frames. The
heart of it is `SnapsFollowPools`: as long as no read has failed in a tick, the
i-th snapshot is of the i-th pool. It is needed because the cursor is used
as an index of both lists. `ChosenBeforeList` says that between key and listing
the cursor's index in the pool list has the chosen name (if the last frame was
complete), `ChosenInTick` that after the listing it still has, up to
the correction `Draw` will make. `SeenInTick` says that the present, the
`part` already read and what is in the snapshots are what the reads of this tick may have
returned, `SteadyInTick` that a steady pool has been sampled
or is still to come. The assumptions are `PoolsAssumption` and
`KeysAssumption`.

`StatusCommandProofs` proves `TypeCorrect`, `OutputComplete` and `Timely` for
every timeout, nap, output and clock, from an invariant that fixes what the
caller has collected past the read and when its sleep ends.

`Induction` is what the other proofs have in the place of induction over data: the
library's theorems take the formula to prove as an operator, which the
provers cannot instantiate. Here it is a *set* of numbers (`LeastNumber`,
`GreatestNumber`, `InductionUp`, `InductionDown`), and what a recursive definition computes
is a function that is *shown to exist* from the function that makes its steps
(`Recursion`, `RecursionDown`; `Walks` and `Finding` for walks and searches of a tree).
They follow from the well-foundedness of `<`. The recursive functions of the
modules (`Retained`, the walks of `Health`, the sums of `ErrorMap`) are instances.

`StatusTreeProofs` proves `ParsesTheOutline`, that the fold implements
`Outline`, for texts of every length and every set of indentations. The
invariant behind it: the list goes down the text and to the right
(`Descending`), all its nodes but the top have their own indentation
(`OwnIndent`), the top is the first row (`TopIsFirst`), and no row below a node is
shallower than the next node (`Open`) -- so the nodes that a new row leaves on the
list are exactly the groups it is in. `FoldKeepsEdges` says folding is no
change of the tree, `NewEdge` that a row adds one edge. The assumptions are
`IndentsAssumption` and `MaxRowsAssumption`.

`HealthProofs` proves what is concluded from that tree, for the same texts. Its
invariant `HInv` says which row is under which *by the text alone* (`Parented`:
the last shallower row above, or the first one), that a finished text has been
folded to its end (`ListIsFolded`), and that children stand in the order of the
text, a later node of the list after all of them (`ChildrenAscend`, `NextAscends`).

- `TabShowsTheWorst`, `RetryIsForWhatRecovers`: a walk has its value at a row from
  those at the children, which come later in the text (`Walks`); so what any row has
  arrives at the root, and nothing else does (`Arrives`, `Finding`).
- `BadgeByTheTab` and `MarksSuffice` follow from these two by cases.
- `PanelsAreTheText`: the lines under a row are the rows from it to the last one below it,
  because the children's stretches of the text join without a gap
  (`Flattening`, `FlattenPieces`, `ChildInText`, `PartingOf`), and each is one level
  deeper than its parent (`DepthUnderChild`). The leaves are those of the lines
  that have no children (`DevicesByText`).
- `PanelStaysInView` needs of the panel only that it has a line.
- `ErrorsAreCounted` is proved of *all* counters, every `Unit` above 1 and any number of
  words (`AllCountersSurvive`), of which the run and the property check a few. The units
  grow (`UnitsGrow`), a number rounded to a unit it has reached is at least one of it
  and at most the next unit (`Rounding`), so what is printed reads as it was
  (`CounterAsPrinted`); which token is which column does not depend on the words
  (`CountersAsPrinted`). The assumption is `CountersAssumption`.

`SnapshotProofs` proves `TypeCorrect`, `RetryAsked`, `SnapshotReal` and `RunningShown`
for any number of vdevs and any amount of work. Between the two reads the
snapshot is the record of the first (`KstatFirst`, `RecordIs`), and no merge takes that
record out. For the wording: a line of the text tells no more than is so of the scan or
rebuild it is about (`LineTells`), and whatever the parsers make of the lines together is
so of some of them, field by field (`ParsedIsReal`, `PctIsReal`): the words that decide a
state are in one line, and so is the percentage, but they need not be in the same one. `SectionIsScanning` and `ProbeIsScanning`
are the two ways in which what goes on is found.

`EreportsProofs` has four parts.

- The follower: `FollowerComplete` (`NothingLost`) and `RowsServeOnce`
  (`NeverReused`), for every set of fields and kinds of blocks, every cap and every
  number of events. The pipe holds the last blocks written, in order
  (`PipeIsTheEnd`); of the blocks consumed exactly the kept ones were pushed, in
  order (`ReadInOrder`); and whatever the parser holds is younger than everything
  pushed (`PendingIsYoung`) -- that is why a dropped block's row can be given to
  the wrong ereport, but never to two.
- The queues: `ShowsExactlyTheNewest`, the refinement of `ErrorWindow`. The buffer is an
  end of what was pushed since the last drain (`BufferIsTheEnd`). The window need *not* be
  an end of what was pushed before the drain: what the full buffer dropped between two
  drains is a gap in it. What holds is that its last part
  is the last part of what was pushed, and that where the two part, that part
  fills the cap or what is before it is too old (`WindowIsTheEnd`); so the
  next refresh shows nothing from before a gap. This is where
  `WindowCap <= BufferCap` is needed. `TypeCorrect` comes with it.
- `MapTells` (`MapTellsTheScreen`): that as many devices come before a row as it
  has rows above it gives each row its device (`OrderOfRows`); the cells of a strip sum up
  to the ereports in them (`CellsTogether`), and a larger offset is in no earlier
  cell because the division is monotone (`QuotientGrows`, `BucketIs`).
- `CountsAreNotCrowdedOut` (`CountIsNotCrowdedOut`): by the three layouts, for every width.

The assumptions are `KindsAssumption`, `BoundsAssumption` and `MapAssumption`.
`BoundsAssumption` has `Replayed <= MaxEvents`, without which the
initial log may be longer than the numbers of its blocks.

`SessionProofs` proves `TypeCorrect`, `TerminalGivenBack`, `ChildEnds` and
`StatusTells` of `main`. Each says something of the exit only; the invariant says what
`main` has touched at each of its steps (`Untouched`, `HalfRestored`), which steps
can hold a child (`Held`), that `--once` and the interactive session share no
step but the first (`Apart`), and that only the two ends of the loop lead to the
restoration (`Restoring`). This part has no constants: these theorems are
about every run of `main`, not about more values than TLC has seen. Then of the
replay: `ReplayTypes`, `ReplayIsJudged`, `MapMatchesTick` and `FinishedForever`
(`DemoTypeOK`, `DemoIsJudged`, `MapIsOfTheTick`, `FinishedStays`), for a scan
of any length, a first error at any tick and a window of any size. The
invariant is that a frame is the sample of the tick *before* the counter
(`FrameIsOfATick`), and the lemma it needs that the newest of a cut window is the
newest of the whole (`NewestProperties`). `TicksAssumption` is the assumption.

Only model-checked:

- Liveness, out of the prover's reach with `ENABLED`: `Converges`, `Delivered`,
  `StaleLeaves`, `ReturnsOnceClosed` and `DemoEnds`.
- That the five properties of the violation runs are violated.

## 5. What is left

The modules of the plan are written: `Tui`, `Ereports` with `ErrorMap`,
`StatusCommand`, `StatusTree` with `Health` and `Frame`, `Snapshot`, `Session` with
`Demo`, and the proofs of section 4. Nothing that a run checks and the provers can
reach is left without a theorem.

Where documents promise more than the code does, and no run of its own shows it:

- The rebuild probe takes the first line, active or complete, not the most significant
  (`status.rs` 182-183, "active > completed > canceled", against 190-205): a running
  rebuild after a complete one is shown FINISHED. `RunningIsShown` names the case.
- A finished scan in the kstat hides a running rebuild: the wording is not asked then
  (`app.rs` 112). `RunningIsShown` and `SnapshotIsReal` say so.
- The fallback to the `scan:` line drops the error count
  (`docs/ZFS-MONITORING.md` 116 against `app.rs` 129). `SnapshotIsReal` says so.
- With a scrub beside a rebuild and no kstat, the wording gives one record with the fields
  of both: the scrub is called RESILVER and the progress may be either's; the percentage
  put at the rebuild target may be the scrub's (`app.rs` 107-112).
- An unavailable vdev "needs replacement, not retry" for the tab (`model.rs` 126, `ui.rs`
  41), and asks for a retry in the header (`model.rs` 242-244, and its tests). Both are
  shown at once; `BadgeBesideTab` says when.
- A counter of an exbyte's size is printed with an E, which is not in the table of
  `parse_counter_token` (`status.rs` 276-283): with one such counter the row reads as one without
  errors. `CountersSurvive` says so.
- The stored scroll offset is clamped in the frame only (`app.rs` 419): presses of the down
  key past the end have to be taken back one by one before the up key moves the view.
  `PanelIsNeverLost` says after how many.
- "Dropping the follower kills the child -- no orphan, even on panic"
  (`docs/ZFS-MONITORING.md` 77-78): so it is on a panic, but `process::exit` at
  `main.rs` 93 and a signal run no destructor. `ChildNeverOutlives` names both.
- "Refuse early instead of failing halfway through terminal setup" (`main.rs`
  103-105): `?` at `main.rs` 139 and 141 leaves the terminal raw (`SetupFails`).
- "Ctrl-C/`q` restore the terminal via a Drop guard" (`app.rs` 5): there is no
  guard. In raw mode Ctrl-C is a key without a meaning (`Turn`), and a panic in
  the loop leaves the terminal as it was (`Panic`).
- The demo "advances `tick` on every poll" (`demo.rs` 6): it does so twice, once
  for the list of pools (`Poll`). All properties of `Demo` hold nevertheless: the
  ereports take the tick that the sample had.
- The demo's ereports have fixed time stamps, so on a clock that is right the
  window has dropped them all before the first frame: `--demo errors` shows an empty error map.
- `--pool` with a name that no pool has shows a healthy placeholder (`Samples` in
  `Session`, `KstatOf` and `StatusOf` in `Tui`).
- `--once` prints no ereports: `main.rs` 98 gives it an empty list either way.
- A strip of the error map belongs to the ereports whose path *equals* the name in
  the tree (`ui.rs` 273). Where `zpool status` prints a disk without its directory
  and the event has it with one, the ereport counts as shown and is in no row
  (`MapTellsTheScreen`, device `sda` and path `/dev/sda`).

Not modelled:

- *Lab script, lab matrix, CI.* `lab.sh` makes and breaks test pools, `lab_matrix.rs`
  drives it. The program neither runs the script nor reads what it
  writes; their sources were read for what they expect of the program.
- *Formatting*: the gauge, byte units, rates, glyphs, colors of a cell, the layout
  of the screen, JSON, argument parsing, the table of key names under other input
  methods.
- *Data*: what a humanized byte count rounds to, names of vdevs, the `errors:`
  section of `zpool status` (parsed, and used by nothing), `func` values the kstat
  parser does not know, torn lines.

In the runs `OverflowChecks` is false, as in the release
profile; with overflow checks (cargo's dev profile) `PressDigit(0)` panics the
loop, because `b'0' - b'1'` leaves the byte's range (`app.rs` 729).
