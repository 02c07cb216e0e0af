# Checkup in TLA+

Checkup performs health checks, stores their results as *check files* in some
storage, notifies people, and shows the results on a status page that reads the
storage from a browser. This directory models the parts of it that are hard to
test: the goroutines of a round, the ticker loop, storages shared by processes
that take no lock, what a checker concludes from its attempts, and a page that
downloads files in whatever order the network delivers them and draws what it
got. TLC checks small instances; TLAPS proves the most important facts for all
instances.

    tlc -workers 2 -config check_run.cfg MCCheckRun.tla
    tlapm CheckRun_proofs.tla

## 1. Inventory

| Part | State | Operations | Talks to |
|---|---|---|---|
| Check (`checkup.go`) | slices `results`, `errs`; channel `throttle`; WaitGroup | `Check` | checkers, notifiers |
| Store loop (`checkup.go`, `cmd/every.go`) | ticker and its channel | `CheckAndStore`, `CheckAndStoreEvery`, `Stop` | Check, storage |
| Checkers (`check/*`) | attempts, open connections, verdict | `Check`, `doChecks`, `conclude` | endpoints |
| fs storage (`storage/fs`) | directory, `index.json` | `Store`, `Maintain`, `GetIndex`, `Fetch` | other processes on the directory |
| GitHub storage (`storage/github`) | branch, `index.json`, blob SHAs | `Store`, `Maintain` | GitHub API, other processes |
| S3 storage (`storage/s3`) | bucket | `Store`, `Maintain`, `Provision` | S3 and IAM APIs |
| SQL storages (`mysql`, `postgres`, `sqlite3`, `sql`) | table `checks` | `Store`, `Maintain`, `GetIndex`, `Fetch` | database |
| Application Insights (`storage/appinsights`) | telemetry channel | `Store` | SDK |
| HTTP server (`cmd/serve.go`) | none | one handler | fs or SQL storage |
| Status page (`statuspage/js`) | lists of results, events, charts, `lastCheckTs` | open, poll, list and file callbacks, drawing, highlighting | fs index or S3 bucket |
| Notifiers (`notifier/*`) | none | `Notify` | external services |
| Configuration, command line | none | decoding, flags | all of the above |

How they interact: `every` runs the store loop, which calls Check, which calls
every checker in a goroutine of its own and then the notifiers; the loop hands
the slice to `Store` and then calls `Maintain`. `message` and `--store` call the
same `Store` from other processes, possibly on other machines (the main README
speaks of distributing the checks). `serve` and the page read what is there.
Nothing but files, objects and rows connects these processes.

What is hard, and what makes each part correct:

- **Check**: goroutines write shared slices without a lock. No more than the
  configured number runs; nobody reads a slot before it is final; a failing
  checker reaches neither notifiers nor storage; Check returns if its checkers do.
- **Store loop**: rounds may be slower than ticks, may fail, and Stop comes at
  any time. One round per interval, no backlog, no end because of an error.
- **Checkers**: many early returns. Exactly one verdict, nothing left open, a
  correct median, and the same one on the page.
- **Storages**: several writers, readers and interruptions between any two
  writes. No young file is deleted; no reader gets half a file; with the SHA
  check no index entry is lost; index and files agree when nothing failed.
- **Status page**: answers out of order, overlapping polls, failed downloads,
  files that become visible late or hold older results than those before. What is shown is the newest state, nothing is
  skipped, every event has its icon although charts are sorted again under them.

## 2. Modules

| Module | Models | Specification |
|---|---|---|
| `CheckPromise` | what one `Check` promises, without channel, WaitGroup or loop | abstract |
| `CheckRun` | one call of `Check`: caller, one goroutine per checker | refines `CheckPromise` |
| `EveryLoop` | `CheckAndStoreEvery` around `CheckAndStore`; EXTENDS `CheckRun` and runs its actions inside a round | |
| `Checkers` | one call of `Check` of an http, tcp, dns, exec or tls checker; which of them may block is why `CheckRun` has `Hanging` | |
| `CheckFiles` | what a storage promises to readers: publish, expire, nothing else | abstract, shared by the storages |
| `FsStorage` | processes and a reader on one directory | with one process, refines `CheckFiles` |
| `GithubStorage` | processes on one branch | |
| `S3Storage` | processes on one bucket | refines `CheckFiles` |
| `SqlStorage` | processes and a reader on one table | refines `CheckFiles` |
| `StatusPage` | the page's downloads, state and timeline, against publishing processes | |
| `PageCharts` | what the page draws; EXTENDS `StatusPage` and extends its actions | refines `StatusPage` |
| `Sorting` | what a sort does: of a checker's round trip times, of the page's results and the events of a chart | |
| `MC*` | instances of the above for TLC | |
| `*_proofs` | theorems about the module of that name; those about `EveryLoop` are in `CheckRun_proofs`, those about `PageCharts` in `StatusPage_proofs` | |
| `SequenceFacts` | lemmas on sorts, folds and induction that the proofs about the checkers and the page share | |

**CheckRun.** `pc` is the caller's place in the method, `work[i]` that of the
goroutine of checker *i*. The channel is its length (`throttle`), the WaitGroup
its counter (`wg`). A checker hands back a result and perhaps an error
(`CheckReturns`); nothing obliges the ones in `Hanging` to. `results[i]` distinguishes the
zero value, a measured result and one whose timestamp was forced.

**EveryLoop.** `CallCheck` resets the variables of `CheckRun`: every call has
fresh slices and a fresh channel. The ticker is external: its channel holds one
tick and drops the next. `sinceTick` and `sinceStop` are observers; they stop
counting at `CountCap`.

**Checkers.** One configuration record per behaviour-relevant field; each attempt
meets refusal, silence, a wrong or a right answer. `open` holds the attempts
whose response body, connection, TLS connection or context is not yet released.
`Deadline` says whose attempts end by themselves when the other side is silent:
tcp, dns and exec have one of their own, tls and an http client that the caller
supplies only if its timeout is set. Exec may block all the same (`MayBlock`),
because the deadline kills the command but not a process that holds its output
open. `NextAttempt` is the head of the loop over the attempts, tested before each.
The model leaves out the pauses between attempts and which of several texts or
codes is wrong.

**CheckFiles.** A result is published once, may go when it has expired, and never
comes back. A storage with `MayPause` may stop to answer its readers
(`answering`), as the directory does while `index.json` is truncated; `readable` is what
they get when it answers, so nothing may be missing afterwards. A bucket and a table answer
always.

**FsStorage.** A check file is named after its time, so `Names` are times, and
the index is a map from names to stamps with 0 for "no key". `os.Create` and the
encoder are separate steps (a *torn* index in between); reading a file is one
step. All readings of the clock differ, as nanoseconds on one machine do, so two
processes never pick the same name; clock skew between machines is not modelled.
`Abort` stops an operation anywhere, as a kill or a failing call does.
`GetIndex` of the reader gets an error when it finds the index torn, and the
mapping to `CheckFiles` takes a torn index as no answer.

**GithubStorage.** One API call per step. Equal contents have equal SHAs, so
`Unchanged` compares contents. A refused write is an error that Store or
Maintain returns as it is; `Fault` is a failing call or a killed process.
`DirSet` says whether paths differ from the names that are keys of the index.

**S3Storage.** The bucket is a map from names to modification dates. The service
is external: it works on one request at a time, lists keys in order in pages
(`Page`, `Truncated`) and dates an object when it has been put. `marker`, `todo`
and `more` are Maintain's `marker`, `objsToDelete` and the last key of a
truncated page. `DeleteAll` may leave out keys, which the service reports in an
answer the code does not look at. A put that the SDK repeats is one put.

**SqlStorage.** The four SQL packages do the same (the deprecated one never
creates the table). A statement is atomic; `name`, the stamp in the INSERT and
the time in the DELETE are three readings of the clock with other processes in
between. `GetIndex` may return a part of the rows as if it were all, because the
error that ends the iteration is not looked at.

**StatusPage.** `clock` is the time of the publishers: one takes a time from `Pauses` until it
names a file (`named`) and one from `Delays` until it stamps it and makes it visible
(`stamped`). With two publishers a file may become visible after one that was
named later, and it may hold older results, since a round takes its timestamps before Store
names the file: `taken` has the timestamp of every result, and `Early` keeps the
number of rounds that overlap below that of the publishers. A file
reports on some endpoints and is silent on others (`"absent"`); a result may carry a message.
`batch[b]` is download *b*: what it asked for, its list, what it
still waits for and what it got; a finished download forgets its closures. The
local list is compared by stamp and comes at once (`fs.js`), the one of S3 by
name and in pages (`s3.js`, `PageArrives`); `Key` is what is compared. `config.js` and
`config_s3.js` are where the storage is chosen. A poll asks for the time of the newest
file, or up to `MaxLate` later: `getNewChecks` and `getCheckFileList` each read the
clock, whole milliseconds may pass between the readings, and nanoseconds are rounded,
because they do not fit into a Number. `AllCheckFilesLoaded` sorts by timestamp
(`OrderedResults`), takes the last *n* results as new ones, appends events and
computes the status at the head. `since` and `overlapped` are history variables.

**PageCharts.** Each callback of `StatusPage` also draws. A point of a line is the number of its
file; lines and events are sorted by timestamp (`PointsByTimestamp`, `ByTimestamp`). `marks` are the ids in `series.events`,
`icons` those that were drawn: the drawing library, which is external, joins
them by position, so only positions without an icon get one. `NewMarks` are the
events of one chart in the order of their times, as the code sorts them. `MakeGraphs` is
`makeGraphs` with `makeGraph`, `HasBigGap` the search for gaps at the end of
`allCheckFilesLoaded`. `grid` are the containers and their layout; a container that is there is kept (`WithContainers`). `MouseOver` and
`MouseOut` are `highlightSameEvent` and `unhighlightSameEvent`; the ids of icon and timeline item are one.

## 3. Runs

| Run | Instance | Result |
|---|---|---|
| `check_run` | 4 checkers of which 2 may hang, 2 notifiers, ConcurrentChecks in -1, 0, 1, 3 (default 2) | holds; with 3 at once two hanging checkers cost two slots and the others are performed all the same |
| `every_loop` | 3 checkers, every storage kind, negative or two at once, Stop at any time | holds |
| `checkers` | all five kinds, up to 3 attempts, round trip times 1 to 3 | holds, and the page's statistics agree with the checker's |
| `fs_single` | 1 process, expiry 2, time to 8, a reader | index = directory at rest, Maintain complete, refines `CheckFiles` with errors while the index is torn |
| `fs_shared` | 2 processes, expiry 1, time to 5, 1 abort | deletions, readers and torn indexes behave |
| `fs_orphans` | 1 process, 1 abort | **violation**: an orphan is never deleted |
| `github_shared` | 2 processes, expiry 1, time to 6, 1 fault | no lost update, safe deletions |
| `github_dir` | 1 process, no fault, a Dir | **violation**: deleted files stay listed |
| `s3_pages` | 2 processes, expiry 1, pages of 2, time to 8, 1 fault | Maintain complete although it stops early, refines `CheckFiles` |
| `sql_shared` | 2 processes, expiry 2, time to 8, 1 fault, a reader | readers miss only expired checks, refines `CheckFiles` |
| `status_page` | 3 files of 2 publishers on 2 endpoints with rounds one after the other and overlapping, a message, opening and a poll, readings up to 3 apart, 1 failed answer, fs or S3 in pages of 2 | page current, timeline complete, no file passed over, charts and icons faithful |
| `page_gap` | 3 files, the third after a long pause, opening and a poll | **violation**: the gap is not explained |

Why the bounds suffice: a throttle needs one checker more than tokens, and a
zero, a negative and a saturating setting; a file system race needs two
processes, one cut operation, and enough time for one file to expire while
another is stored; the page needs three files so that a poll finds an old, a new
and a re-downloaded one, two publishers so that a file becomes visible behind a
younger one, two downloads so that they overlap, and pages of two so that a
listing takes two. The timeframe of 3 is shorter than the 9 units in which
the files appear, so the page may open too late for the first. A file takes two
units until it is named and one until it is visible, and two readings of the clock
differ by up to three: so a poll may ask for a time after a file that follows
closely, and the condition `Spaced` of `PollsMissNothing` is met in some behaviours and not in
others. The two `Rounds` are one after the other, with a forced
timestamp, and a second round that overlaps the third, with results before and after them.
S3's Maintain stops at the first page without an expired object. That
is complete because keys are ordered by time and dates nearly are: an object
that was named early but put late may hide older ones behind it only if such
objects fill a page. So `MaintainDeletesOld` needs fewer slow uploads than a page
has objects; two processes and pages of two are the smallest instance where it
holds with a slow upload (with pages of one it fails), and S3's pages of a
thousand leave a wide margin. In `sql_shared` the expiry is 2 because every
operation reads the clock, so that with 1 nothing young could be deleted by
mistake.

The one history of `status_page` has an endpoint that changes twice and one that
appears late and stays as it is, with a different overall status after each
file and a message on the last result of the second; that is the result a poll
finds again when the second file is the newest. The code treats status values alike apart from
their order. `page_gap` uses a history without any change and timestamps of which
the last interval is eleven times the one before. `fs_shared`,
`github_shared`, `s3_pages` and `sql_shared` use symmetry over their two
processes, which are interchangeable (both maintain), and check no liveness.

The clock, the files and the downloads are bounded, so the storage and page runs
end: they say `CHECK_DEADLOCK FALSE`. `check_run`, `checkers` and
`every_loop` check for deadlock; their only final states are explicit (`Returned`, `Over`, `Parked`).

The three violations, and what one property rests on, are disagreements between code and
comments, recorded as findings in `PROJECT.json` with their lines:

1. fs: "Check files older than CheckExpiry will be deleted on calls to
   Maintain()", but Maintain skips files without an index entry, which an
   interrupted Store leaves behind (`fs_orphans`).
2. GitHub: the index is to be keyed by check result filenames, but Maintain
   deletes the key under the full path, so with a Dir nothing is deleted from it
   (`github_dir`).
3. Page: "Detect big gaps in any of the charts, and if there is one, show an
   explanation", but a poll loads the newest file again, and the interval of
   zero between its two copies counts as none: the pause that follows is compared
   with nothing and not explained (`page_gap`). In the timeline these copies
   add no false change of status when downloads do not overlap, as
   `TimelineIsComplete` shows; but the message of the last result in the newest
   file is posted again by every poll, so the property claims a message once
   only as long as its file was loaded once.
4. Page: "If no check files have been downloaded, no new check files will be
   loaded", but the guard of `getNewChecks` is never true, so such a page asks for everything with
   every poll. `PollsMissNothing` in `status_page` needs this: with the guard as commented, which
   is its mutant, a page opened before the first file would stay empty.

`TimelineIsComplete` has conditions, and without them it is false of the code: an
answer that is an error, overlapping downloads, files that become visible out of
order, and overlapping rounds of two publishers (`TakenInOrder`) each may leave a change of
status off the timeline. For the last: a file with newer results is loaded, the
next poll loads it again and with it a file with older ones, and the window of the last results
holds the newer ones twice. `PageIsCurrent` and the charts do not
need any of this order.

Each property also has a mutant in the modules: an operator marked *Mutant*
that changes one definition as a plausible slip in the code would, and under
which the property fails.

## 4. Fairness

`CheckRun` and `EveryLoop` assume weak fairness of the caller and of every
goroutine: the Go scheduler runs what can run. A checker outside `Hanging`
returns, one in it may or may not, and `Returns` is claimed for the behaviours in
which it does. Any checker may be in `Hanging`: `Checkers` shows a tls checker or an
http client without a timeout and an exec checker as ones that can block, but
what an attempt waits for is outside this code, so it claims nothing to happen eventually and
assumes no fairness. `EveryLoop` also assumes that every checker and every storage call returns
and that the ticker fires until it is stopped; nobody has to stop it. The
storages and the page have no fairness: a process may be killed, and a browser
closed, at any time, so nothing is claimed to happen eventually.

## 5. Proofs

`CheckRun_proofs`, from the five assumptions on the constants: `TypeCorrect`,
`ConcurrencyBounded`, `RoundIsWhole`, `FrozenSlots`, `Implementation` (every
behaviour satisfies `CheckPromise`). The invariants are not inductive by
themselves. `IInv` adds what ties counters to goroutines: `throttle` is the
number of goroutines that have not given their token back, plus one while the
caller is between taking it and launching (`ThrottleCounts`); `wg` is the number
that have not called Done (`WgCounts`); goroutines exist exactly for the checkers
the loop has passed (`Spawned`). From these, `wg = 0` at the end of the loop
means that every slot is written, which is `RoundIsWhole`, and
`Cardinality(Checking) <= throttle <= concurrent`, which is
`ConcurrencyBounded`. `Stage` and `Slots` say what is known at each place.

It also carries the `IInv` of `CheckRun` through the loop of `EveryLoop`: `CallCheck`
establishes `CheckRun`'s `Init` again (`CallsAfresh`), so `WholeRoundsStored`
follows from what is known when a round returns without error (`RoundsApart`): every
slot is restamped or, without a forced timestamp, as measured.
`RoundsBounded` and `StopPrompt` follow from two sums (`TicksCount`): a round that
began since the last tick and a tick in the channel are together at most one.

`FsStorage_proofs`, for any set of processes, any expiry, any number of aborts:
`TypeCorrect`, `ReaderCorrect`, `IndexReadable`, `DeletionSafe`. The
strengthening `IInv` rests on `GoodMaps`: every map, on disk or in some
process's memory and however stale, lists only files that were once completely
written, under stamps later than their names. A stale map may therefore forget a
file or keep one too long, but it never makes one look older than it is; that is
why no lock is needed for `DeletionSafe`. `WholeOrExpired` says that a file once
complete is still complete or was older than the expiry when it went. `began`
and `written` are observers.

`S3Storage_proofs` and `SqlStorage_proofs`, for any set of processes, page size,
expiry and number of faults: `TypeCorrect`, `Implementation` (every behaviour is
one of `CheckFiles`) and, for the table, `ReaderCorrect`. With several processes
this is what the local directory does not achieve: a row or an object appears
and goes in one step, and its age is judged by a stamp later than its name. The
invariants say just that (`Dated`), that the name of an upload under way is new
and nobody else's (`NewKeys`, `NewNames`), and that what is to be deleted has
expired (`Condemned`, part of `TypeOK` for the table). `NamesHaveMax` is the one lemma
about data: a nonempty set of names has a greatest element, from the
well-foundedness of the natural numbers.

`MaintainComplete` of `S3Storage_proofs` is why Maintain may stop at the first
page without an expired object, under the assumption `FewProcs` that there are
no more processes than a page has objects. An object that is *overtaken*, which
is one dated so late that an object with a later name has an earlier date, was put by a process
whose upload was slow; `FewOvertaken` counts them against the processes that are
still uploading, so a full page always holds one that is not, and if that has
not expired nothing behind it has (`StopIsRight`). `Walked` says that the marker has
passed nothing that should have gone.

For one process that is never cut short, `FsStorage_proofs` also has
`IndexAgrees`, `MaintainComplete` and `Implementation` (of `CheckFiles`). Their
invariant `Lone` says at each place in Store and Maintain what index, map in
memory and directory have to do with each other; `ReadableIs` evaluates the
refinement mapping with it: a reader who gets an answer can get all files but the one being stored, and while
the index is torn, when there is no answer, the map that is about to be written has
an entry for every whole file, so that none is missing when it is written. The refinement really needs the restriction: two processes lose index entries, as
`fs_shared` allows.

`GithubStorage_proofs`: `TypeCorrect`, `DeletionSafe`, `NothingLost` for any
processes and faults; `IndexComplete` without a Dir, where `github_dir` shows that
with one it is false. `NothingLost` rests on `Pruned`: what a process took out
of the index it read are files that are gone, and equal SHAs mean that the index
on the branch is still that one. `IndexComplete` adds `Accounted`: every difference of
index and directory is a file that some process is about to enter or to take out.

`Checkers_proofs`: `TypeCorrect`, `OneVerdictReturned`, `AllClosed`, for any number of
attempts. `Counted` ties the number of attempts to the place in Check, `Closed`
says what is open there; `FirstPosition` finds the attempt that `MarkFirst` marks.
`MedianIsMedian` and `PageSeesTheSame` are about what is computed from the
attempts: `JInv` says what the verdict of a finished check has to do with its
times (`Judged`), the minimum and maximum of the code are folds (`LeastRuns`,
`GreatestRuns`), and `SortedKth` counts how many attempts lie on each side of
the one in the middle of the sorted ones.

`StatusPage_proofs` is in six parts. What is proved of `StatusPage` holds of the page
with its charts too, since drawing and highlighting add nothing to what the page
does (`PageRefines`).

- `NothingMissed`, the argument that the page may forget everything but
  the time of its newest file. The invariant `NothingPassed`: a visible file of those asked for
  when the page opened (`since`) is loaded, in the list of a download, or young enough for
  the next poll however late its second reading of the clock (`lastCheckTs + MaxLate`). It is
  kept by `ListsComplete`: a list that holds a file *m* holds every file a poll before *m*
  asks for and one after *m* may no longer ask for (`Left`). For a list in pages that is
  `PageIsLeast` and `Remaining`: a page of S3 holds the least keys, and what is no longer to be
  listed was. A file that becomes visible later comes after everything the page has, by its stamp in
  the local storage, by its name in S3 if files become visible in the order of
  their names, and no closer than the readings may differ: `Trusted` states these conditions of
  `PollsMissNothing`, and `LaterListed` uses them. For the page with charts it is
  `NothingMissedOnPage`.
- `HeadIsRight`: the head is behind the files only while a download has
  some that it has not announced (`Current`), and without an error every such download ends,
  because it has or awaits everything on its list (`Awaited`).
- `PageTypeCorrect`, for which the window of new results must lie within the
  results (`WindowFits`): there are never fewer results than `numResultsLoaded`
  counts.
- `TimelineCorrect`. The invariant `Told` says that, under the conditions of the
  property (`Calm`), the timeline *tells* what the files of the
  finished downloads say: each endpoint's last event shows its last status, its
  events are its changes of status in their order, and each message is there,
  once if its file was loaded once. What a download has on its list is not
  older than these files (`Later`, by name; `OldFirst`, by timestamp, which `TakenInOrder` in `Calm` is for). `WindowIsNew` is the heart of
  it: the last `num` of the sorted results, `num` counted over the download's
  files, all belong to files of the download, and each result of a file that is
  new is among them exactly once. It is proved by counting, one injection for
  each half. The window may also hold results of the newest file the page
  had, downloaded again: results that repeat what the timeline tells change
  nothing. `TellsStep` shows this for one result that is not older than those
  told (by `ChangesGrow`, `OwnGrow` and `ShownGrow`), `WindowTells` for the loop.
- `EveryEventDrawn`: the icons of a chart are its events, once each (`Iconed`), so
  joining by position gives an icon to the new ones and to no other (`DrawnFile`).
- `ChartsAreFaithful`: a line has each result of its endpoint as often as its file
  was loaded, in the order of timestamps (`Lined`: sorting changes no count), one container
  is there per endpoint with a line, and the layout is what their number asks
  for (`Framed`). `NearestIsNearest` is the search for the point under the mouse.

`SequenceFacts` has what these need of data. `BoundedInduction` is induction over
numbers with the claim given as the set of the numbers it holds for, because
the library's theorems take it as an operator, which the provers at hand cannot
instantiate. `FoldGraph` and `FoldRun` turn a fold into a run: a function from
positions to values whose every step is one application. `RankedIs` and `SortedByIs` say of
the sorts that they return their input in order. Existence of least and greatest elements
(`LeastOfNats` and `BoundOfNats`, and `NamesHaveMax` and `FirstFile` in the storages) comes from
the well-foundedness of the natural numbers.

Every invariant, action property and refinement that a passing run checks is a theorem,
under the restrictions named above (one process that is not cut short, no Dir,
`FewProcs`). Only model-checked: the liveness properties (`Returns`, `HangIsolated`,
`KeepsGoing`), since fairness and ENABLED are out of the prover's reach,
and the counterexamples of the three runs that expect a violation.

## 6. Not modelled

- S3's `Provision`: a list of calls to S3 and IAM, made once by hand.
- Application Insights: a translation of results for an external SDK, and one
  wait for its channel or a timeout.
- Notifiers: one message each to an external service; `CheckRun` models when they
  are called and that their errors are only logged.
- Configuration and command line: JSON and flags. `message` is a process outside
  `Maintainers`: it stores and never maintains.
- `serve`: the two reads of a request are `GetIndex` and `Fetch` of `FsStorage`;
  that `index.html` is followed by an error on the same response is not modelled.
- Of the page: scales and axes and with them the place of an icon, which is not
  moved when the scales change; wording and the formatting of durations; the
  two timers that only reword times; the moment before the document is loaded.
- Of the checkers: the pauses between attempts, totals, means, `PriorityOver`.

`PROJECT.json` lists the components with these reasons, and its hazards say which
known risk no property covers.

## 7. Plan

Done, in this order: `CheckRun` with `CheckPromise` and its proofs; `EveryLoop`;
`FsStorage` with `CheckFiles` and its proofs; `GithubStorage`; `StatusPage`;
`Checkers`; `S3Storage` and `SqlStorage` with their proofs; several publishers,
paged listings, messages and `PageCharts`; the proofs about `EveryLoop`,
`GithubStorage`, `StatusPage` and `Checkers`; the refinement of `CheckFiles` by one process
on a directory; Maintain of S3; the medians, the head of the page, its charts,
icons and timeline.

What would come next: the wait of Application
Insights against a model of the SDK's channel; several pages in browsers do
not interact and need no model.
