----------------------------- MODULE StatusPage -----------------------------
(***************************************************************************)
(* The status page (statuspage/js) against the processes that publish      *)
(* check files: a download of the list of files and then of each file, one *)
(* when the page opens and one per refresh interval.  The answers come in  *)
(* any order, the downloads of two intervals may overlap, and an answer    *)
(* may be an error, which the page only logs.  PageCharts adds what the    *)
(* page draws.                                                             *)
(*                                                                         *)
(* A publisher takes its results, gives their file a name with the time in *)
(* it, writes it, stamps it and lets the list of the storage show it; time *)
(* passes with the last two steps.  Files are numbered in the order of     *)
(* their names.  With two publishers a later one may be visible first, and *)
(* may have older results: their rounds overlap.  A file has at most one   *)
(* result per endpoint.  The timestamps of results are on a scale of their *)
(* own, those of different files all different (nanoseconds).              *)
(***************************************************************************)
EXTENDS Integers, Sequences, FiniteSets, SequencesExt, FiniteSetsExt, Sorting

CONSTANTS
    NumFiles,       \* how many check files are published
    NumPublishers,  \* how many processes publish them
    NumEndpoints,   \* how many endpoints they report on
    NumBatches,     \* bound on the downloads the page starts
    MaxFailures,    \* bound on the answers that are errors
    PageSize,       \* how many keys S3 lists per request
    Timeframe,      \* checkup.config.timeframe
    MaxLate,        \* how far two readings of the clock in one call may differ
    Pauses,         \* the time until a publisher names a file, and
    Delays,         \* the time until one shows its file
    Histories,      \* what the files may say: a report per file and endpoint
    Timings,        \* when the results were taken: by file and endpoint
    Messages        \* the results that carry a message

Files     == 1..NumFiles
Endpoints == 1..NumEndpoints
Batches   == 1..NumBatches
Status    == {"healthy", "degraded", "down"}
Reports   == Status \cup {"absent"}

ASSUME SizesAssumption ==
    /\ NumFiles \in Nat /\ NumPublishers \in Nat /\ NumEndpoints \in Nat
    /\ NumBatches \in Nat \ {0} /\ PageSize \in Nat \ {0}
    /\ MaxFailures \in Nat /\ Timeframe \in Nat /\ MaxLate \in Nat
    /\ Pauses \subseteq Nat \ {0} /\ Delays \subseteq Nat \ {0}
ASSUME HistoriesAssumption == Histories \subseteq [Files -> [Endpoints -> Reports]]
ASSUME TimingsAssumption ==
    /\ Timings \subseteq [Files -> [Endpoints -> Nat]]
    /\ \A t \in Timings : \A m, n \in Files : \A e, f \in Endpoints :
          m # n => t[m][e] # t[n][f]
ASSUME MessagesAssumption == Messages \subseteq Files \X Endpoints

VARIABLES
    storage,       \* the driver in use: "fs" or "s3"
    history,       \* what the files say
    taken,         \* result.timestamp of each result
    clock,         \* the time of the last step of a publisher
    named,         \* the time in the name of each file, 0 before it has one
    stamped,       \* when the file was stamped and became visible, or 0
    batch,         \* the downloads of the page
    copies,        \* copies[n]: how often file n is in checkup.checks
    lastCheckTs,   \* checkup.lastCheckTs, 0 standing for null
    lastResult,    \* checkup.lastResultTs, 0 standing for null
    events,        \* checkup.events; the id of an event is its place
    overall,       \* the status at the head of the page
    since,         \* history: the time asked for when the page opened
    overlapped,    \* history: were two downloads ever under way at a time
    failures       \* how many answers were errors

page   == <<copies, lastCheckTs, lastResult, events, overall>>
extern == <<storage, history, taken>>
files  == <<clock, named, stamped>>
past   == <<since, overlapped>>
vars   == <<extern, files, batch, page, past, failures>>

Named   == {n \in Files : named[n] # 0}
Visible == {n \in Files : stamped[n] # 0}

\* Every file was visible before the next one got its name.
InOrder == \A n \in Visible : \A m \in Named : m < n => m \in Visible /\ stamped[m] < named[n]

\* The results in a file, and how many there are in a set of files.
ResultsIn(n)     == {e \in Endpoints : history[n][e] # "absent"}
NumResults(some) == Cardinality(UNION {{n} \X ResultsIn(n) : n \in some})

\* All results of file m were taken before those of file n.
Precedes(m, n) == \A e \in ResultsIn(m), f \in ResultsIn(n) : taken[m][e] < taken[n][f]

\* The later files with an older result than one of n: when n gets its name
\* their rounds are under way.
Early(n) == {m \in Files : n < m /\ ~Precedes(n, m)}

UnderWay  == {b \in Batches : batch[b].phase = "listing" \/ batch[b].pending # {}}
Loaded    == {n \in Files : copies[n] > 0}
FailedOf(b) == batch[b].list \ (batch[b].pending \cup batch[b].got)

-----------------------------------------------------------------------------
(* What the page computes. *)

\* Is file n in the list of files `after' asks for: the index of the local
\* storage is filtered by stamp, the S3 bucket is listed from a marker.
Key(n) == IF storage = "fs" THEN stamped[n] ELSE named[n]
Listed(n, after) == Key(n) >= after

\* checkup.orderedResults when it is sorted by timestamp: a file counts as
\* often as it was loaded.  Results of one file may have one timestamp
\* (ForceTimestamp); they stay in the order in which they came, copy by copy.
Copies(loads) == UNION {{n} \X ResultsIn(n) \X (1..loads[n]) : n \in Files}
NotAfter(x, y) ==
    LET s == taken[x[1]][x[2]]  t == taken[y[1]][y[2]] IN
    \/ s < t
    \/ s = t /\ x[3] < y[3]
    \/ s = t /\ x[3] = y[3] /\ x[2] <= y[2]
OrderedResults(loads) ==
    LET all     == Copies(loads)
        ordered == Ranked(all, [x \in all |-> {y \in all : NotAfter(y, x)}])
    IN  [k \in 1..Cardinality(all) |-> LET r == ordered[k] IN <<r[1], r[2]>>]

\* The status the last event of endpoint e shows, "none" before its first.
StatusShown(shown, e) ==
    LET own == {i \in 1..Len(shown) : shown[i].result[2] = e}
    IN  IF own = {} THEN "none" ELSE shown[Max(own)].status

\* A result gets an event if the last one of its endpoint shows another
\* status, and one more if it has a message.
NewEvents(shown, r) ==
    LET event == [result |-> r, status |-> history[r[1]][r[2]], message |-> FALSE] IN
    (IF event.status # StatusShown(shown, r[2]) THEN <<event>> ELSE <<>>)
    \o (IF r \in Messages THEN <<[event EXCEPT !.message = TRUE]>> ELSE <<>>)

WithEvents(shown, window) ==
    FoldLeft(LAMBDA acc, r : acc \o NewEvents(acc, r), shown, window)

Worst(statuses) ==
    IF "down" \in statuses THEN "down"
    ELSE IF "degraded" \in statuses THEN "degraded" ELSE "healthy"

\* The file of the last of the results of endpoint e in a set of files, when
\* they are sorted by timestamp.
Reporting(some, e) == {n \in some : e \in ResultsIn(n)}
Newest(some, e) ==
    CHOOSE n \in Reporting(some, e) :
        \A m \in Reporting(some, e) : taken[m][e] <= taken[n][e]
OverallOf(some) ==
    Worst({history[Newest(some, e)][e] :
              e \in {x \in Endpoints : Reporting(some, x) # {}}})

\* Mutant: the endpoints' lists are not sorted again, so that the oldest of
\* the files may come last.
AllCheckFilesLoadedUnsorted(loads, num) ==
    LET ordered == OrderedResults(loads) IN
    /\ events' = WithEvents(events, SubSeq(ordered, Len(ordered) - num + 1, Len(ordered)))
    /\ \E n \in {m \in Files : loads[m] > 0} : overall' = OverallOf({n})

\* Mutant: the timeline takes as many results as there were files.
AllCheckFilesLoadedByFiles(loads, num) ==
    LET ordered == OrderedResults(loads)  few == (num + 1) \div NumEndpoints IN
    /\ events' = WithEvents(events, SubSeq(ordered, Len(ordered) - few + 1, Len(ordered)))
    /\ overall' = OverallOf({n \in Files : loads[n] > 0})

\* allCheckFilesLoaded: sort, extend the timeline by what the last `num'
\* results say, set the overall status.
AllCheckFilesLoaded(loads, num) ==
    LET ordered == OrderedResults(loads) IN
    /\ events' = WithEvents(events, SubSeq(ordered, Len(ordered) - num + 1, Len(ordered)))
    /\ overall' = OverallOf({n \in Files : loads[n] > 0})

-----------------------------------------------------------------------------
Init ==
    /\ storage \in {"fs", "s3"} /\ history \in Histories /\ taken \in Timings
    /\ clock = MaxLate    \* long after the epoch, which null stands for
    /\ named = [n \in Files |-> 0] /\ stamped = [n \in Files |-> 0]
    /\ batch = [b \in Batches |->
                  [phase |-> "unused", after |-> 0, list |-> {}, pending |-> {}, got |-> {}]]
    /\ copies = [n \in Files |-> 0] /\ lastCheckTs = 0 /\ lastResult = 0
    /\ events = <<>> /\ overall = "unknown"
    /\ since = 0 /\ overlapped = FALSE /\ failures = 0

\* A publisher that is busy with no other file names the next one.
NameFile(n) ==
    /\ Named = 1..(n - 1)
    /\ Cardinality((Named \ Visible) \cup Early(n)) < NumPublishers
    /\ \E pause \in Pauses : clock' = clock + pause
    /\ named' = [named EXCEPT ![n] = clock']
    /\ UNCHANGED <<extern, stamped, batch, page, past, failures>>

\* A publisher has written its file, stamps it and makes it visible.
ShowFile(n) ==
    /\ n \in Named \ Visible
    /\ \E delay \in Delays : clock' = clock + delay
    /\ stamped' = [stamped EXCEPT ![n] = clock']
    /\ UNCHANGED <<extern, named, batch, page, past, failures>>

\* Start of download b, asking for the files since `after'.
Request(b, after) ==
    /\ batch[b].phase = "unused"
    /\ batch' = [batch EXCEPT ![b].phase = "listing", ![b].after = after]
    /\ since' = IF b = 1 THEN after ELSE since
    /\ overlapped' = (overlapped \/ UnderWay # {})
    /\ UNCHANGED <<extern, files, page, failures>>

\* The page opens: the files of the configured timeframe.
Open == Request(1, clock - Timeframe)

\* Mutant: the guard as it is commented, without a file there is no request.
GetNewChecksAsCommented(b) ==
    /\ b > 1 /\ batch[b - 1].phase # "unused"
    /\ \/ lastCheckTs # 0 /\ \E late \in 0..MaxLate : Request(b, lastCheckTs + late)
       \/ /\ lastCheckTs = 0 /\ batch[b].phase = "unused"
          /\ batch' = [batch EXCEPT ![b].phase = "done"]
          /\ UNCHANGED <<extern, files, page, past, failures>>

\* The refresh timer fires.  The time asked for is that of the newest file,
\* or later by what passes between the readings of the clock in getNewChecks
\* and in getCheckFileList and by rounding, for nanoseconds do not fit into a
\* Number.  Without a file it is the whole past, for the guard
\* `!checkup.lastCheckTs == null' is never true.
GetNewChecks(b) ==
    /\ b > 1 /\ batch[b - 1].phase # "unused"
    /\ \E late \in 0..MaxLate : Request(b, lastCheckTs + late)

\* The keys that remain to be listed, and the page of them S3 answers with.
Unlisted(b) == {n \in Visible : /\ Listed(n, batch[b].after)
                                /\ \A m \in batch[b].list : n > m}
NextPage(b) == {n \in Unlisted(b) :
                   Cardinality({m \in Unlisted(b) : m < n}) < PageSize}

\* A page of the S3 listing arrives, and more are to come: the next request
\* starts after the last key.
PageArrives(b) ==
    /\ storage = "s3" /\ batch[b].phase = "listing"
    /\ NextPage(b) # Unlisted(b)
    /\ batch' = [batch EXCEPT ![b].list = @ \cup NextPage(b)]
    /\ UNCHANGED <<extern, files, page, past, failures>>

\* The list of files, or the last page of it, arrives: one GET per file, or
\* none to wait for; then numResultsLoaded is undefined and there is no new
\* event.  The time asked for is a local variable of getCheckFileList.
ListArrives(b) ==
    /\ batch[b].phase = "listing"
    /\ storage = "s3" => NextPage(b) = Unlisted(b)
    /\ LET list == batch[b].list \cup Unlisted(b) IN
       \/ /\ list = {}
          /\ batch' = [batch EXCEPT ![b].phase = "done", ![b].after = 0]
          /\ AllCheckFilesLoaded(copies, 0)
          /\ UNCHANGED <<copies, lastCheckTs, lastResult>>
       \/ /\ list # {}
          /\ batch' = [batch EXCEPT ![b].phase = "loading", ![b].after = 0,
                                    ![b].list = list, ![b].pending = list]
          /\ UNCHANGED page
    /\ UNCHANGED <<extern, files, past, failures>>

\* processNewCheckFile: the file's results are stored, and the times of the
\* newest file and of the newest result are remembered.
ProcessNewCheckFile(n) ==
    /\ copies' = [copies EXCEPT ![n] = @ + 1]
    /\ lastCheckTs' = Max({lastCheckTs, named[n]})
    /\ lastResult' = Max({lastResult} \cup {taken[n][e] : e \in ResultsIn(n)})

\* Mutant: an off-by-one in the count of the files that arrived.
FileArrivesEarly(b, n) ==
    /\ n \in batch[b].pending
    /\ ProcessNewCheckFile(n)
    /\ LET got == batch[b].got \cup {n} IN
       \/ /\ Cardinality(got) >= Cardinality(batch[b].list) - 1
          /\ batch' = [batch EXCEPT ![b].pending = @ \ {n}, ![b].got = got,
                                    ![b].phase = "done"]
          /\ AllCheckFilesLoaded(copies', NumResults(got))
       \/ /\ Cardinality(got) < Cardinality(batch[b].list) - 1
          /\ batch' = [batch EXCEPT ![b].pending = @ \ {n}, ![b].got = got]
          /\ UNCHANGED <<events, overall>>
    /\ UNCHANGED <<extern, files, past, failures>>

\* File n of download b arrives: processNewCheckFile, and after the last
\* one of the list allCheckFilesLoaded.
FileArrives(b, n) ==
    /\ n \in batch[b].pending
    /\ ProcessNewCheckFile(n)
    /\ LET got == batch[b].got \cup {n} IN
       \/ /\ Cardinality(got) >= Cardinality(batch[b].list)
          /\ batch' = [batch EXCEPT ![b].phase = "done", ![b].list = {},
                                    ![b].pending = {}, ![b].got = {}]
          /\ AllCheckFilesLoaded(copies', NumResults(got))
       \/ /\ Cardinality(got) < Cardinality(batch[b].list)
          /\ batch' = [batch EXCEPT ![b].pending = @ \ {n}, ![b].got = got]
          /\ UNCHANGED <<events, overall>>
    /\ UNCHANGED <<extern, files, past, failures>>

\* The list, or a page of it, cannot be downloaded: a line on the console,
\* and for S3, where the error is not looked at, an exception in the callback.
ListFails(b) ==
    /\ batch[b].phase = "listing" /\ failures < MaxFailures
    /\ batch' = [batch EXCEPT ![b].phase = "failed", ![b].after = 0, ![b].list = {}]
    /\ failures' = failures + 1
    /\ UNCHANGED <<extern, files, page, past>>

\* A file cannot be downloaded or parsed: the count of the list is never
\* reached.
FileFails(b, n) ==
    /\ n \in batch[b].pending /\ failures < MaxFailures
    /\ batch' = [batch EXCEPT ![b].pending = @ \ {n}]
    /\ failures' = failures + 1
    /\ UNCHANGED <<extern, files, page, past>>

BatchStep(b) ==
    \/ GetNewChecks(b) \/ PageArrives(b) \/ ListArrives(b) \/ ListFails(b)
    \/ \E n \in Files : FileArrives(b, n) \/ FileFails(b, n)

Next ==
    \/ \E n \in Files : NameFile(n) \/ ShowFile(n)
    \/ Open
    \/ \E b \in Batches : BatchStep(b)

Spec == Init /\ [][Next]_vars

-----------------------------------------------------------------------------
(* Properties. *)

\* Every variable has its type; a download waits only for files of its list
\* it has not got, and is not done while it waits for any.
TypeOK ==
    /\ storage \in {"fs", "s3"} /\ history \in Histories /\ taken \in Timings
    /\ clock \in Nat
    /\ named \in [Files -> 0..clock] /\ stamped \in [Files -> 0..clock]
    /\ \A n \in Visible : named[n] # 0 /\ named[n] < stamped[n]
    /\ \A b \in Batches :
          /\ batch[b].phase \in {"unused", "listing", "loading", "done", "failed"}
          /\ batch[b].after \in Int /\ batch[b].list \subseteq Files
          /\ batch[b].pending \cup batch[b].got \subseteq batch[b].list
          /\ batch[b].pending \cap batch[b].got = {}
          /\ batch[b].phase = "done" => batch[b].pending = {}
    /\ copies \in [Files -> Nat] /\ lastCheckTs \in Nat /\ lastResult \in Nat
    /\ events \in Seq([result : Files \X Endpoints, status : Status, message : BOOLEAN])
    /\ since \in Int /\ overall \in Status \cup {"unknown"}

\* Whenever nothing is under way and no answer was an error, the head of the
\* page is the worst of the newest statuses the endpoints have in the files
\* it loaded, and the time of the last check is that of the newest result, in
\* whatever order the files became visible and their results were taken,
\* overlapping downloads delivered them, and however often they delivered
\* the same one.
PageIsCurrent ==
    (UnderWay = {} /\ failures = 0 /\ Loaded # {}) =>
        /\ overall = OverallOf(Loaded)
        /\ \A n \in Loaded : \A e \in ResultsIn(n) : lastResult >= taken[n][e]

\* The changes of status of endpoint e in the files the page has.
Changes(e) ==
    {n \in Reporting(Loaded, e) :
        LET before == {m \in Reporting(Loaded, e) : m < n}
        IN  before = {} \/ history[Max(before)][e] # history[n][e]}

\* The events that show the message of result r.
Posts(r) == {i \in 1..Len(events) : events[i].message /\ events[i].result = r}

\* The results were taken in the order of the names of their files: no two
\* rounds overlapped.
TakenInOrder == \A m, n \in Files : m < n => Precedes(m, n)

\* If no answer was an error, no two downloads overlapped, the files became
\* visible in order and their rounds did not overlap, the timeline has one
\* event for every change of status in the files the page has, in their
\* order, and no other: the newest file, which every poll downloads again,
\* adds nothing, and the window of new results misses none.  A message is on
\* it too, and only once as long as its file was loaded once.  When rounds
\* overlap the window, which is counted from the end of all results, may
\* miss an older result that came late.
TimelineIsComplete ==
    (UnderWay = {} /\ failures = 0 /\ ~overlapped /\ InOrder /\ TakenInOrder) =>
        /\ \A e \in Endpoints :
              LET own == {i \in 1..Len(events) : events[i].result[2] = e /\ ~events[i].message} IN
              /\ {events[i].result[1] : i \in own} = Changes(e)
              /\ \A i, j \in own : i < j => events[i].result[1] < events[j].result[1]
        /\ \A r \in Messages : (r[1] \in Loaded /\ r[2] \in ResultsIn(r[1])) =>
              Cardinality(Posts(r)) >= 1 /\ (copies[r[1]] = 1 => Cardinality(Posts(r)) = 1)

\* A file that comes after another one was visible comes later than the
\* readings of the clock may differ, counted from the name of the first.
Spaced == \A m, n \in Visible : stamped[m] < Key(n) => named[m] + MaxLate <= Key(n)

\* Where no poll can pass over a file: the local storage lists by stamps,
\* which are later than the names, for any number of publishers; S3 lists by
\* name, and the files must become visible in the order of their names.
Trusted == Spaced /\ (storage = "fs" \/ InOrder)

\* The list of download b is complete, or the download returns without one.
Answered(b) ==
    /\ batch[b].phase \in {"unused", "listing"}
    /\ batch'[b].phase \in {"loading", "done"}

\* A download whose list is complete leaves no visible file of those asked
\* for when the page opened behind: each was loaded, is being loaded or its
\* download failed.  That includes the polls of a page that has no file yet,
\* which the comments in fs.js and s3.js say load nothing.
PollsMissNothing ==
    [][(\E b \in Batches : Answered(b)) => (Trusted =>
          \A n \in Visible : Listed(n, since) =>
              n \in Loaded' \/ \E b \in Batches : n \in (batch[b].pending \cup FailedOf(b))')]_vars
=============================================================================
