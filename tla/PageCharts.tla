----------------------------- MODULE PageCharts -----------------------------
(***************************************************************************)
(* What the status page draws (statuspage/js): a chart per endpoint with a *)
(* line through its results and an icon per event, the explanation of big  *)
(* gaps, and the highlighting of the event the pointer is on.  It is drawn *)
(* by the callbacks of StatusPage, whose actions are extended here.        *)
(*                                                                         *)
(* A point of a line is the number of its file; taken gives its timestamp. *)
(* Every chart keeps the ids of its events in series.events, and the       *)
(* drawing library (external) joins them by position to the icons already  *)
(* there: only positions without an icon get a new one, and an icon keeps  *)
(* what it was made with.                                                  *)
(***************************************************************************)
EXTENDS StatusPage

CONSTANT PointedAt  \* bound: the ids of the events whose icon the pointer visits

GapFactor == 10

VARIABLES
    series,     \* chart.series.med per endpoint; empty: there is no chart yet
    marks,      \* chart.series.events per endpoint: ids of events
    lines,      \* the line drawn in each chart
    icons,      \* the ids of the icons in each chart
    grid,       \* the containers of the charts: their endpoint, and are they wide
    shown,      \* info-checkcount: the number of checks shown
    placeholder, \* is the placeholder of the charts still there
    bigGap,     \* is the explanation of a big gap shown
    pointer,    \* the event on whose icon the pointer is, 0: on none
    dimmed      \* the events whose icon and timeline item are dimmed

charts   == <<series, marks, lines, icons>>
layout   == <<grid, shown, placeholder, bigGap>>
mouse    == <<pointer, dimmed>>
pageVars == <<vars, charts, layout, mouse>>

EndpointSeq == [e \in Endpoints |-> e]
NumChecks(loads) == FoldLeft(LAMBDA sum, l : sum + l, 0, loads)

-----------------------------------------------------------------------------
(* Drawing *)

\* The ids of events in the order of their timestamps; those of one result
\* stay in theirs, for sort is stable.
Timestamp(event) == taken[event.result[1]][event.result[2]]
ByTimestamp(ids) == SortedBy(ids, [k \in 1..Len(ids) |-> Timestamp(events[ids[k]])])

\* The points of endpoint e in the order of their timestamps.
PointsByTimestamp(s, e) == SortedBy(s, [k \in 1..Len(s) |-> taken[s[k]][e]])

\* The ids of the events of endpoint e that allCheckFilesLoaded adds.
NewMarks(e) ==
    LET new == {i \in (Len(events) + 1)..Len(events') : events'[i].result[2] = e}
    IN  Ranked(new, [i \in new |-> {j \in new : j <= i}])

\* renderChart: the first container is wide, and is resized when there is
\* a second one.
RenderChart(containers, e) ==
    Append([i \in 1..Len(containers) |-> [containers[i] EXCEPT !.wide = FALSE]],
           [endpoint |-> e, wide |-> containers = <<>>])

\* A container for every chart that has none.
WithContainers(first, points) ==
    FoldLeft(LAMBDA containers, e :
                 IF points[e] = <<>> \/ \E i \in 1..Len(containers) : containers[i].endpoint = e
                 THEN containers ELSE RenderChart(containers, e),
             first, EndpointSeq)

\* makeGraphs, and makeGraph for every chart: a container for each new one,
\* lines as the series are now, an icon for each event that has none.
MakeGraphs ==
    /\ shown' = NumChecks(copies')
    /\ placeholder' = (placeholder /\ shown' = 0)
    /\ grid' = WithContainers(grid, series')
    /\ lines' = series'
    /\ icons' = [e \in Endpoints |->
          icons[e] \o SubSeq(marks'[e], Len(icons[e]) + 1, Len(marks'[e]))]

\* Mutant: a new point is put at the end of its line.
DrawUnsorted(n) ==
    /\ series' = [e \in Endpoints |->
          IF e \in ResultsIn(n) THEN Append(series[e], n) ELSE series[e]]
    /\ marks' = [e \in Endpoints |-> ByTimestamp(marks[e]) \o NewMarks(e)]
    /\ MakeGraphs

\* Mutant: the events of a chart are sorted after the new ones were added.
DrawMarksSorted(n) ==
    /\ series' = [e \in Endpoints |->
          IF e \in ResultsIn(n) THEN PointsByTimestamp(Append(series[e], n), e)
          ELSE series[e]]
    /\ marks' = [e \in Endpoints |->
          LET all == marks[e] \o NewMarks(e)
          IN  SortedBy(all, [k \in 1..Len(all) |-> Timestamp(events'[all[k]])])]
    /\ MakeGraphs

\* The part of processNewCheckFile that draws: the new points, every series
\* sorted, the graphs.  When the file was the last one of its download,
\* allCheckFilesLoaded adds the new events and makes the graphs again.
Draw(n) ==
    /\ series' = [e \in Endpoints |->
          IF e \in ResultsIn(n) THEN PointsByTimestamp(Append(series[e], n), e)
          ELSE series[e]]
    /\ marks' = [e \in Endpoints |-> ByTimestamp(marks[e]) \o NewMarks(e)]
    /\ MakeGraphs

\* The search for a big gap: chart after chart, every interval against the
\* one before, which may be that of another chart; zero counts as none.
HasBigGap(points, order) ==
    FoldLeft(LAMBDA acc, container :
        LET e == container.endpoint  s == points[e] IN
        FoldLeft(LAMBDA a, k :
            LET diff == taken[s[k]][e] - taken[s[k - 1]][e] IN
            IF a.gap THEN a
            ELSE [gap |-> a.last # 0 /\ diff > a.last * GapFactor, last |-> diff],
            acc, [k \in 1..(Len(s) - 1) |-> k + 1]),
        [gap |-> FALSE, last |-> 0], order).gap

-----------------------------------------------------------------------------
PageInit ==
    /\ Init
    /\ series = [e \in Endpoints |-> <<>>] /\ marks = [e \in Endpoints |-> <<>>]
    /\ lines = [e \in Endpoints |-> <<>>] /\ icons = [e \in Endpoints |-> <<>>]
    /\ grid = <<>> /\ shown = 0 /\ placeholder = TRUE /\ bigGap = FALSE
    /\ pointer = 0 /\ dimmed = {}

\* What changes nothing that is drawn.
Elsewhere ==
    /\ \/ \E n \in Files : NameFile(n) \/ ShowFile(n)
       \/ Open
       \/ \E b \in Batches : \/ GetNewChecks(b) \/ PageArrives(b) \/ ListFails(b)
                             \/ ListArrives(b) /\ batch'[b].phase = "loading"
                             \/ \E n \in Files : FileFails(b, n)
    /\ UNCHANGED <<charts, layout, mouse>>

\* An empty list: allCheckFilesLoaded alone.
NothingNew(b) ==
    /\ ListArrives(b) /\ batch'[b].phase = "done"
    /\ bigGap' = HasBigGap(series, grid)
    /\ UNCHANGED <<series, marks, mouse>>
    /\ MakeGraphs

\* A file arrives and is drawn.  The search for gaps is the last download's.
FileDrawn(b, n) ==
    /\ FileArrives(b, n)
    /\ Draw(n)
    /\ bigGap' = IF batch'[b].phase = "done" THEN HasBigGap(series', grid') ELSE bigGap
    /\ UNCHANGED mouse

\* highlightSameEvent: every other event on the page is dimmed.
MouseOver(id) ==
    /\ pointer = 0 /\ id \in PointedAt
    /\ \E e \in Endpoints : id \in ToSet(icons[e])
    /\ pointer' = id
    /\ dimmed' = dimmed \cup ((1..Len(events)) \ {id})
    /\ UNCHANGED <<vars, charts, layout>>

\* unhighlightSameEvent: every other event is as before.
MouseOut ==
    /\ pointer # 0
    /\ pointer' = 0
    /\ dimmed' = dimmed \ ((1..Len(events)) \ {pointer})
    /\ UNCHANGED <<vars, charts, layout>>

PageNext ==
    \/ Elsewhere
    \/ \E b \in Batches : NothingNew(b) \/ \E n \in Files : FileDrawn(b, n)
    \/ \E id \in 1..Len(events) : MouseOver(id)
    \/ MouseOut

PageSpec == PageInit /\ [][PageNext]_pageVars

-----------------------------------------------------------------------------
(* Properties. *)

\* The point the focus of chart e is put on when the pointer is at time x:
\* bisect from the second point on, then the nearer of the two neighbours.
Nearest(e, x) ==
    LET s    == series[e]
        t(k) == taken[s[k]][e]
        is   == {k \in 2..Len(s) : t(k) >= x}
        i    == IF is = {} THEN Len(s) + 1 ELSE Min(is)
    IN  IF i <= Len(s) /\ x - t(i - 1) > t(i) - x THEN s[i] ELSE s[i - 1]

Distance(a, b) == IF a < b THEN b - a ELSE a - b

\* Every chart shows all results of its endpoint, each as often as its file
\* was loaded, from left to right, at every moment and not only when a
\* download is over; the pointer gets the nearest of them.  Every endpoint has
\* one container, a wide one exactly if it is the only one, and the
\* placeholder makes room for the first of them.
ChartsFaithful ==
    /\ \A e \in Endpoints :
          LET t(n) == taken[n][e]  drawn == lines[e] IN
          /\ \A i \in 1..(Len(drawn) - 1) : t(drawn[i]) <= t(drawn[i + 1])
          /\ \A n \in Files :
                Cardinality({i \in 1..Len(drawn) : drawn[i] = n}) =
                    IF e \in ResultsIn(n) THEN copies[n] ELSE 0
          /\ drawn # <<>> => \A x \in 0..t(drawn[Len(drawn)]) :
                LET near == Distance(t(Nearest(e, x)), x) IN
                \A i \in 1..Len(drawn) : near <= Distance(t(drawn[i]), x)
    /\ \A e \in Endpoints :
          Cardinality({i \in 1..Len(grid) : grid[i].endpoint = e}) =
              IF lines[e] = <<>> THEN 0 ELSE 1
    /\ \A i \in 1..Len(grid) : grid[i].wide <=> Len(grid) = 1
    /\ placeholder => grid = <<>>

\* Every event of the timeline has exactly one icon, in the chart of its
\* endpoint, although the charts sort their events between two drawings and
\* icons are joined to them by position; and when the pointer is on no icon,
\* no event is dimmed, whatever was added while it was.
EventsDrawn ==
    /\ \A e \in Endpoints : \A id \in 1..Len(events) :
          Cardinality({i \in 1..Len(icons[e]) : icons[e][i] = id}) =
              IF events[id].result[2] = e THEN 1 ELSE 0
    /\ pointer \notin dimmed /\ (pointer = 0 => dimmed = {})

\* The distinct results of a chart have an interval that is ten times longer
\* than the one before it.
BigGapIn(e) ==
    LET t(n) == taken[n][e] IN
    \E l, m, n \in ToSet(series[e]) :
        /\ t(l) < t(m) /\ t(m) < t(n)
        /\ \A k \in ToSet(series[e]) : t(k) <= t(l) \/ k = m \/ t(k) >= t(n)
        /\ t(n) - t(m) > GapFactor * (t(m) - t(l))

\* "Detect big gaps in any of the charts, and if there is one, show an
\* explanation": whenever nothing is under way.
GapExplained ==
    (UnderWay = {} /\ failures = 0 /\ \E e \in Endpoints : BigGapIn(e)) => bigGap
=============================================================================
