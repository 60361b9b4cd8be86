------------------------------ MODULE GraphWidget ------------------------------
(***************************************************************************)
(* The graph (ui/views/graphwidget*.cpp): which part of the recorder's     *)
(* time it shows - all, the newest, or where the user put it - and what    *)
(* it draws of a recorder that fills, drops its oldest, begins anew. The   *)
(* curve, its chart (GapLine) and the overview (GraphMinimap) follow by    *)
(* one reading each and are built anew where that does not do.             *)
(*                                                                         *)
(* The recorder is a store of StoreOps, with another value of the meter    *)
(* (extra), and tells the graph what it does one signal after the other:   *)
(* an operator g -> g for each slot, for the store as it is then. One unit *)
(* of time is a millisecond and a pixel column much wider; scales, axes,   *)
(* colours, cursors and the integral are left out.                         *)
(***************************************************************************)
EXTENDS StoreOps, SequencesExt

CONSTANTS
  Values,            \* of readings
  OtherValues,       \* of the other value's
  Overload, Silent,  \* values of points that were an overload, or where the meter fell silent
  Columns,           \* the plot's width
  MapColumns,        \* GraphMinimap
  Undo,              \* GapLine
  Shortest, Minute,  \* the shortest "All" (10 s); it grows by whole ones of this (1 min)
  Sizes,           \* what the user may choose
  Lengths,           \* recording lengths
  MaxTime, MaxReadings, MaxUses   \* bounds; two readings of one value do not come at the same moment either

VARIABLES
  store,          \* the recorder: its main value, the points of another one (extra), what the meter shows of both
  graph,          \* the members of GraphWidget
  now,            \* the clock
  readings, uses  \* bounds

vars == <<store, graph, now, readings, uses>>

Line == INSTANCE GapLine
Map  == INSTANCE GraphMinimap WITH Stale <- Silent

\* The recorder and the graph, as a slot finds and leaves them.
both == [store |-> store, graph |-> graph]

Round(a, b) == (a + b - 1) \div b

-----------------------------------------------------------------------------
(* What is shown of the recorder's time *)

Kept(s) == Duration(s, now) - Origin(s, now)

\* What the overview sees of it.
Overseen(s) == [series |-> s.series, from |-> Origin(s, now), to |-> Duration(s, now)]

\* RecordingStore::lengthLimit; 0 without.
LengthLimit(s) ==
  CASE s.state = "Live"   -> IF s.length > 0 THEN LiveWindow(s) ELSE Later(LiveMax, s.pre)
    [] s.state = "Record" -> s.length
    [] s.state = "View"   -> Kept(s)

\* A slip: it grows by whole minutes, but down to one.
AllTargetDown(w, grow) ==
  LET Whole(recorded) == IF recorded > Minute THEN (recorded \div Minute) * Minute ELSE recorded
      Within(size, limit) == IF limit > 0 THEN Sooner(size, limit) ELSE size
  IN  Within(Whole(Later(IF grow THEN Round(5 * Kept(w.store), 4) ELSE Kept(w.store), Shortest)), LengthLimit(w.store))

\* allTarget(): it grows by a quarter at a time.
AllTarget(w, grow) ==
  LET Whole(recorded) == IF recorded > Minute THEN Round(recorded, Minute) * Minute ELSE recorded
      Within(size, limit) == IF limit > 0 THEN Sooner(size, limit) ELSE size
  IN  Within(Whole(Later(IF grow THEN Round(5 * Kept(w.store), 4) ELSE Kept(w.store), Shortest)), LengthLimit(w.store))

Following(w) ==
  \/ w.store.state = "Live" /\ ~w.graph.hold
  \/ w.store.state = "Record" /\ (w.graph.all \/ (w.graph.max > 0 /\ w.graph.scroll >= w.graph.max))

\* The newest reading at the right edge once the window is full; a sample time less is left out.
FollowStart(w) == Later(Origin(w.store, now), Duration(w.store, now) - w.graph.window)

WindowStart(w) ==
  IF w.store.state = "Live" /\ w.graph.hold THEN Later(Origin(w.store, now), Sooner(w.graph.holdStart, FollowStart(w)))
  ELSE IF Following(w) THEN FollowStart(w) ELSE Origin(w.store, now) + w.graph.scroll

\* "All" of a recording that does not fill the window yet.
Stretching(w) == w.graph.all /\ Following(w) /\ Kept(w.store) < w.graph.window

Width(w) == IF Stretching(w) THEN Later(Shortest, Kept(w.store)) ELSE w.graph.window

\* updateLineSpans() and updateMinimapView()
ShowTimes(w, start, width) ==
  [w EXCEPT !.graph.line = Line!SetSpan(@, start, start + width),
            !.graph.map  = Map!SetView(@, start, width, Overseen(w.store))]

UpdateTimeAxis(w) == ShowTimes(w, WindowStart(w), Width(w))

\* The scroll bar at v, told only if it moves it.
ScrollAt(w, v) == IF v = w.graph.scroll THEN w ELSE UpdateTimeAxis([w EXCEPT !.graph.scroll = v])

\* updateScrollRange(), with the scroll bar's signals blocked: a recording seen at its end stays there.
ScrollUpTo(w, max) ==
  LET atEnd == w.graph.scroll >= w.graph.max /\ w.store.state = "Record"
  IN  [w EXCEPT !.graph.max = max, !.graph.scroll = IF atEnd THEN max ELSE Sooner(@, max)]

ScrollRange(w) == ScrollUpTo(w, Later(0, Kept(w.store) - w.graph.window))

\* The time shown follows the scroll bar if that moved.
FollowBar(w, ranged) == IF ranged.graph.scroll = w.graph.scroll THEN ranged ELSE UpdateTimeAxis(ranged)

UpdateScrollRange(w) == FollowBar(w, ScrollRange(w))

-----------------------------------------------------------------------------
(* The curves *)

\* bucketSize(): a power of two, over the window or what there is.
BucketSize(w) == Map!PowerFrom(Round(Sooner(w.graph.window, Kept(w.store)), Columns))

\* The readings with a value.
WithValue(bucket) == SelectSeq(bucket, LAMBDA p : p.v >= 0)

\* The first of the least and the first of the greatest of valued, in time order.
Extremes(valued) ==
  LET Best(better(_, _)) == CHOOSE i \in DOMAIN valued :
                              \A j \in DOMAIN valued : better(valued[i].v, valued[j].v) /\ (valued[j].v = valued[i].v => i <= j)
      lo == Best(LAMBDA a, b : a <= b)
      hi == Best(LAMBDA a, b : a >= b)
      At(i) == [x |-> valued[i].t, y |-> valued[i].v]
  IN  IF lo = hi THEN <<At(lo)>> ELSE <<At(Sooner(lo, hi)), At(Later(lo, hi))>>

\* pointsOf(): without a value a gap; the meter's silence goes on after the bucket.
PointsOf(bucket) ==
  LET gap == <<[x |-> Last(bucket).t, y |-> -1]>>
  IN  IF WithValue(bucket) = <<>> THEN gap
      ELSE Extremes(WithValue(bucket)) \o (IF Last(bucket).v = Silent THEN gap ELSE <<>>)

\* The readings of bucket k, of ms each.
Bucket(series, ms, k) == SelectSeq(series, LAMBDA p : p.t \div ms = k)

\* The readings of the bucket that is filling.
NewestBucket(series, ms) == Bucket(series, ms, Newest(series).t \div ms)

AllPoints(series, ms) ==
  FoldLeft(LAMBDA points, k : points \o (IF Bucket(series, ms, k) = <<>> THEN <<>> ELSE PointsOf(Bucket(series, ms, k))), <<>>,
           IF series = <<>> THEN <<>> ELSE [k \in 1..(Newest(series).t \div ms + 1) |-> k - 1])

\* m_tailData: the points of the bucket that is filling.
TailOf(series, ms) == IF series = <<>> THEN 0 ELSE Len(PointsOf(NewestBucket(series, ms)))

\* rebuildExtras(): the other value in the same buckets.
RebuildExtras(w) ==
  LET ms    == w.graph.bucket
      drawn == [w EXCEPT !.graph.other = AllPoints(w.store.extra, ms), !.graph.otherTail = TailOf(w.store.extra, ms)]
  IN  [drawn EXCEPT !.graph.map = Map!SetView(@, WindowStart(w), Width(w), Overseen(w.store))]

RebuildSeries(w) ==
  LET ms == BucketSize(w) IN
  RebuildExtras([w EXCEPT !.graph.bucket = ms, !.graph.curve = AllPoints(w.store.series, ms),
                          !.graph.tail = TailOf(w.store.series, ms),
                          !.graph.line = Line!Replace(@, AllPoints(w.store.series, ms))])

\* appendToSeries(): a new bucket adds its points, one that is still filling replaces those it had.
AppendToSeries(w) ==
  LET Replace(replace, points) ==
        [w EXCEPT !.graph.curve = SubSeq(@, 1, Len(@) - replace) \o points, !.graph.tail = Len(points),
                  !.graph.line = Line!Extend(IF replace > 0 THEN Line!RemoveLast(@, replace) ELSE @, points)]
      filling == NewestBucket(w.store.series, w.graph.bucket)
  IN  Replace(IF Len(filling) > 1 THEN w.graph.tail ELSE 0, PointsOf(filling))

OnExtraAppended(w) ==
  LET Replace(replace, points) ==
        [w EXCEPT !.graph.other = SubSeq(@, 1, Len(@) - replace) \o points, !.graph.otherTail = Len(points)]
      filling == NewestBucket(w.store.extra, w.graph.bucket)
  IN  IF BucketSize(w) # w.graph.bucket THEN RebuildSeries(w)
      ELSE Replace(IF Len(filling) > 1 THEN w.graph.otherTail ELSE 0, PointsOf(filling))

-----------------------------------------------------------------------------
(* What the recorder says *)

\* trimExtras(): the other value's points go as the main one's do.
TrimExtras(s) ==
  LET from == IF s.state = "Live" THEN Origin(s, now) ELSE s.floor
      room == IF s.state = "Live" THEN Later(Slack, LiveKept(s) \div 20) ELSE 0
      drop == Later(0, Holding(s.extra, from) - 1)
  IN  IF Len(s.extra) > 1 /\ s.extra[2].t < from - room THEN [s EXCEPT !.extra = SubSeq(@, drop + 1, Len(@))] ELSE s

\* trimmed is what the recorder keeps: curves of what went are built anew.
WithLess(w, trimmed) == IF trimmed = w.store THEN w ELSE RebuildExtras([w EXCEPT !.store = trimmed])

\* trimForLimits(): no reading says it.
TrimForLimits(w) == WithLess(w, TrimExtras(Trim(w.store, now)))

\* What Live no longer keeps goes.
LiveTrimmed(w) == IF w.store.state = "Live" THEN TrimForLimits(w) ELSE w

\* applyWindow(), with setLiveWidth()
ApplyWindow(w, size) ==
  UpdateTimeAxis(RebuildSeries(LiveTrimmed(UpdateScrollRange([w EXCEPT !.graph.window = Later(1, size)]))))

\* requestAll(), of what there is
\* No other window, nothing to do.
Resize(w, size) == IF size = w.graph.window THEN w ELSE ApplyWindow(w, size)

RequestAll(w) == Resize(w, AllTarget(w, FALSE))

\* "All" grows once the recording fills the window, and comes down to a much shorter one.
Resizes(w) ==
  /\ w.graph.all /\ (Kept(w.store) >= w.graph.window \/ w.graph.window > 2 * Later(Shortest, Kept(w.store)))
  /\ AllTarget(w, TRUE) # w.graph.window

Resized(w) == IF Resizes(w) THEN ApplyWindow(w, AllTarget(w, TRUE)) ELSE w

Moved(w) ==
  IF Origin(w.store, now) > 0 \/ w.store.state = "Live" \/ Following(w) THEN UpdateTimeAxis(w) ELSE w

\* What is drawn of a new reading, if a window applied anew has not drawn it.
Draw(w, anew, drawn) ==
  IF anew \/ BucketSize(w) # w.graph.bucket THEN RebuildSeries(w) ELSE IF drawn THEN w ELSE AppendToSeries(w)

\* A slip: the reading is appended though the new window has drawn it.
OnAppendedTwice(w, shifted) == Draw(Moved(ScrollRange(Resized(w))), shifted, FALSE)

\* onAppended()
OnAppended(w, shifted) == Draw(Moved(ScrollRange(Resized(w))), shifted, Resizes(w))

\* onCleared(), with the overview before and the other values after it
OnCleared(w) ==
  RebuildExtras([w EXCEPT !.graph.map = Map!Rebuilt(@, Overseen(w.store)), !.graph.curve = <<>>, !.graph.tail = 0,
                          !.graph.line = Line!Replace(@, <<>>), !.graph.hold = FALSE])

LiveBeginsWithAll(w) ==
  IF w.store.state = "Live" THEN RequestAll([w EXCEPT !.graph.all = TRUE]) ELSE w

\* onStateChanged()
OnStateChanged(w) ==
  UpdateTimeAxis(UpdateScrollRange(LiveBeginsWithAll(
    [w EXCEPT !.graph.map = Map!Rebuilt(@, Overseen(w.store)), !.graph.hold = FALSE])))

\* With the other value's points trimmed; a shift of the main value's is told with its reading.
TrimmedExtras(w, shifted) ==
  IF shifted THEN [w EXCEPT !.store = TrimExtras(@)] ELSE WithLess(w, TrimExtras(w.store))

\* The overview hears a reading first.
OnReading(w, shifted) == OnAppended([w EXCEPT !.graph.map = Map!AddLast(@, Overseen(w.store))], shifted)

\* trim(): the oldest readings went if shifted.
Tell(w, shifted) == OnReading(TrimmedExtras(w, shifted), shifted)

\* append(), of the main value
Add(w, v, t) ==
  LET at      == IF w.store.series = <<>> THEN t ELSE Later(t, Newest(w.store.series).t)
      grown   == [w.store EXCEPT !.series = Append(@, [t |-> at, v |-> v])]
  IN  Tell([w EXCEPT !.store = Trim(grown, now)], Excess(grown, now) > 0)

\* appendExtra(), appendExtraPoint(): v is Silent where the display is off; one gap is enough.
AddExtra(w, v, t) ==
  LET s     == w.store
      at    == IF s.extra = <<>> THEN t ELSE Later(t, Newest(s.extra).t)
      grown == Append(s.extra, [t |-> at, v |-> v])
      drop  == IF Len(grown) > MaxPoints + MaxPoints \div 100 THEN Len(grown) - MaxPoints ELSE 0
      after == [w EXCEPT !.store.extra = SubSeq(grown, drop + 1, Len(grown))]
  IN  IF \/ s.state = "View" \/ s.series = <<>> \/ LengthReached(s, t)
         \/ v = Silent /\ (s.extra = <<>> \/ Newest(s.extra).v < 0) THEN w
      ELSE IF s.extra = <<>> \/ drop > 0 THEN RebuildExtras(after) ELSE OnExtraAppended(after)

Fresh(r) == r.t >= 0 /\ now - r.t <= StaleAfter

AddShown(w) ==
  IF Fresh(w.store.shown) /\ w.store.shown.v # Silent THEN AddExtra(w, w.store.shown.v, 0) ELSE w

\* appendCurrent(): what the meter shows, while it is fresh.
AddCurrent(w) == IF Fresh(w.store.reading) THEN AddShown(Add(w, w.store.reading.v, 0)) ELSE w

\* clear()
Cleared(w) ==
  OnCleared([w EXCEPT !.store = [@ EXCEPT !.series = <<>>, !.extra = <<>>, !.floor = 0, !.t0 = now,
                                          !.stopT = IF w.store.state # "View" THEN -1 ELSE 0]])

\* A state other than was is told.
SaidState(w, was) == IF w.store.state = was THEN w ELSE OnStateChanged(w)

\* live(), begin(): the recorder begins anew.
Begun(w, state) == SaidState(AddCurrent(Cleared([w EXCEPT !.store.state = state])), w.store.state)

\* stop()
Ended(w) == OnStateChanged([w EXCEPT !.store = [@ EXCEPT !.stopT = Elapsed(w.store, now), !.state = "View"]])

\* The time starts with the first reading.
FromFirst(s) == IF s.series = <<>> /\ now > s.t0 THEN [s EXCEPT !.t0 = now] ELSE s

\* A gap where series ends, up to the stale limit after its newest point.
Closed(s, series) ==
  Append(series, [t |-> Sooner(Newest(series).t + StaleAfter, Later(Newest(series).t, Elapsed(s, now))), v |-> Silent])

Open(series) == series # <<>> /\ Newest(series).v >= 0

CloseExtra(w) == IF Open(w.store.extra) THEN RebuildExtras([w EXCEPT !.store.extra = Closed(w.store, @)]) ELSE w

\* closeSilentExtras()
CloseSilent(w) == IF w.store.shown.t >= 0 /\ now - w.store.shown.t > StaleAfter THEN CloseExtra(w) ELSE w

\* A reading of a recorder that runs; one after the recording length ends it.
TookOne(w, v, ended) ==
  IF ended THEN [Ended(w) EXCEPT !.store.stopT = w.store.length] ELSE Add(w, v, Elapsed(w.store, now))

\* setReading()
Took(w, v) ==
  LET told == [w EXCEPT !.store.reading = [t |-> now, v |-> v]]
  IN  IF w.store.state = "View" THEN told
      ELSE TookOne([CloseSilent(told) EXCEPT !.store = FromFirst(@)], v, LengthReached(w.store, Elapsed(FromFirst(w.store), now)))

AddGap(w) == IF Open(w.store.series) THEN Add(w, Silent, Newest(Closed(w.store, w.store.series)).t) ELSE w

\* setStale(true): the other value first.
FellSilent(w) == IF w.store.state = "View" THEN w ELSE AddGap(CloseExtra(w))

\* load(): all is told anew.
Loaded(w, points) ==
  LET loaded == [w EXCEPT !.store = [@ EXCEPT !.state = "View", !.series = points, !.extra = <<>>, !.floor = 0, !.stopT = -1]]
  IN  [RebuildExtras(loaded) EXCEPT !.graph.map = Map!Rebuilt(@, Overseen(loaded.store))]

\* importFile(): the file's readings are in view from their start.
Imported(w, points) ==
  UpdateTimeAxis(ScrollAt(UpdateScrollRange(RebuildSeries(SaidState(Loaded(w, points), w.store.state))), 0))

-----------------------------------------------------------------------------
(* What the user asks *)

\* setGraphSize(), of the settings: another window than they had ends "All".
SetGraphSize(w, size) ==
  LET all == w.graph.all /\ size = w.graph.saved
  IN  ApplyWindow([w EXCEPT !.graph.all = all, !.graph.saved = size], IF all THEN w.graph.window ELSE size)

\* leaveAll(): a zoom from "All" starts from the window shown.
LeaveAll(w) ==
  LET left == [w EXCEPT !.graph.all = FALSE]
  IN  IF w.graph.all /\ w.graph.window # w.graph.saved THEN SetGraphSize(left, w.graph.window) ELSE left

\* scrollToEnd() but in Live
FollowEnd(w) ==
  IF w.store.state # "Live" THEN ScrollAt(w, w.graph.max)
  ELSE IF w.graph.hold THEN UpdateTimeAxis([w EXCEPT !.graph.hold = FALSE]) ELSE w

\* showFrom(): Live runs on, the window stays where it was put.
ShowFrom(w, start) ==
  LET from == Origin(w.store, now)
  IN  IF w.store.state = "Live" THEN UpdateTimeAxis([w EXCEPT !.graph.hold = TRUE, !.graph.holdStart = Later(from, start)])
      ELSE ScrollAt(w, Later(0, Sooner(start - from, w.graph.max)))

\* Where a window just set is to be.
PlaceWindow(w, start, atEnd) == IF atEnd THEN FollowEnd(w) ELSE ShowFrom(w, start)

\* showSpan()
ShowSpan(w, start, width, atEnd) ==
  LET left == [w EXCEPT !.graph.all = FALSE]
  IN  PlaceWindow(IF width = w.graph.window /\ width = w.graph.saved THEN left ELSE SetGraphSize(left, width), start, atEnd)

\* timeButtonClicked(), "All"
ClickAll(w) == RequestAll([(IF w.graph.hold THEN FollowEnd(w) ELSE w) EXCEPT !.graph.all = TRUE])

\* timeButtonClicked(), a time
ClickTime(w, size) == SetGraphSize([(IF w.graph.hold THEN FollowEnd(w) ELSE w) EXCEPT !.graph.all = FALSE], size)

-----------------------------------------------------------------------------
(* The system *)

Becomes(w) == store' = w.store /\ graph' = w.graph

Uses(w) == uses < MaxUses /\ uses' = uses + 1 /\ Becomes(w) /\ UNCHANGED <<now, readings>>

\* A graph is opened with the window of the settings, before any reading.
Init ==
  /\ now = 0 /\ readings = 0 /\ uses = 0
  /\ store = [state |-> "View", t0 |-> 0, series |-> <<>>, extra |-> <<>>, floor |-> 0, stopT |-> 0, length |-> 0, pre |-> 0,
              preUsed |-> 0, marks |-> {}, reading |-> [t |-> -1, v |-> Silent], shown |-> [t |-> -1, v |-> Silent]]
  /\ \E size \in Sizes :
       graph = [window |-> size, saved |-> size, all |-> FALSE, hold |-> FALSE, holdStart |-> 0, scroll |-> 0, max |-> 0,
                bucket |-> 1, curve |-> <<>>, tail |-> 0, other |-> <<>>, otherTail |-> 0,
                line |-> Line!Empty(<<0, size>>),
                map |-> [start |-> 0, width |-> size, ms |-> Map!PowerFrom((size + MapColumns - 1) \div MapColumns),
                         first |-> 0, columns |-> <<>>]]

Tick == now < MaxTime /\ now' = now + 1 /\ UNCHANGED <<store, graph, readings, uses>>

\* frameTick() of a graph that is visible, before the clock goes on
FrameTick ==
  /\ Following(both) /\ now < MaxTime /\ now' = now + 1
  /\ Becomes(UpdateTimeAxis(both)) /\ UNCHANGED <<readings, uses>>

\* poll()
PollLength ==
  /\ LengthReached(store, Elapsed(store, now))
  /\ Becomes([Ended(both) EXCEPT !.store.stopT = store.length])
  /\ UNCHANGED <<now, readings, uses>>

ReadMain ==
  /\ store.reading.t < now /\ readings < MaxReadings /\ readings' = readings + 1
  /\ \E v \in Values \cup {Overload} : Becomes(Took(both, v))
  /\ UNCHANGED <<now, uses>>

\* setReading(), of the other value
ReadOther ==
  /\ store.shown.t < now /\ readings < MaxReadings /\ readings' = readings + 1
  /\ \E v \in OtherValues :
       Becomes(AddExtra([both EXCEPT !.store.shown = [t |-> now, v |-> v]], v, Later(0, Elapsed(store, now))))
  /\ UNCHANGED <<now, uses>>

\* The meter is silent for the stale limit.
FallSilent ==
  /\ store.reading.t >= 0 /\ now - store.reading.t > StaleAfter /\ (Open(store.series) \/ Open(store.extra))
  /\ Becomes(FellSilent(both))
  /\ UNCHANGED <<now, readings, uses>>

Record   == store.state # "Record" /\ Uses(Begun(both, "Record"))
StopIt   == store.state = "Record" /\ Uses(Ended(both))
LiveSlot == Uses(Begun(FollowEnd(both), "Live"))
ClearIt  == store.series # <<>> /\ Uses(Cleared(both))

ImportFile == \E v \in Values : Uses(Imported(both, <<[t |-> 0, v |-> v], [t |-> 3, v |-> Silent], [t |-> 4, v |-> v]>>))

\* setSampleLength(): Live drops what it no longer keeps.
SetLength ==
  \E length \in Lengths \ {store.length} :
    LET set == [both EXCEPT !.store.length = length] IN Uses(LiveTrimmed(set))

ZoomTo     == \E size \in Sizes : Uses(SetGraphSize(LeaveAll(both), size))
ZoomFit    == Uses(SetGraphSize([both EXCEPT !.graph.all = FALSE], AllTarget(both, FALSE)))
ShowAll    == Uses(ClickAll(both))
ShowTime   == \E size \in Sizes : Uses(ClickTime(both, size))

\* The overview (mouseMoveEvent()): its window moved, or one of its brackets; a few pixels from the end are left out.
Right == graph.map.start + graph.map.width
Ends  == Map!To(graph.map, Overseen(store))

MoveTo   == \E start \in Origin(store, now)..(Ends - graph.map.width - 1) : Uses(ShowFrom(both, start))
MoveEnd  == Uses(FollowEnd(both))
MoveLeft == \E start \in Origin(store, now)..(Right - 1) : Uses(ShowSpan(both, start, Right - start, Right >= Ends))
MoveRight ==
  \E right \in (graph.map.start + 1)..Ends : Uses(ShowSpan(both, graph.map.start, right - graph.map.start, right >= Ends))

\* The scroll bar, in its place
ScrollTo == \E v \in 0..graph.max : store.state # "Live" /\ Uses(ScrollAt(both, v))

Next ==
  \/ Tick \/ FrameTick \/ PollLength \/ ReadMain \/ ReadOther \/ FallSilent
  \/ Record \/ StopIt \/ LiveSlot \/ ClearIt \/ ImportFile \/ SetLength
  \/ ZoomTo \/ ZoomFit \/ ShowAll \/ ShowTime
  \/ MoveTo \/ MoveEnd \/ MoveLeft \/ MoveRight \/ ScrollTo

Spec == Init /\ [][Next]_vars

-----------------------------------------------------------------------------
(* Properties *)

\* The curve has the points a curve built anew would have, but for what Live has dropped and the graph not yet.
CurveIsTrue(points, series) ==
  LET oldest == series[1].t \div graph.bucket
      Newer(ps) == SelectSeq(ps, LAMBDA p : p.x \div graph.bucket > oldest)
  IN  IF series = <<>> THEN points = <<>> ELSE Newer(points) = Newer(AllPoints(series, graph.bucket))

\* No line leads over a silence that goes on after its bucket.
NothingBridged(points, series) ==
  LET Column(t) == t \div graph.bucket
      GoesOn(k) == series[k].v = Silent /\ (k = Len(series) \/ Column(series[k + 1].t) > Column(series[k].t))
  IN  \A i \in 1..(Len(points) - 1), k \in DOMAIN series :
        points[i].y >= 0 /\ points[i + 1].y >= 0 /\ GoesOn(k)
          => Column(series[k].t) < Column(points[i].x) \/ Column(points[i + 1].x) <= Column(series[k].t)

CurvesAreTheReadings ==
  /\ CurveIsTrue(graph.curve, store.series)
  /\ NothingBridged(graph.curve, store.series)
  /\ CurveIsTrue(graph.other, store.extra)
  /\ graph.line.all = graph.curve
  /\ Line!ChartHasTheCurve(graph.line)
  /\ Map!StripIsTrue(graph.map, Overseen(store))

\* "All" shows all: what there is when a reading came.
ShowsAll ==
  readings' > readings /\ store'.series # store.series /\ store'.state # "View" /\ graph'.all
    => graph'.window >= Duration(store', now') - Origin(store', now')

AllShowsAll == [][ShowsAll]_vars
=============================================================================
