-------------------------------- MODULE GapLine --------------------------------
(***************************************************************************)
(* A curve of the graph with its gaps (ui/views/gapline.cpp): it keeps all *)
(* of its points, and the chart gets those around the time shown, a series *)
(* for each stretch between two gaps. Points come and go at the end, so    *)
(* the last ones can be taken back one by one.                             *)
(*                                                                         *)
(* A line is a record of the members of the same names; segs are the       *)
(* points of the series in use. Series kept for later, pens, markers and   *)
(* the faint line on to now follow from it and are left out.               *)
(***************************************************************************)
EXTENDS Integers, Sequences, SequencesExt

CONSTANT Undo   \* kUndo

\* A point of a curve is [x, y]; y is negative where the curve has a gap.
IsGap(p) == p.y < 0

\* std::lower_bound by x, counted from 0.
Before(all, x) == Len(SelectSeq(all, LAMBDA p : p.x < x))

Step(gap, newSegment, pendingBefore) == [gap |-> gap, newSegment |-> newSegment, pendingBefore |-> pendingBefore]

\* add(): a gap before the first point of a segment splits nothing.
Add(line, p) ==
  LET opens == line.pending /\ Last(line.segs) # <<>>
      segs  == IF opens THEN Append(line.segs, <<p>>) ELSE [line.segs EXCEPT ![Len(line.segs)] = Append(@, p)]
      steps == Append(line.steps, Step(IsGap(p), ~IsGap(p) /\ opens, line.pending))
  IN  [line EXCEPT !.segs = IF IsGap(p) THEN @ ELSE segs, !.pending = IsGap(p),
                   !.steps = SubSeq(steps, Len(steps) - (IF Len(steps) > Undo THEN Undo ELSE Len(steps)) + 1, Len(steps))]

\* load(): the span and half of it on each side, and a point beyond.
Load(line) ==
  LET half == (line.span[2] - line.span[1]) \div 2
      min  == line.span[1] - half
      max  == line.span[2] + half
      from == IF Before(line.all, min) > 0 THEN Before(line.all, min) - 1 ELSE 0
      to   == IF Before(line.all, max) < Len(line.all) THEN Before(line.all, max) + 1 ELSE Len(line.all)
      anew == [line EXCEPT !.from = from, !.toEnd = to >= Len(line.all), !.loaded = <<min, max>>,
                           !.segs = << <<>> >>, !.steps = <<>>, !.pending = FALSE]
  IN  FoldLeft(Add, anew, SubSeq(line.all, from + 1, to))

Replace(line, points) == Load([line EXCEPT !.all = points])

\* append()
Extend(line, points) ==
  LET more == [line EXCEPT !.all = @ \o points] IN IF line.toEnd THEN FoldLeft(Add, more, points) ELSE more

\* One step of removeLast().
TakeBack(line) ==
  LET step  == Last(line.steps)
      segs  == [line.segs EXCEPT ![Len(line.segs)] = Front(@)]
  IN  [line EXCEPT !.steps = Front(@), !.pending = step.pendingBefore,
                   !.segs = IF step.gap THEN @ ELSE IF step.newSegment THEN Front(@) ELSE segs]

\* removeLast(): from the chart too, if it has the newest points and remembers enough of them.
RemoveLast(line, count) ==
  LET less == [line EXCEPT !.all = SubSeq(@, 1, Len(@) - count)]
  IN  IF ~line.toEnd THEN less
      ELSE IF Len(line.steps) < count \/ Len(less.all) < line.from THEN Load(less)
      ELSE FoldLeft(LAMBDA l, i : TakeBack(l), less, [i \in 1..count |-> i])

\* setSpan(): loaded anew when the span leaves what the chart has, or is much less than that.
SetSpan(line, min, max) ==
  LET line2 == [line EXCEPT !.span = <<min, max>>]
      end   == IF ~line.toEnd THEN line.loaded[2]
               ELSE IF line.all # <<>> /\ Last(line.all).x > max THEN Last(line.all).x ELSE max
  IN  IF \/ min < line.loaded[1] /\ line.from > 0
         \/ ~line.toEnd /\ max > line.loaded[2]
         \/ end - line.loaded[1] > 2 * (max - min)
      THEN Load(line2) ELSE line2

\* A line without points, where the chart shows the times of span.
Empty(span) ==
  Load([all |-> <<>>, from |-> 0, toEnd |-> TRUE, span |-> span, loaded |-> span, segs |-> << <<>> >>, steps |-> <<>>,
        pending |-> FALSE])

-----------------------------------------------------------------------------
(* What the chart is to show *)

\* The stretches between the gaps of points.
Stretches(points) ==
  LET segs == FoldLeft(LAMBDA done, p : IF IsGap(p) THEN Append(done, <<>>) ELSE [done EXCEPT ![Len(done)] = Append(@, p)],
                       << <<>> >>, points)
  IN  SelectSeq(segs, LAMBDA s : s # <<>>)

\* Between the times it was loaded for the chart is the curve, and what the span shows is between them.
ChartHasTheCurve(line) ==
  LET Near(p) == p.x >= line.loaded[1] /\ (line.toEnd \/ p.x <= line.loaded[2])
      Parts(segs) == SelectSeq([i \in DOMAIN segs |-> SelectSeq(segs[i], Near)], LAMBDA s : s # <<>>)
  IN  /\ Parts(line.segs) = Stretches(SelectSeq(line.all, Near))
      /\ line.from = 0 \/ line.loaded[1] <= line.span[1]
      /\ line.toEnd \/ line.loaded[2] >= line.span[2]
=============================================================================
