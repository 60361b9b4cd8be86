------------------------------- MODULE StoreOps -------------------------------
(***************************************************************************)
(* What the operations of a RecordingStore (recording/recordingstore.cpp)  *)
(* do to it, as operators from a store to a store: the main value's series *)
(* with its live window, its recording and its start triggers.             *)
(*                                                                         *)
(* A store is a record, see Stores.  A point is                            *)
(* [t, v, f, at, own]: t and v as in RawPoint, v = Gap where it has no     *)
(* value.  f, at and own are kept for the properties only: the function    *)
(* that was measured, the moment the reading came, and whether it came     *)
(* after the window or the recording began (a recording takes readings     *)
(* along that came before).                                                *)
(***************************************************************************)
EXTENDS Integers, Sequences, FiniteSets

CONSTANTS
  Functions,   \* what meters measure, and the units it is told in: "V", "Ohm", ...
  LiveMax,     \* how much Live keeps without a recording length (kLiveMaxMs)
  Slack,       \* Live drops only what is older by more than this (1000 ms)
  MaxPoints,   \* m_maxPoints
  StaleAfter,  \* m_staleMs
  Raise, Fall  \* m_raisingThreshold, m_fallingThreshold

ASSUME StoreAssumption ==
  /\ LiveMax \in Nat /\ Slack \in Nat /\ StaleAfter \in Nat
  /\ MaxPoints \in Nat /\ MaxPoints >= 2
  /\ Raise \in Int /\ Fall \in Int

Gap == -1         \* no value: an overload, no number shown, or gone stale
Nothing == "none"   \* no function known, no unit
Unknown == "?"    \* a quantity nobody knows (Quantity::Unknown)

Modes == {"Manual", "Time", "Raising", "Falling"}
Words == Functions \cup {Nothing, Unknown}

ASSUME FunctionsAssumption == Nothing \notin Functions

Points == [t : Nat, v : Int, f : Words, at : Int, own : BOOLEAN]
Marks  == [t : Nat, trigger : BOOLEAN]

\* A reading of the main value, as the meter tells it.
Told == [v : Int, f : Functions \cup {Unknown}]

\* The fields are the members of RecordingStore: port m_recordPort, last m_lastVal (Gap: not valid), reading m_reading
\* (t < 0: none), length, pre and mode the setup, nextUnit and pending setUnit() while readings are held.
Stores ==
  [state : {"View", "Live", "Record"}, t0 : Int, series : Seq(Points), port : Words, stopT : Int, preUsed : Nat,
   hold : BOOLEAN, floor : Nat, dirty : BOOLEAN, marks : SUBSET Marks, last : Int,
   reading : [t : Int, v : Int, f : Words], length : Nat, pre : Nat, mode : Modes,
   unit : Words, nextUnit : Words, pending : BOOLEAN, fromFile : BOOLEAN]

Later(a, b)  == IF a >= b THEN a ELSE b
Sooner(a, b) == IF a <= b THEN a ELSE b

\* A point with a value.
Valued(p) == p.v # Gap

Newest(series) == series[Len(series)]

\* RecordingSeries::holding, counted from 1; 0 when there is none.
Holding(series, t) == Cardinality({i \in DOMAIN series : series[i].t <= t})

\* The point that holds at a moment; none before the first one.
HoldsAt(series, t) == {series[i] : i \in {Holding(series, t)} \ {0}}

-----------------------------------------------------------------------------
(* How far a store reaches. *)

Elapsed(s, now) == now - s.t0

Duration(s, now) ==
  IF s.state # "View" THEN Elapsed(s, now)
  ELSE IF s.stopT >= 0 THEN s.stopT
  ELSE IF s.series = <<>> THEN 0 ELSE Newest(s.series).t

LiveWindow(s) == Later(IF s.length > 0 THEN s.length ELSE LiveMax, s.pre)

LiveKept(s) == IF s.length > 0 THEN LiveWindow(s) ELSE Later(LiveMax, LiveWindow(s))

Origin(s, now) == IF s.state = "Live" THEN Later(0, Duration(s, now) - LiveKept(s)) ELSE s.floor

\* A recording of s ends here, counted from its start: the length counts from the trigger.
Limit(s) == s.length + s.preUsed

-----------------------------------------------------------------------------
(* Points come and go. *)

\* How many of the oldest points trimMain() drops: what holds at the origin stays.
Excess(s, now) ==
  LET from  == Origin(s, now)
      aged  == /\ s.state = "Live" /\ Len(s.series) > 1
               /\ s.series[2].t < from - Later(Slack, LiveKept(s) \div 20)
      old   == IF aged THEN Later(0, Holding(s.series, from) - 1) ELSE 0
  IN  IF Len(s.series) - old > MaxPoints + (MaxPoints \div 100) THEN Len(s.series) - MaxPoints ELSE old

\* A slip: the marks before what is kept stay.
TrimKeepsMarks(s, now) ==
  IF s.series = <<>> \/ Excess(s, now) <= 0 THEN s
  ELSE LET rest  == SubSeq(s.series, Excess(s, now) + 1, Len(s.series))
       IN  [s EXCEPT !.series = rest, !.floor = IF s.state = "Live" THEN @ ELSE rest[1].t]

\* trimMain: a recording that outgrew the most points starts at what is left; marks before that fall off.
Trim(s, now) ==
  IF s.series = <<>> \/ Excess(s, now) <= 0 THEN s
  ELSE LET rest  == SubSeq(s.series, Excess(s, now) + 1, Len(s.series))
           floor == IF s.state = "Live" THEN s.floor ELSE rest[1].t
           first == Later(IF s.state = "Live" THEN Origin(s, now) ELSE floor, rest[1].t)
       IN  [s EXCEPT !.series = rest, !.floor = floor, !.marks = {m \in @ : m.t >= first}]

\* A slip: only the first point of a recording makes it dirty.
KeepClean(s, p, now) ==
  LET at == IF s.series = <<>> THEN p ELSE [p EXCEPT !.t = Later(@, Newest(s.series).t)]
  IN  Trim([s EXCEPT !.series = Append(@, at), !.dirty = @ \/ (s.state = "Record" /\ s.series = <<>>)], now)

\* append, appendPoint: at the earliest at the last point's time.  The live window is no recording: nothing to lose.
Keep(s, p, now) ==
  LET at == IF s.series = <<>> THEN p ELSE [p EXCEPT !.t = Later(@, Newest(s.series).t)]
  IN  Trim([s EXCEPT !.series = Append(@, at), !.dirty = @ \/ s.state = "Record"], now)

\* clear: m_preUsed and m_holdOrigin stay as they are.
Clear(s, now) ==
  [s EXCEPT !.series = <<>>, !.floor = 0, !.port = Nothing,
            !.unit = IF s.pending THEN s.nextUnit ELSE @, !.pending = FALSE,
            !.marks = {}, !.t0 = now, !.stopT = IF s.state # "View" THEN -1 ELSE 0,
            !.fromFile = FALSE, !.dirty = FALSE]

\* setStale(true): the last value held until the stale limit, no longer.
SetStale(s, now) ==
  IF s.state = "View" \/ s.series = <<>> \/ Newest(s.series).v = Gap THEN s
  ELSE LET last == Newest(s.series)
           t    == Sooner(last.t + StaleAfter, Later(last.t, Elapsed(s, now)))
       IN  Keep(s, [t |-> t, v |-> Gap, f |-> Nothing, at |-> s.t0 + t, own |-> TRUE], now)

-----------------------------------------------------------------------------
(* A recording starts and ends. *)

\* appendCurrent: the value the meter shows at the start, unless it is stale.
AppendCurrent(s, now, atItsTime) ==
  IF s.reading.t < 0 \/ now - s.reading.t > StaleAfter THEN s
  ELSE Keep(s, [t   |-> IF atItsTime THEN Later(0, s.reading.t - s.t0) ELSE 0, v |-> s.reading.v,
                f |-> s.reading.f, at |-> s.reading.t, own |-> FALSE], now)

\* livePart: the reading that held at from and those after it.
LivePart(s, from) == SubSeq(s.series, Later(1, Holding(s.series, from)), Len(s.series))

\* A slip: the times stay counted from the window's start.
AppendUnmoved(s, part, t0, now) ==
  Trim([s EXCEPT !.series = @ \o [i \in DOMAIN part |-> [part[i] EXCEPT !.own = FALSE]], !.dirty = @ \/ part # <<>>], now)

\* appendLivePart: the points of a window that began at t0, their times counted from the recording's start.
AppendLivePart(s, part, t0, now) ==
  LET moved(p) == [p EXCEPT !.t = Later(0, t0 + p.t - s.t0), !.own = FALSE]
  IN  Trim([s EXCEPT !.series = @ \o [i \in DOMAIN part |-> moved(part[i])], !.dirty = @ \/ part # <<>>], now)

\* The recorder cleared for a recording from t0 on.
Emptied(s, t0, hold, now) ==
  [Clear([s EXCEPT !.state = "Record"], now) EXCEPT !.stopT = -1, !.preUsed = 0, !.t0 = t0, !.hold = hold]

\* A recording from Live that reaches back as far as pre, the part it takes along: the trigger stands at its mark.
ReachBack(s, pre, preMs, now) ==
  LET back == Later(0, Sooner(preMs, now - (s.t0 + pre[1].t)))
      new  == [Emptied(s, now - back, FALSE, now) EXCEPT !.preUsed = back]
  IN  [AppendLivePart(new, pre, s.t0, now) EXCEPT !.marks = @ \cup {[t |-> back, trigger |-> TRUE]}]

\* begin(): a start from Live by a threshold reaches back by the pre-trigger, or as far as there are readings.
Begin(s, preMs, now) ==
  LET pre == IF preMs > 0 /\ s.state = "Live" THEN LivePart(s, Elapsed(s, now) - preMs) ELSE <<>>
  IN  IF pre = <<>> THEN AppendCurrent(Emptied(s, now, FALSE, now), now, FALSE) ELSE ReachBack(s, pre, preMs, now)

\* A slip: only the value shown now, nothing of the live window.
StartAtCurrent(s, t0, now) == AppendCurrent(Emptied(s, t0, TRUE, now), now, TRUE)

\* startAt(): what Live holds since t0, or the value shown now at the time it came.
StartAt(s, t0, now) ==
  LET since == IF s.state = "Live" THEN LivePart(s, t0 - s.t0) ELSE <<>>
      new   == Emptied(s, t0, TRUE, now)
  IN  IF Len(since) > 1 THEN AppendLivePart(new, since, s.t0, now) ELSE AppendCurrent(new, now, TRUE)

Stop(s, now) ==
  IF s.state # "Record" THEN s ELSE [s EXCEPT !.stopT = Elapsed(s, now), !.state = "View"]

GoLive(s, now) ==
  AppendCurrent([Clear([s EXCEPT !.state = "Live"], now) EXCEPT !.preUsed = 0, !.hold = FALSE, !.last = Gap], now, FALSE)

\* lengthReached() at t ms since the start.
LengthReached(s, t) == s.state = "Record" /\ s.length > 0 /\ t >= Limit(s)

EndAtLength(s, now) == [Stop(s, now) EXCEPT !.stopT = Limit(s)]

\* load(): m_t0, m_preUsed and m_holdOrigin stay; a unit that waited is forgotten.
Load(s, file) ==
  [s EXCEPT !.state = "View", !.unit = file.unit, !.pending = FALSE, !.port = Nothing, !.series = file.series,
            !.floor = 0, !.marks = {}, !.fromFile = TRUE, !.stopT = -1, !.dirty = FALSE]

\* A slip: the clock starts a recording whatever is shown.
PollAnyState(s, startTime, now) ==
  LET started == IF s.state # "Record" /\ s.mode = "Time" /\ now - startTime \in {0, 1} THEN Begin(s, 0, now) ELSE s
  IN  IF LengthReached(started, Elapsed(started, now)) THEN EndAtLength(started, now) ELSE started

\* poll(): the start at a clock time (a timer may miss the exact second), the recording length.
Poll(s, startTime, now) ==
  LET started == IF s.state = "Live" /\ s.mode = "Time" /\ now - startTime \in {0, 1} THEN Begin(s, 0, now) ELSE s
  IN  IF LengthReached(started, Elapsed(started, now)) THEN EndAtLength(started, now) ELSE started

-----------------------------------------------------------------------------
(* A reading of the main value, one of Told. *)

\* setUnit: the readings keep the unit they were recorded in; Live follows the meter.
SetUnit(s, unit) ==
  IF s.series # <<>> /\ s.state # "Live"
  THEN [s EXCEPT !.nextUnit = unit, !.pending = unit # s.unit]
  ELSE [s EXCEPT !.unit = unit, !.pending = FALSE]

\* An overload, no number or an unknown quantity says nothing about the function.
Says(r) == r.v # Gap /\ r.f # Unknown

Crosses(s, v) ==
  /\ s.last # Gap /\ v # Gap
  /\ \/ s.mode = "Raising" /\ s.last < Raise /\ v >= Raise
     \/ s.mode = "Falling" /\ s.last > Fall /\ v <= Fall

\* trigger(): a gap crosses nothing, and the next value is compared with the last one there was.
Trigger(s, v, now) ==
  LET begun == IF Crosses(s, v) THEN Begin(s, s.pre, now) ELSE s
  IN  IF v = Gap THEN begun ELSE [begun EXCEPT !.last = v]

\* The time starts with the first reading: the curve begins at 0.
FromFirstReading(s, t) == IF s.series = <<>> /\ s.marks = {} /\ ~s.hold /\ t > s.t0 THEN [s EXCEPT !.t0 = t] ELSE s

\* Live's window starts anew with another function.
Anew(s, now) == [Clear(s, now) EXCEPT !.last = Gap]

\* A reading into the window or the recording.
Take(s, r, now) ==
  LET base  == FromFirstReading(s, now)
      point == [t |-> Later(0, now - base.t0), v |-> r.v, f |-> r.f, at |-> now, own |-> TRUE]
  IN  IF s.state = "Live" THEN Trigger(Keep(base, point, now), r.v, now)
      ELSE IF LengthReached(base, point.t) THEN EndAtLength(base, now) ELSE Keep(base, point, now)

\* A slip: Live goes on with another function.
SetReadingLiveGoesOn(s, r, now) ==
  LET shown == [s EXCEPT !.reading = [t |-> now, v |-> r.v, f |-> r.f]]
  IN  IF s.state = "View" THEN shown
      ELSE IF ~Says(r) \/ r.f = s.port THEN Take(shown, r, now)
      ELSE IF s.state = "Record" /\ s.port # Nothing THEN Stop(shown, now)
      ELSE Take([shown EXCEPT !.port = r.f], r, now)

\* setReading(): one recording, one quantity; another function ends it.
SetReading(s, r, now) ==
  LET shown == [s EXCEPT !.reading = [t |-> now, v |-> r.v, f |-> r.f]]
  IN  IF s.state = "View" THEN shown
      ELSE IF ~Says(r) \/ r.f = s.port THEN Take(shown, r, now)
      ELSE IF s.port = Nothing THEN Take([shown EXCEPT !.port = r.f], r, now)
      ELSE IF s.state = "Record" THEN Stop(shown, now)
      ELSE Take([Anew(shown, now) EXCEPT !.port = r.f], r, now)

\* MeterController::publish: a new unit is told before the reading.
Publish(s, unit, r, now) == SetReading(IF unit # r.f THEN SetUnit(s, r.f) ELSE s, r, now)

\* applySetup(): the length first, then the pre-trigger; Live drops at once what its window does not keep.
ApplySetup(s, setup, now) ==
  LET limited(x) == IF s.state = "Live" THEN Trim(x, now) ELSE x
  IN  [limited([limited([s EXCEPT !.length = setup.length]) EXCEPT !.pre = setup.pre]) EXCEPT !.mode = setup.mode]
=============================================================================
